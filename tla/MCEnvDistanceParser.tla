------------------------- MODULE MCEnvDistanceParser -------------------------
EXTENDS EnvDistanceParser

Comma == Sep(",")
Colon == Sep(":")
Star == Sep("*")

\* Numerals: 0, 1, 2, 3, 010 (octal 8 to strtoul, 10 to the grammar) and
\* 21846 (3 * 21846 = 2 modulo 2^16).
N0 == Num(<<0>>)
N1 == Num(<<1>>)
N2 == Num(<<2>>)
N3 == Num(<<3>>)
N010 == Num(<<0, 1, 0>>)
NBig == Num(<<2, 1, 8, 4, 6>>)

\* Fields joined by commas; an empty field is <<>>.
Joined(f) == FlattenSeq([c \in 1 .. 2 * Len(f) - 1 |->
                           IF c % 2 = 1 THEN f[(c + 1) \div 2] ELSE <<Comma>>])
FieldLists(F, n) == UNION {[1 .. k -> F] : k \in 1 .. n}

IndexParts == {Joined(f) : f \in FieldLists({<<N0>>, <<N1>>, <<N010>>, <<>>}, 2)}
Shorthands ==
  {<<x, Star, y>> : x, y \in {N1, N2, N3, NBig}} \cup
  {<<x, Star, y, Star, z>> : x, y, z \in {N1, N2, N3}}
ValueLists == {Joined(f) : f \in FieldLists({<<N1>>, <<N2>>, <<>>}, 5)}

MCStrings ==
  IndexParts \cup {i \o <<Colon>> \o b : i \in IndexParts, b \in Shorthands \cup ValueLists}
====
