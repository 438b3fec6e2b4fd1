--------------------------- MODULE EnvDistanceParser ---------------------------
(***************************************************************************)
(* hwloc_get_type_distances_from_string (src/src/distances.c 96-176), the  *)
(* parser of one HWLOC_<type>_DISTANCES value, and the grammar spec 4.2    *)
(* gives for it.                                                           *)
(*                                                                         *)
(* A string is a sequence of lexemes: a numeral (a run of decimal digits,  *)
(* kept as its digit sequence because strtoul with base 0 and %u read the  *)
(* same digits differently) or one of the characters ',', ':' and '*'.     *)
(* The position Len(s)+1 is the terminating NUL.  The code's loops are     *)
(* scanners over positions; each is a RECURSIVE operator that returns the  *)
(* values read and the position `next` the C function would leave.  A      *)
(* numeral with a leading 0 has octal digits only, so strtoul consumes it  *)
(* whole.  unsigned is Width bits wide.                                    *)
(***************************************************************************)
EXTENDS Integers, Sequences, FiniteSets, SequencesExt

CONSTANTS
  Strings,   \* the values the environment variable may hold
  Width      \* bits of an unsigned

VARIABLES
  input,     \* the string getenv returned
  parsed     \* NotRead, or what the parser hands to the store

vars == <<input, parsed>>

Num(d) == [k |-> "num", v |-> d]
Sep(c) == [k |-> c, v |-> <<>>]
NUL == Sep("\\0")

At(s, p) == IF p \in 1 .. Len(s) THEN s[p] ELSE NUL
IsNum(t) == t.k = "num"

Unsigned(x) == x % (2 ^ Width)

\* The value of a digit sequence in base b.
InBase(d, b) == FoldLeft(LAMBDA acc, x : acc * b + x, 0, d)

\* %u and strtof read decimal; strtoul with base 0 reads a leading 0 as octal.
Decimal(d) == InBase(d, 10)
Base0(d) == IF d[1] = 0 /\ Len(d) > 1 THEN InBase(d, 8) ELSE InBase(d, 10)

\* Lines 108-119: count the indexes.  strspn over digits gives the run at
\* p; a ',' after it is another index, anything else ends the list.
\* Returns <<position after the last index, count>>.
RECURSIVE CountIndexes(_, _, _)
CountIndexes(s, p, n) ==
  LET size == IF IsNum(At(s, p)) THEN 1 ELSE 0
  IN IF At(s, p + size).k = ","
       THEN CountIndexes(s, p + size + 1, n + 1)
       ELSE <<p + size, n + 1>>

\* strtoul(tmp, &next, 0) and strtof(tmp, &next): <<value, next>>; with no
\* digits at tmp nothing is converted, the value is 0 and next = tmp.
Strtoul(s, p) == IF IsNum(At(s, p)) THEN <<Base0(At(s, p).v), p + 1>> ELSE <<0, p>>
Strtof(s, p) == IF IsNum(At(s, p)) THEN <<Decimal(At(s, p).v), p + 1>> ELSE <<0, p>>

\* Lines 131-135: k indexes from p, tmp = next+1 after each.
\* Returns <<indexes, tmp>>.
RECURSIVE ParseIndexes(_, _, _)
ParseIndexes(s, p, k) ==
  IF k = 0 THEN <<<<>>, p>>
  ELSE LET r == Strtoul(s, p)
           rest == ParseIndexes(s, r[2] + 1, k - 1)
       IN <<<<r[1]>> \o rest[1], rest[2]>>

\* Line 139: sscanf(tmp, "%u*%u*%u", &x, &y, &z) >= 2, and x, y, z (z
\* stays 1 when the third conversion fails).
Grouping(s, p) ==
  /\ IsNum(At(s, p)) /\ At(s, p + 1).k = "*" /\ IsNum(At(s, p + 2))
GroupingSizes(s, p) ==
  <<Decimal(At(s, p).v), Decimal(At(s, p + 2).v),
    IF At(s, p + 3).k = "*" /\ IsNum(At(s, p + 4)) THEN Decimal(At(s, p + 4).v) ELSE 1>>

\* Lines 148-157: the matrix of x groups of y groups of z objects, row-major.
Generate(n, y, z) ==
  [c \in 1 .. n * n |->
     LET i == (c - 1) \div n
         j == (c - 1) % n
     IN IF i = j THEN 1
        ELSE IF i \div z = j \div z THEN 2
        ELSE IF (i \div z) \div y = (j \div z) \div y THEN 4
        ELSE 8]

\* Lines 160-172: total values from p, each strtof then tmp = next+1; a NUL
\* right after a value that is not the last one rejects the string.
RECURSIVE ParseValues(_, _, _, _)
ParseValues(s, p, i, total) ==
  LET r == Strtof(s, p)
      this == [ok |-> TRUE, values |-> <<r[1]>>]
  IN IF At(s, r[2]) = NUL /\ i # total - 1
       THEN [this EXCEPT !.ok = FALSE]
     ELSE IF i = total - 1 THEN this
     ELSE LET rest == ParseValues(s, r[2] + 1, i + 1, total)
          IN [ok |-> rest.ok, values |-> this.values \o rest.values]

Rejected == [ok |-> FALSE, indexes |-> <<>>, distances |-> <<>>]

\* Lines 96-176: the parse, and what goes to hwloc_topology__set_distance_matrix.
Parse(s) ==
  LET count == CountIndexes(s, 1, 0)
      n == count[2]
      ix == ParseIndexes(s, 1, n)
      p == ix[2]
      xyz == GroupingSizes(s, p)
      vals == ParseValues(s, p, 0, n * n)
  IN IF At(s, count[1]).k # ":" THEN Rejected
     ELSE IF Grouping(s, p)
       THEN IF Unsigned(Unsigned(xyz[1] * xyz[2]) * xyz[3]) # n THEN Rejected
            ELSE [ok |-> TRUE, indexes |-> ix[1], distances |-> Generate(n, xyz[2], xyz[3])]
     ELSE IF ~vals.ok THEN Rejected
     ELSE [ok |-> TRUE, indexes |-> ix[1], distances |-> vals.values]

-----------------------------------------------------------------------------
\* Spec 4.2, the grammar: idx0,...,idxN-1:BODY with decimal numbers, BODY
\* either N*N comma-separated values or X*Y[*Z] with X*Y*Z = N.
List(t, sep) == Len(t) % 2 = 1 /\ \A k \in 1 .. Len(t) :
                  IF k % 2 = 1 THEN IsNum(t[k]) ELSE t[k].k = sep
ListValues(t) == [k \in 1 .. (Len(t) + 1) \div 2 |-> Decimal(t[2 * k - 1].v)]

Grammar(s) ==
  LET colons == {k \in 1 .. Len(s) : s[k].k = ":"}
      c == CHOOSE k \in colons : TRUE
      idx == SubSeq(s, 1, c - 1)
      body == SubSeq(s, c + 1, Len(s))
      n == (Len(idx) + 1) \div 2
      g == ListValues(body)
  IN IF Cardinality(colons) # 1 \/ ~List(idx, ",") THEN Rejected
     ELSE IF List(body, "*") /\ Len(body) \in {3, 5}
       THEN IF g[1] * g[2] * (IF Len(body) = 5 THEN g[3] ELSE 1) # n THEN Rejected
            ELSE [ok |-> TRUE, indexes |-> ListValues(idx),
                  distances |-> Generate(n, g[2], IF Len(body) = 5 THEN g[3] ELSE 1)]
     ELSE IF List(body, ",") /\ Len(g) = n * n
       THEN [ok |-> TRUE, indexes |-> ListValues(idx), distances |-> g]
     ELSE Rejected

-----------------------------------------------------------------------------
NotRead == [ok |-> FALSE, indexes |-> <<0>>, distances |-> <<>>]

Init == input \in Strings /\ parsed = NotRead

\* Lines 186-189: getenv found the variable and the parser runs on it.
GetTypeDistancesFromString ==
  /\ parsed = NotRead
  /\ parsed' = Parse(input)
  /\ UNCHANGED input

Spec == Init /\ [][GetTypeDistancesFromString]_vars

\* Spec 4.2 and 7: the parser stores exactly the matrix the grammar
\* describes, and rejects (ParseError) every string the grammar does not
\* produce.  The index count (strspn over digits) and the index values
\* (strtoul base 0), empty fields read as 0, values past N*N ignored, and
\* the unsigned product X*Y*Z each make the code disagree.
ParsesAsGrammar == parsed # NotRead => parsed = Grammar(input)
====
