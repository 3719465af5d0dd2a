---------------------------- MODULE MCKeyedTable ----------------------------
(* Source tables small enough for TLC, with the values that make rows hard:  *)
(* two numbers that are one in float64, a text with the separator of keys,   *)
(* two times in the same second, a NaN, a null.                              *)
EXTENDS KeyedTable

MCCols == {"a", "b"}
MCValues == {"null", "x", "y", "y|x", "x|y", "big1", "big2", "noon.1", "noon.2", "noon", "NaN"}
MCNormal == [v \in MCValues |-> IF v \in {"noon.1", "noon.2"} THEN "noon" ELSE v]
MCText == [v \in MCValues |-> IF v = "null" THEN "<nil>" ELSE v]
MCTexts == {MCText[v] : v \in MCValues}
MCKeys == STRING
MCJoin(parts) ==
  CASE Len(parts) = 0 -> ""
    [] Len(parts) = 1 -> parts[1]
    [] OTHER -> parts[1] \o "|" \o parts[2]
MCJson == [v \in MCValues |-> IF v = "NaN" THEN "none" ELSE v]
MCJsons == MCValues \ {"NaN"}
MCReread == [j \in MCJsons |-> IF j = "big2" THEN "big1" ELSE j]

AB(a, b) == [c \in MCCols |-> IF c = "a" THEN a ELSE b]
A(a) == [c \in {"a"} |-> a]

\* Two rows; the same, with one changed in what float64 does not hold and the
\* other gone; the column b dropped.
Plain == {[rows |-> <<AB("x", "big1"), AB("y", "null")>>, key |-> <<"a">>],
          [rows |-> <<AB("x", "big2")>>, key |-> <<"a">>],
          [rows |-> <<A("y"), A("x")>>, key |-> <<"a">>]}
\* A key of two columns whose texts hold the separator.
Barred == {[rows |-> <<AB("x", "y|x"), AB("x|y", "x")>>, key |-> <<"a", "b">>],
           [rows |-> <<AB("x", "y"), AB("x|y", "x")>>, key |-> <<"b", "a">>]}
\* Two times that normalisation makes one key; a NaN.
Timed == {[rows |-> <<AB("noon.1", "x"), AB("noon.2", "y")>>, key |-> <<"a">>],
          [rows |-> <<AB("x", "NaN"), AB("y", "null")>>, key |-> <<"a">>]}
Keyless == {[rows |-> <<AB("x", "y")>>, key |-> <<>>],
            [rows |-> <<AB("x", "y"), AB("y", "x"), AB("x", "y")>>, key |-> <<>>]}
MCSources == Plain \cup Barred \cup Timed \cup Keyless
=============================================================================
