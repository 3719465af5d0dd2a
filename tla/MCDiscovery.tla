------------------------------ MODULE MCDiscovery ------------------------------
(***************************************************************************)
(* Discovery for TLC: two tables of one namespace, and two schemas the     *)
(* source changes between.                                                 *)
(***************************************************************************)
EXTENDS Discovery, TLC

CONSTANTS d1, d2

TwoTables == {"orders", "items"}
OneNamespace == [t \in TwoTables |-> "public"]
TwoColumns == {"id", "ref"}
Number(size) == [type |-> "int", size |-> size]
Text(size) == [type |-> "text", size |-> size]
TwoTypes == {"int", "text"}
ThreeSizes == {10, 20, 32}
SomeKeys == {"none", "id"}

Fk(name, from, to, pairs) == [name |-> name, from |-> from, to |-> to, pairs |-> pairs]
Cols(id, ref) == [c \in TwoColumns |-> IF c = "id" THEN id ELSE ref]
None == Cols(NoColumn, NoColumn)

\* items refers to orders and to itself, each by one column.
Full ==
  [ tables |-> TwoTables, key |-> [t \in TwoTables |-> "id"],
    columns |-> [t \in TwoTables |-> Cols(Number(32), IF t = "items" THEN Number(32) ELSE NoColumn)],
    fks |-> {Fk("fk", "items", "orders", {<<"ref", "id">>}), Fk("own", "items", "items", {<<"ref", "id">>})} ]
\* There is no orders; items has no primary key, and a composite key to itself.
Small ==
  [ tables |-> {"items"}, key |-> [t \in TwoTables |-> "none"],
    columns |-> [t \in TwoTables |-> IF t = "items" THEN Cols(Number(32), Text(20)) ELSE None],
    fks |-> {Fk("fk", "items", "items", {<<"ref", "id">>, <<"id", "ref">>})} ]
\* items has lost the column that referred to orders.
Narrow ==
  [Full EXCEPT !.columns = [@ EXCEPT !["items"] = Cols(Number(32), NoColumn)], !.fks = {}]
TwoSchemas == {Full, Small}
Narrowing == {Full, Narrow}

Symmetry == Permutations(Clients)
=============================================================================
