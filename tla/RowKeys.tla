------------------------------- MODULE RowKeys -------------------------------
(***************************************************************************)
(* What a sync makes of one source row: normalizeValue (connector/         *)
(* postgres.go), buildRowKey (internal/digestion/sync.go), and computeHash *)
(* and changedColumns (internal/digestion/changes.go).                     *)
(*                                                                         *)
(* SHA-256 is taken to be injective, so a row hash is the JSON text it is  *)
(* the hash of; that text is also what ingested_rows.data is made from.    *)
(***************************************************************************)
EXTENDS Integers, Sequences, FiniteSets

CONSTANTS
  Cols,      \* column names
  Values,    \* what pgx returns for a column
  Null,      \* SQL NULL, Go's nil
  Normal,    \* normalizeValue: [16]byte, []byte and time.Time to text
  Text,      \* fmt.Sprintf("%v", ...)
  Texts,     \* what it gives
  Join(_),   \* strings.Join(parts, "|")
  Keys,      \* what it gives
  Json,      \* json.Marshal of a value
  Jsons,     \* JSON texts
  JsonNull,  \* "null"
  NoJson,    \* json.Marshal fails
  Reread     \* json.Marshal of what json.Unmarshal reads into an any

ASSUME RowKeysAssumption ==
  /\ IsFiniteSet(Cols)
  /\ Null \in Values
  /\ Normal \in [Values -> Values]
  /\ Normal[Null] = Null
  /\ Text \in [Values -> Texts]
  /\ \A n \in 0..Cardinality(Cols) : \A parts \in [1..n -> Texts] : Join(parts) \in Keys
  /\ NoJson \notin Jsons
  /\ Json \in [Values -> Jsons \cup {NoJson}]
  /\ Json[Null] = JsonNull
  /\ Reread \in [Jsons -> Jsons]
  /\ Reread[JsonNull] = JsonNull

\* A row: the columns the table has, with their values.
Row == UNION {[cs -> Values] : cs \in SUBSET Cols}
\* Its data: what is stored of it.
Data == UNION {[cs -> Jsons] : cs \in SUBSET Cols}

\* The row that StreamRows sends: normalizeValue of each value.
\* Mutant FormattedRow: values of every type are made text.
FormattedRow(row) == [c \in DOMAIN row |-> Text[row[c]]]
NormalRow(row) == [c \in DOMAIN row |-> Normal[row[c]]]

\* A map read at a column it does not have gives nil.
At(row, c) == IF c \in DOMAIN row THEN row[c] ELSE Null

\* Lists of columns without a repetition; those of all the columns in cs are the
\* orders in which range over a map may give its keys.
ColumnLists == {order \in UNION {[1..n -> Cols] : n \in 0..Cardinality(Cols)} :
                  \A i, j \in DOMAIN order : order[i] = order[j] => i = j}
Orders(cs) == {order \in ColumnLists : {order[i] : i \in DOMAIN order} = cs}

KeyBy(row, order) == Join([i \in DOMAIN order |-> Text[At(row, order[i])]])
\* buildRowKey: the keys it may return.
RowKey(row, pk) ==
  IF pk # <<>> THEN {KeyBy(row, pk)} ELSE {KeyBy(row, order) : order \in Orders(DOMAIN row)}

\* The JSON of a row.  One value without a JSON leaves the whole row without.
HasJson(row) == \A c \in DOMAIN row : Json[row[c]] # NoJson
Encoded(row) == [c \in DOMAIN row |-> Json[row[c]]]

\* changedColumns, from stored data and the data of the row at hand; a column
\* that one of them lacks reads as null.
Decoded(data, c) == IF c \in DOMAIN data THEN Reread[data[c]] ELSE JsonNull
\* Mutant OldColumnsOnly: only the columns of the old data are compared.
OldColumnsOnly(old, new) == {c \in DOMAIN old : Decoded(old, c) # Decoded(new, c)}
ChangedColumns(old, new) ==
  {c \in DOMAIN old : Decoded(old, c) # Decoded(new, c)} \cup (DOMAIN new \ DOMAIN old)

\* The two differences of data that changedColumns does not see: a number that
\* float64 rounds to the same one, and a null column that is gone.
SameButForRounding(old, new, c) ==
  c \in DOMAIN old \cap DOMAIN new /\ old[c] # new[c] /\ Reread[old[c]] = Reread[new[c]]
NullColumnGone(old, new, c) ==
  c \in DOMAIN old \ DOMAIN new /\ Reread[old[c]] = JsonNull
=============================================================================
