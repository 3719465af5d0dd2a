------------------------------- MODULE RowStream -------------------------------
(***************************************************************************)
(* One stream of rows from a PostgreSQL source: the goroutine StreamRows   *)
(* starts (internal/digestion/connector/postgres.go), its two channels,    *)
(* the pool connection it holds, and the sync that reads the rows          *)
(* (runFullSync in internal/digestion/sync.go) and closes the pool.        *)
(*                                                                         *)
(* A row is its position in the result; rowCh holds the rows received + 1  *)
(* up to sent, since a channel keeps their order.                          *)
(***************************************************************************)
EXTENDS Integers

CONSTANTS
  MaxRows,  \* bound: rows of the table
  BufCap,   \* capacity of rowCh (100 in postgres.go)
  MayFail   \* the source may fail

ASSUME StreamAssumption ==
  /\ MaxRows \in Nat
  /\ BufCap \in Nat \ {0}
  /\ MayFail \in BOOLEAN

VARIABLES
  total,      \* rows in the result of the query
  sent,       \* rows it has put into rowCh
  received,   \* rows the sync has taken out of rowCh
  rowsClosed, \* close(rowCh) was called
  errCh,      \* what errCh holds
  errClosed,  \* close(errCh) was called
  failure,    \* why the goroutine gives up
  conn,       \* the goroutine holds a connection of the pool
  ctxDone,    \* the context of the sync is done
  producer,   \* where the goroutine stands
  consumer    \* where the sync stands

channels == <<sent, received, rowsClosed, errCh, errClosed>>
vars == <<total, channels, failure, conn, ctxDone, producer, consumer>>

ProducerPCs == { "none",       \* not started
                 "query",      \* pool.Query
                 "next",       \* rows.Next
                 "send",       \* select: rowCh <- row or ctx.Done
                 "fail",       \* errCh <- err
                 "closeRows",  \* deferred rows.Close()
                 "closeErr",   \* deferred close(errCh)
                 "closeCh",    \* deferred close(rowCh)
                 "ended" }
ConsumerPCs == { "start",      \* the connector is open
                 "range",      \* for row := range rowCh
                 "upsert",     \* working on a row
                 "readErr",    \* <-errCh
                 "complete",   \* the stream has ended without an error
                 "returning",  \* returning an error, conn.Close() to run
                 "closed" }

Init ==
  /\ total = 0
  /\ sent = 0 /\ received = 0
  /\ rowsClosed = FALSE
  /\ errCh = "empty" /\ errClosed = FALSE
  /\ failure = "none"
  /\ conn = FALSE
  /\ ctxDone = FALSE
  /\ producer = "none"
  /\ consumer = "start"

----------------------------------------------------------------------------
(* The goroutine *)

\* The failures the goroutine may meet now.
Failures == (IF MayFail THEN {"source"} ELSE {}) \cup (IF ctxDone THEN {"ctx"} ELSE {})

QueryOK ==
  /\ producer = "query"
  /\ conn' = TRUE
  /\ producer' = "next"
  /\ UNCHANGED <<total, channels, failure, ctxDone, consumer>>

\* pool.Query gives its connection back; rows.Close is not deferred yet.
QueryFails ==
  /\ producer = "query"
  /\ failure' \in Failures
  /\ producer' = "fail"
  /\ UNCHANGED <<total, channels, conn, ctxDone, consumer>>

NextRead ==
  /\ producer = "next"
  /\ sent < total
  /\ producer' = "send"
  /\ UNCHANGED <<total, channels, failure, conn, ctxDone, consumer>>

\* A row was read; rows.Values cannot decode it.
ValuesFails ==
  /\ producer = "next"
  /\ sent < total
  /\ MayFail
  /\ failure' = "source"
  /\ producer' = "fail"
  /\ UNCHANGED <<total, channels, conn, ctxDone, consumer>>

\* rows.Next returns false after the last row and gives the connection back.
\* Mutant: the nil of rows.Err() is sent too.
NextEndSendsNil ==
  /\ producer = "next"
  /\ sent = total
  /\ conn' = FALSE
  /\ errCh' = "nil"
  /\ producer' = "closeRows"
  /\ UNCHANGED <<total, sent, received, rowsClosed, errClosed, failure, ctxDone, consumer>>
NextEnd ==
  /\ producer = "next"
  /\ sent = total
  /\ conn' = FALSE
  /\ producer' = "closeRows"
  /\ UNCHANGED <<total, channels, failure, ctxDone, consumer>>

\* rows.Next returns false too early.  Mutant: rows.Err() is not looked at.
NextFailsSilently ==
  /\ producer = "next"
  /\ failure' \in Failures
  /\ conn' = FALSE
  /\ producer' = "closeRows"
  /\ UNCHANGED <<total, channels, ctxDone, consumer>>
NextFails ==
  /\ producer = "next"
  /\ failure' \in Failures
  /\ conn' = FALSE
  /\ producer' = "fail"
  /\ UNCHANGED <<total, channels, ctxDone, consumer>>

Send ==
  /\ producer = "send"
  /\ sent - received < BufCap
  /\ sent' = sent + 1
  /\ producer' = "next"
  /\ UNCHANGED <<total, received, rowsClosed, errCh, errClosed, failure, conn,
                 ctxDone, consumer>>

\* The select takes the other case, whether or not rowCh has room.
SendCancelled ==
  /\ producer = "send"
  /\ ctxDone
  /\ failure' = "ctx"
  /\ producer' = "fail"
  /\ UNCHANGED <<total, channels, conn, ctxDone, consumer>>

\* errCh has a buffer of one.  Mutant: it has none.
ErrRendezvous == consumer = "readErr"
ErrRoom == errCh = "empty"

\* Mutant SendErrorGoesOn: there is no return after errCh <- err.
SendErrorGoesOn ==
  /\ producer = "fail"
  /\ ErrRoom
  /\ errCh' = "error"
  /\ producer' = "next"
  /\ UNCHANGED <<total, sent, received, rowsClosed, errClosed, failure, conn,
                 ctxDone, consumer>>

SendError ==
  /\ producer = "fail"
  /\ ErrRoom
  /\ errCh' = "error"
  /\ producer' = IF conn THEN "closeRows" ELSE "closeErr"
  /\ UNCHANGED <<total, sent, received, rowsClosed, errClosed, failure, conn,
                 ctxDone, consumer>>

CloseRows ==
  /\ producer = "closeRows"
  /\ conn' = FALSE
  /\ producer' = "closeErr"
  /\ UNCHANGED <<total, channels, failure, ctxDone, consumer>>

\* Mutant EndAfterErrCh: there is no defer close(rowCh).
EndAfterErrCh ==
  /\ producer = "closeErr"
  /\ errClosed' = TRUE
  /\ producer' = "ended"
  /\ UNCHANGED <<total, sent, received, rowsClosed, errCh, failure, conn, ctxDone,
                 consumer>>

CloseErrCh ==
  /\ producer = "closeErr"
  /\ errClosed' = TRUE
  /\ producer' = "closeCh"
  /\ UNCHANGED <<total, sent, received, rowsClosed, errCh, failure, conn, ctxDone,
                 consumer>>

CloseRowCh ==
  /\ producer = "closeCh"
  /\ rowsClosed' = TRUE
  /\ producer' = "ended"
  /\ UNCHANGED <<total, sent, received, errCh, errClosed, failure, conn, ctxDone,
                 consumer>>

----------------------------------------------------------------------------
(* The sync *)

\* The call of StreamRows: the query will read one snapshot of the table.
StreamRows ==
  /\ consumer = "start"
  /\ total' \in 0..MaxRows
  /\ consumer' = "range"
  /\ producer' = "query"
  /\ UNCHANGED <<channels, failure, conn, ctxDone>>

Receive ==
  /\ consumer = "range"
  /\ received < sent
  /\ received' = received + 1
  /\ consumer' = "upsert"
  /\ UNCHANGED <<total, sent, rowsClosed, errCh, errClosed, failure, conn, ctxDone,
                 producer>>

RowDone ==
  /\ consumer = "upsert"
  /\ consumer' = "range"
  /\ UNCHANGED <<total, channels, failure, conn, ctxDone, producer>>

\* UpsertRow returns an error: runFullSync returns without draining.
RowFails ==
  /\ consumer = "upsert"
  /\ consumer' = "returning"
  /\ UNCHANGED <<total, channels, failure, conn, ctxDone, producer>>

RangeEnds ==
  /\ consumer = "range"
  /\ rowsClosed
  /\ received = sent
  /\ consumer' = "readErr"
  /\ UNCHANGED <<total, channels, failure, conn, ctxDone, producer>>

\* A receive from a closed, empty channel yields nil.
ReadErr ==
  /\ consumer = "readErr"
  /\ errCh = "error" \/ errClosed
  /\ consumer' = IF errCh = "error" THEN "returning" ELSE "complete"
  /\ errCh' = "empty"
  /\ UNCHANGED <<total, sent, received, rowsClosed, errClosed, failure, conn,
                 ctxDone, producer>>

\* The deferred conn.Close(): pgxpool's Close waits for the connection.
CloseConn ==
  /\ consumer \in {"complete", "returning"}
  /\ ~conn
  /\ consumer' = "closed"
  /\ UNCHANGED <<total, channels, failure, conn, ctxDone, producer>>

Cancel ==
  /\ ~ctxDone
  /\ consumer # "closed"
  /\ ctxDone' = TRUE
  /\ UNCHANGED <<total, channels, failure, conn, producer, consumer>>

----------------------------------------------------------------------------
(* Specification *)

Producer ==
  \/ QueryOK
  \/ QueryFails
  \/ NextRead
  \/ NextEnd
  \/ NextFails
  \/ ValuesFails
  \/ Send
  \/ SendCancelled
  \/ SendError
  \/ CloseRows
  \/ CloseErrCh
  \/ CloseRowCh

Consumer ==
  \/ StreamRows
  \/ Receive
  \/ RowDone
  \/ RowFails
  \/ RangeEnds
  \/ ReadErr
  \/ CloseConn

Next == Producer \/ Consumer \/ Cancel

Spec == Init /\ [][Next]_vars

\* Both goroutines run; nobody has to cancel.
FairSpec == Spec /\ WF_vars(Producer) /\ WF_vars(Consumer)

----------------------------------------------------------------------------
(* Properties *)

\* The variables hold what the channels and the pool can hold.
TypeOK ==
  /\ total \in Nat /\ sent \in Nat /\ received \in Nat
  /\ rowsClosed \in BOOLEAN
  /\ errCh \in {"empty", "error"} /\ errClosed \in BOOLEAN
  /\ failure \in {"none", "source", "ctx"}
  /\ conn \in BOOLEAN
  /\ ctxDone \in BOOLEAN
  /\ producer \in ProducerPCs
  /\ consumer \in ConsumerPCs

\* The goroutine and the two channels keep the contract the sync relies on
\* (connector.go, StreamRows): the stream is told to be complete only if every
\* row was received, and a sync that stops reading can close its connector
\* exactly when the rows left fit into rowCh or its context is done.
StreamState ==
  IF consumer \in {"range", "upsert", "readErr"} THEN "open"
  ELSE IF consumer = "returning" THEN "abandoned"
  ELSE IF consumer = "complete" THEN "complete" ELSE "closed"
Left ==
  IF StreamState = "open" \/ (StreamState = "abandoned" /\ failure # "source")
  THEN total - received ELSE 0
Stream == INSTANCE StreamContract WITH
  left <- Left, state <- StreamState, cancelled <- ctxDone
Contract == Stream!Spec

\* The sync has stopped reading with more rows left than rowCh takes, and with a
\* context that is not done (postgres.go, the select; connector.go:72).
Abandoned ==
  /\ consumer = "returning"
  /\ sent - received = BufCap
  /\ sent < total
  /\ ~ctxDone

\* What each side may wait for: the goroutine for room in rowCh or errCh, the sync
\* for a row or the end of rowCh, for errCh, or for the connection.
ProducerWaits ==
  \/ producer \in {"none", "ended"}
  \/ producer = "send" /\ sent - received >= BufCap /\ ~ctxDone
  \/ producer = "fail" /\ ~ErrRoom
ConsumerWaits ==
  \/ consumer = "closed"
  \/ consumer = "range" /\ received = sent /\ ~rowsClosed
  \/ consumer = "readErr" /\ errCh = "empty" /\ ~errClosed
  \/ consumer \in {"complete", "returning"} /\ conn

\* The goroutine and the sync wait for each other in that case alone
\* (postgres.go:229, the two buffers and the deferred closes); else, when both have
\* nothing to do, the goroutine has ended and the connector is closed.
NoOtherDeadlock ==
  ProducerWaits /\ ConsumerWaits =>
    Abandoned \/ (producer = "ended" /\ consumer = "closed" /\ ~conn)

\* What is left to do, as a number: a row costs the goroutine two steps and the
\* sync two.
ProducerWork ==
  [ none |-> 7, query |-> 7, next |-> 6, send |-> 5, fail |-> 4, closeRows |-> 3,
    closeErr |-> 2, closeCh |-> 1, ended |-> 0 ]
ConsumerWork ==
  [ start |-> 5, range |-> 3, upsert |-> 4, readErr |-> 2, complete |-> 1,
    returning |-> 1, closed |-> 0 ]
Work == ProducerWork[producer] + ConsumerWork[consumer] + 2 * (total - sent) + 2 * (total - received)

\* Neither goes round for ever (postgres.go, the loop over rows.Next; sync.go, the
\* loop over rowCh): every step of the goroutine and of the sync brings the end of
\* the stream nearer, and a context that is done does not put it off.
WorkShrinks ==
  [][ IF Producer \/ (Consumer /\ consumer # "start") THEN Work' < Work
      ELSE consumer # "start" => Work' = Work ]_vars

\* The goroutine ends and its connection is back in the pool, unless the sync
\* is abandoned for ever.
ConnectionReturned == <>(producer = "ended" /\ ~conn) \/ <>[]Abandoned
=============================================================================
