---------------------------- MODULE RowStreamProofs ----------------------------
(***************************************************************************)
(* Proofs about RowStream: it is type correct, and the goroutine with its  *)
(* two channels implements StreamContract, for every channel capacity and  *)
(* every number of rows.                                                   *)
(***************************************************************************)
EXTENDS RowStream, TLAPS

----------------------------------------------------------------------------
(* The inductive invariants *)

\* Why the contract holds: rowCh is closed after errCh, a goroutine that ends
\* without a failure has sent every row, one that ends with a failure has put
\* it into errCh before, and it holds the connection until then.
CountsInv ==
  /\ received <= sent /\ sent <= total /\ sent - received <= BufCap
  /\ producer = "send" => sent < total
  /\ producer \in {"none", "query"} => sent = 0
Ending == producer \in {"closeRows", "closeErr", "closeCh", "ended"}
FailureInv ==
  /\ failure = "source" => MayFail
  /\ failure = "ctx" => ctxDone
  /\ producer \in {"none", "query", "next", "send"} => failure = "none"
  /\ producer = "fail" => failure # "none"
  /\ Ending /\ failure = "none" => sent = total
  /\ Ending /\ failure # "none" /\ consumer \in {"range", "upsert", "readErr"} => errCh = "error"
  /\ errCh = "error" => failure # "none"
ChannelsInv ==
  /\ producer \in {"next", "send"} => conn
  /\ errClosed => producer \in {"closeCh", "ended"}
  /\ rowsClosed => producer = "ended"
  /\ consumer = "start" <=> producer = "none"
  /\ consumer = "upsert" => received > 0
  /\ consumer = "readErr" => rowsClosed /\ received = sent
  /\ consumer = "returning" => received > 0 \/ failure # "none"
StreamInv == CountsInv /\ FailureInv /\ ChannelsInv

USE StreamAssumption DEF StreamAssumption

----------------------------------------------------------------------------
(* Types *)

LEMMA TypeInit == Init => TypeOK
<1> SUFFICES ASSUME Init PROVE TypeOK
  OBVIOUS
<1>1. /\ total \in Nat /\ sent \in Nat /\ received \in Nat
      /\ errCh \in {"empty", "error"}
      /\ failure \in {"none", "source", "ctx"}
      /\ producer \in ProducerPCs
      /\ consumer \in ConsumerPCs
  BY DEF Init, ProducerPCs, ConsumerPCs
<1>2. rowsClosed \in BOOLEAN /\ errClosed \in BOOLEAN /\ conn \in BOOLEAN
      /\ ctxDone \in BOOLEAN
  BY DEF Init
<1>3. QED
  BY <1>1, <1>2 DEF TypeOK

LEMMA TypeStep == TypeOK /\ [Next]_vars => TypeOK'
<1> SUFFICES ASSUME TypeOK, [Next]_vars PROVE TypeOK'
  OBVIOUS
<1> USE DEF TypeOK, ProducerPCs, ConsumerPCs, channels
<1>1. CASE Producer
  <2>1. CASE QueryOK \/ QueryFails \/ NextRead \/ NextEnd \/ NextFails \/ ValuesFails
    BY ZenonT(60), <2>1 DEF QueryOK, QueryFails, NextRead, NextEnd, NextFails, ValuesFails, Failures
  <2>2. CASE Send \/ SendCancelled \/ SendError
    BY <2>2 DEF Send, SendCancelled, SendError
  <2>3. CASE CloseRows \/ CloseErrCh \/ CloseRowCh
    BY <2>3 DEF CloseRows, CloseErrCh, CloseRowCh
  <2>4. QED
    BY <1>1, <2>1, <2>2, <2>3 DEF Producer
<1>2. CASE Consumer
  BY <1>2 DEF Consumer, StreamRows, Receive, RowDone, RowFails, RangeEnds, ReadErr,
     CloseConn
<1>3. CASE Cancel
  BY <1>3 DEF Cancel
<1>4. CASE UNCHANGED vars
  BY <1>4 DEF vars
<1>5. QED
  BY <1>1, <1>2, <1>3, <1>4 DEF Next

\* The channels, the pool and the two goroutines stay within their types.
THEOREM StreamTypeCorrect == Spec => []TypeOK
BY TypeInit, TypeStep, PTL DEF Spec

----------------------------------------------------------------------------
(* The inductive invariant *)

LEMMA InvInit == Init => StreamInv
BY DEF Init, StreamInv, CountsInv, FailureInv, ChannelsInv, Ending

LEMMA InvStep == TypeOK /\ StreamInv /\ [Next]_vars => StreamInv'
<1> SUFFICES ASSUME TypeOK, StreamInv, [Next]_vars PROVE StreamInv'
  OBVIOUS
<1> USE DEF TypeOK, ProducerPCs, ConsumerPCs, channels, StreamInv, CountsInv,
            FailureInv, ChannelsInv, Ending, Failures
<1>1. CASE QueryOK \/ QueryFails
  BY <1>1 DEF QueryOK, QueryFails
<1>2. CASE NextRead \/ NextEnd \/ NextFails \/ ValuesFails
  BY <1>2 DEF NextRead, NextEnd, NextFails, ValuesFails
<1>3. CASE Send \/ SendCancelled
  BY <1>3 DEF Send, SendCancelled
<1>4. CASE SendError
  BY <1>4 DEF SendError, ErrRoom
<1>5. CASE CloseRows \/ CloseErrCh \/ CloseRowCh
  BY <1>5 DEF CloseRows, CloseErrCh, CloseRowCh
<1>6. CASE StreamRows
  BY <1>6 DEF StreamRows
<1>7. CASE Receive \/ RowDone \/ RowFails
  BY <1>7 DEF Receive, RowDone, RowFails
<1>8. CASE RangeEnds
  BY <1>8 DEF RangeEnds
<1>9. CASE ReadErr
  BY <1>9 DEF ReadErr
<1>10. CASE CloseConn
  BY <1>10 DEF CloseConn
<1>11. CASE Cancel
  BY <1>11 DEF Cancel
<1>12. CASE UNCHANGED vars
  BY <1>12 DEF vars
<1>13. QED
  BY <1>1, <1>2, <1>3, <1>4, <1>5, <1>6, <1>7, <1>8, <1>9, <1>10, <1>11, <1>12
     DEF Next, Producer, Consumer

----------------------------------------------------------------------------
(* Refinement *)

LEMMA RefInit == Init => Stream!Init
BY DEF Init, Stream!Init, Left, StreamState

\* What is left of a stream nobody has read.
LEMMA NothingReceived == ASSUME NEW t \in Nat, NEW r, r = 0 PROVE t - r \in Nat
OBVIOUS

LEMMA RefStep == TypeOK /\ StreamInv /\ [Next]_vars => [Stream!Next]_(Stream!vars)
<1> SUFFICES ASSUME TypeOK, StreamInv, [Next]_vars
             PROVE  Stream!Next \/ UNCHANGED Stream!vars
  OBVIOUS
<1>1. CASE StreamRows
  <2>1. received' = 0 /\ total' \in Nat
    BY <1>1 DEF StreamRows, TypeOK, channels, StreamInv, CountsInv, ChannelsInv
  <2>2. StreamState = "closed" /\ StreamState' = "open"
    BY <1>1 DEF StreamRows, StreamState
  <2>3. Left' = total' - received'
    BY ONLY <2>2, Zenon DEF Left
  <2>4. ctxDone' = ctxDone
    BY <1>1 DEF StreamRows
  <2>5. Left' \in Nat
    BY ONLY <2>1, <2>3, NothingReceived, Zenon
  <2>6. Stream!Open
    BY <2>2, <2>4, <2>5 DEF Stream!Open
  <2>7. QED
    BY <2>6 DEF Stream!Next
<1> USE DEF TypeOK, ProducerPCs, ConsumerPCs, channels, Left, StreamState
<1>2. CASE Receive
  <2>1. Stream!Receive
    BY <1>2 DEF Receive, Stream!Receive, StreamInv, CountsInv
  <2>2. QED
    BY <2>1 DEF Stream!Next
\* A row fails: what is left counts, unless the source has failed already.
<1>3. CASE RowFails
  <2>1. Stream!Abandon
    BY <1>3 DEF RowFails, Stream!Abandon, StreamInv, CountsInv, FailureInv
  <2>2. QED
    BY <2>1 DEF Stream!Next
\* errCh is empty and closed only if every row was received.
<1>4. CASE ReadErr /\ errCh = "empty"
  <2>1. total = received
    BY <1>4 DEF ReadErr, StreamInv, CountsInv, FailureInv, ChannelsInv, Ending
  <2>2. Stream!End
    BY <1>4, <2>1 DEF ReadErr, Stream!End
  <2>3. QED
    BY <2>2 DEF Stream!Next
<1>5. CASE ReadErr /\ errCh = "error"
  <2>1. Stream!Abandon
    BY <1>5 DEF ReadErr, Stream!Abandon, StreamInv, CountsInv, FailureInv
  <2>2. QED
    BY <2>1 DEF Stream!Next
\* The connection is free: the goroutine got rid of every row, or it failed.
<1>6. CASE CloseConn
  <2>1. consumer = "returning" => Left <= BufCap \/ ctxDone
    BY <1>6 DEF CloseConn, StreamInv, CountsInv, FailureInv, ChannelsInv, Ending
  <2>2. Stream!Close
    BY <1>6, <2>1 DEF CloseConn, Stream!Close
  <2>3. QED
    BY <2>2 DEF Stream!Next
<1>7. CASE Cancel
  <2>1. Stream!Context
    BY <1>7 DEF Cancel, Stream!Context
  <2>2. QED
    BY <2>1 DEF Stream!Next
\* A failure of the source that the sync will not hear of.
<1>8. CASE QueryFails \/ NextFails \/ ValuesFails \/ SendCancelled
  <2>1. failure = "none" /\ failure' \in Failures
    BY <1>8 DEF QueryFails, NextFails, ValuesFails, SendCancelled, Failures, StreamInv,
       FailureInv
  <2>2. UNCHANGED <<total, received, consumer, ctxDone>>
    BY <1>8 DEF QueryFails, NextFails, ValuesFails, SendCancelled
  <2>3. CASE StreamState = "abandoned" /\ failure' = "source"
    <3>1. Stream!LateFail
      BY <2>1, <2>2, <2>3 DEF Failures, Stream!LateFail
    <3>2. QED
      BY <3>1 DEF Stream!Next
  <2>4. CASE ~(StreamState = "abandoned" /\ failure' = "source")
    BY <2>1, <2>2, <2>4 DEF Stream!vars
  <2>5. QED
    BY <2>3, <2>4
<1>9. CASE QueryOK \/ NextRead \/ NextEnd \/ Send \/ SendError \/ CloseRows
           \/ CloseErrCh \/ CloseRowCh \/ RowDone \/ RangeEnds
  <2>1. UNCHANGED <<total, received, failure, ctxDone>> /\ StreamState' = StreamState
    BY <1>9 DEF QueryOK, NextRead, NextEnd, Send, SendError, CloseRows, CloseErrCh,
       CloseRowCh, RowDone, RangeEnds
  <2>2. QED
    BY <2>1 DEF Stream!vars
<1>10. CASE UNCHANGED vars
  BY <1>10 DEF vars, Stream!vars
<1>11. QED
  BY <1>1, <1>2, <1>3, <1>4, <1>5, <1>6, <1>7, <1>8, <1>9, <1>10
     DEF Next, Producer, Consumer

\* StreamRows and the loop that reads it keep the contract of connector.go:72:
\* no row is lost without an error, and a connector whose rows were not drained
\* can be closed only if the rest fits into rowCh, the source fails or the
\* context is done.
THEOREM StreamImplementsContract == Spec => Contract
<1>1. Spec => []StreamInv
  BY InvInit, InvStep, StreamTypeCorrect, PTL DEF Spec
<1>2. QED
  BY <1>1, RefInit, RefStep, StreamTypeCorrect, PTL DEF Spec, Contract, Stream!Spec

----------------------------------------------------------------------------
(* Who waits for whom *)

\* Why nobody is left waiting: the goroutine finds errCh empty, it has closed both
\* channels when it ends, it holds the connection only while it works on the
\* query, and the sync does not stop before the query has begun.
WaitInv ==
  /\ producer \in {"none", "query", "next", "send", "fail"} => errCh = "empty"
  /\ producer \in {"closeCh", "ended"} => errClosed
  /\ producer = "ended" => rowsClosed
  /\ conn => producer \in {"next", "send", "fail", "closeRows"}
  /\ consumer \in {"complete", "returning", "closed"} => producer \notin {"none", "query"}
  /\ consumer = "complete" => producer = "ended"
  /\ consumer = "closed" => ~conn

LEMMA WaitInit == Init => WaitInv
BY DEF Init, WaitInv

LEMMA WaitStep == TypeOK /\ StreamInv /\ WaitInv /\ [Next]_vars => WaitInv'
<1> SUFFICES ASSUME TypeOK, StreamInv, WaitInv, [Next]_vars PROVE WaitInv'
  OBVIOUS
<1> USE DEF TypeOK, ProducerPCs, ConsumerPCs, channels, WaitInv, StreamInv, CountsInv,
            FailureInv, ChannelsInv, Ending
<1>1. CASE QueryOK \/ QueryFails
  BY <1>1 DEF QueryOK, QueryFails
<1>2. CASE NextRead \/ NextEnd \/ NextFails \/ ValuesFails
  BY <1>2 DEF NextRead, NextEnd, NextFails, ValuesFails
<1>3. CASE Send \/ SendCancelled
  BY <1>3 DEF Send, SendCancelled
<1>4. CASE SendError
  BY <1>4 DEF SendError
<1>5. CASE CloseRows \/ CloseErrCh \/ CloseRowCh
  BY <1>5 DEF CloseRows, CloseErrCh, CloseRowCh
<1>6. CASE StreamRows
  BY <1>6 DEF StreamRows
<1>7. CASE Receive \/ RowDone \/ RowFails
  BY <1>7 DEF Receive, RowDone, RowFails
<1>8. CASE RangeEnds \/ ReadErr
  BY <1>8 DEF RangeEnds, ReadErr
<1>9. CASE CloseConn
  BY <1>9 DEF CloseConn
<1>10. CASE Cancel
  BY <1>10 DEF Cancel
<1>11. CASE UNCHANGED vars
  BY <1>11 DEF vars
<1>12. QED
  BY <1>1, <1>2, <1>3, <1>4, <1>5, <1>6, <1>7, <1>8, <1>9, <1>10, <1>11
     DEF Next, Producer, Consumer

\* Whatever the capacity of rowCh and the number of rows, the goroutine and the
\* sync wait for each other only when the sync has stopped reading too early with
\* a context that is not done; else, when both have nothing to do, the goroutine
\* has ended and the connector is closed.
THEOREM StreamHasNoOtherDeadlock == Spec => []NoOtherDeadlock
<1>1. TypeOK /\ StreamInv /\ WaitInv => NoOtherDeadlock
  <2> SUFFICES ASSUME TypeOK, StreamInv, WaitInv, ProducerWaits, ConsumerWaits
               PROVE  Abandoned \/ (producer = "ended" /\ consumer = "closed" /\ ~conn)
    BY DEF NoOtherDeadlock
  <2> USE DEF TypeOK, StreamInv, CountsInv, ChannelsInv, WaitInv, ConsumerWaits
  <2>1. producer \in {"none", "ended", "send"}
    BY DEF ProducerWaits, ErrRoom
  <2>2. CASE producer = "none"
    BY <2>2
  <2>3. CASE producer = "ended"
    BY <2>3
  <2>4. CASE producer = "send"
    <3>1. conn /\ sent - received = BufCap /\ sent < total /\ ~ctxDone
      BY <2>4 DEF ProducerWaits
    <3>2. consumer = "returning"
      BY <2>4, <3>1
    <3>3. QED
      BY <3>1, <3>2 DEF Abandoned
  <2>5. QED
    BY <2>1, <2>2, <2>3, <2>4
<1>2. QED
  BY <1>1, TypeInit, TypeStep, InvInit, InvStep, WaitInit, WaitStep, PTL DEF Spec

----------------------------------------------------------------------------
(* The stream comes to an end *)

\* One step of the goroutine, and one of the sync once it reads.
LEMMA ProducerWorks == TypeOK /\ StreamInv /\ Producer => Work' < Work
<1> SUFFICES ASSUME TypeOK, StreamInv, Producer PROVE Work' < Work
  OBVIOUS
<1> USE DEF TypeOK, channels, Work, ProducerWork, ConsumerWork, ConsumerPCs
<1>1. ConsumerWork[consumer] \in Nat
  OBVIOUS
<1> HIDE DEF ConsumerWork, ConsumerPCs
<1>2. CASE QueryOK \/ QueryFails \/ NextRead \/ NextEnd \/ NextFails \/ ValuesFails
  BY <1>1, <1>2 DEF QueryOK, QueryFails, NextRead, NextEnd, NextFails, ValuesFails
<1>3. CASE Send \/ SendCancelled
  BY <1>1, <1>3 DEF Send, SendCancelled
<1>4. CASE SendError \/ CloseRows \/ CloseErrCh \/ CloseRowCh
  BY <1>1, <1>4 DEF SendError, CloseRows, CloseErrCh, CloseRowCh
<1>5. QED
  BY <1>2, <1>3, <1>4 DEF Producer

LEMMA ConsumerWorks == TypeOK /\ StreamInv /\ Consumer /\ consumer # "start" => Work' < Work
<1> SUFFICES ASSUME TypeOK, StreamInv, Consumer, consumer # "start" PROVE Work' < Work
  OBVIOUS
<1> USE DEF TypeOK, channels, Work, ProducerWork, ConsumerWork, ProducerPCs
<1>1. ProducerWork[producer] \in Nat
  OBVIOUS
<1> HIDE DEF ProducerWork, ProducerPCs
<1>2. CASE Receive \/ RowDone \/ RowFails
  BY <1>1, <1>2 DEF Receive, RowDone, RowFails
<1>3. CASE RangeEnds \/ ReadErr \/ CloseConn
  BY <1>1, <1>3 DEF RangeEnds, ReadErr, CloseConn
<1>4. QED
  BY <1>2, <1>3 DEF Consumer, StreamRows

\* Whatever the capacity of rowCh and the number of rows, every step of the
\* goroutine and of the sync brings the stream nearer to its end.
THEOREM StreamWorkShrinks == Spec => WorkShrinks
<1>1. TypeOK /\ StreamInv /\ [Next]_vars =>
        [IF Producer \/ (Consumer /\ consumer # "start") THEN Work' < Work
         ELSE consumer # "start" => Work' = Work]_vars
  <2>1. Cancel \/ UNCHANGED vars => Work' = Work
    BY DEF Cancel, vars, channels, Work
  <2>2. QED
    BY <2>1, ProducerWorks, ConsumerWorks DEF Next
<1>2. QED
  BY <1>1, TypeInit, TypeStep, InvInit, InvStep, PTL DEF Spec, WorkShrinks
=============================================================================
