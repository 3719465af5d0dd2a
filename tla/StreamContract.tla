---------------------------- MODULE StreamContract ----------------------------
(***************************************************************************)
(* What one sync may rely on when it reads a source table through a        *)
(* Connector (internal/digestion/connector/connector.go, StreamRows and    *)
(* Close): an abstract view of the stream, of the rows that are left and   *)
(* of how the sync can get rid of its connection.                          *)
(*                                                                         *)
(* RowStream, the goroutine and the channels of postgres.go, implements    *)
(* this specification; TableSync, the sync that reads the stream, behaves  *)
(* as it allows.                                                           *)
(***************************************************************************)
EXTENDS Integers

CONSTANTS
  BufCap,   \* rows the stream holds for a reader that has stopped reading
  MayFail   \* the source may fail

VARIABLES
  left,      \* rows of the table the sync has not received
  state,     \* of the stream, as the sync knows it
  cancelled  \* the context of the sync is done

vars == <<left, state, cancelled>>

States == { "closed",      \* no connection
            "open",        \* the sync reads
            "complete",    \* the sync was told that it has read everything
            "abandoned" }  \* the sync has stopped reading

Init == left = 0 /\ state = "closed" /\ cancelled = FALSE

Open ==
  /\ state = "closed"
  /\ state' = "open"
  /\ left' \in Nat
  /\ UNCHANGED cancelled

Receive ==
  /\ state = "open"
  /\ left > 0
  /\ left' = left - 1
  /\ UNCHANGED <<state, cancelled>>

\* A stream ends without an error only when every row was received.
End ==
  /\ state = "open"
  /\ left = 0
  /\ state' = "complete"
  /\ UNCHANGED <<left, cancelled>>

\* The stream ends with an error: nothing more will come.
Fail ==
  /\ state = "open"
  /\ MayFail \/ cancelled
  /\ state' = "abandoned"
  /\ left' = 0
  /\ UNCHANGED cancelled

\* The sync gives up, with or without a row in its hands; a source that has
\* failed has nothing more to send.
Abandon ==
  /\ state \in {"open", "complete"}
  /\ state' = "abandoned"
  /\ left' \in {left, left - 1} \cap Nat \/ (MayFail /\ left' = 0)
  /\ UNCHANGED cancelled

LateFail ==
  /\ state = "abandoned"
  /\ MayFail
  /\ left' = 0
  /\ UNCHANGED <<state, cancelled>>

\* A sync that has stopped reading gets its connection closed only if the
\* stream has room for the rows left, or its context is done.
Close ==
  /\ state \in {"complete", "abandoned"}
  /\ state = "abandoned" => left <= BufCap \/ cancelled
  /\ state' = "closed"
  /\ left' = 0
  /\ UNCHANGED cancelled

\* A context once done stays done for the sync it belongs to.
Context ==
  /\ cancelled => state = "closed"
  /\ cancelled' = ~cancelled
  /\ UNCHANGED <<left, state>>

Next == Open \/ Receive \/ End \/ Fail \/ Abandon \/ LateFail \/ Close \/ Context

Spec == Init /\ [][Next]_vars
=============================================================================
