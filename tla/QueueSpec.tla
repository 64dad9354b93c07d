------------------------------ MODULE QueueSpec ------------------------------
(***************************************************************************)
(* What the memory queue promises (spec 4.1, 8), with no channels, ring   *)
(* or batches: a log of accepted items, a FIFO delivery cursor, an         *)
(* acknowledgement cursor that never passes it, a capacity bound, and an   *)
(* ACK notification per producer that counts exactly its acknowledged      *)
(* items.  Once closed no item is accepted; the queue is down only after   *)
(* everything accepted was acknowledged.                                   *)
(***************************************************************************)
EXTENDS Naturals, Sequences, FiniteSets

CONSTANTS
  Items,          \* what one accepted event is: [producer, producerID]
  Notified,       \* producers whose callback is told of acknowledgements
  Capacity        \* events held at most (settings.Events)

VARIABLES
  log,            \* items accepted, in acceptance order
  delivered,      \* log[1..delivered] have been handed to an output
  ackd,           \* log[1..ackd] have been acknowledged
  notified,       \* per producer: the counts its callback has received
  closed,         \* Close has been called
  down            \* the Done channel is closed

qvars == <<log, delivered, ackd, notified, closed, down>>

\* The number of p's items among the first k of the log.
CountOf(p, k) == Cardinality({i \in 1..k : log[i].producer = p})

QInit ==
  /\ log = <<>>
  /\ delivered = 0 /\ ackd = 0
  /\ notified = [p \in Notified |-> 0]
  /\ closed = FALSE /\ down = FALSE

\* An item is accepted while the queue is open and has room; an output
\* waiting for more items may receive it, with the others, at once.
Accept ==
  /\ ~closed
  /\ Len(log) - ackd < Capacity
  /\ \E it \in Items : log' = Append(log, it)
  /\ \E n \in 0..(Len(log) + 1 - delivered) : delivered' = delivered + n
  /\ UNCHANGED <<ackd, notified, closed, down>>

\* The next n undelivered items go to an output, oldest first.
Deliver ==
  /\ \E n \in 1..(Len(log) - delivered) : delivered' = delivered + n
  /\ UNCHANGED <<log, ackd, notified, closed, down>>

\* A delivered prefix is acknowledged; every producer is told of exactly
\* its items in it.
Acknowledge ==
  /\ \E k \in (ackd + 1)..delivered :
       /\ ackd' = k
       /\ notified' = [p \in Notified |-> CountOf(p, k)]
  /\ UNCHANGED <<log, delivered, closed, down>>

\* Close; items an output was already waiting for are handed to it at once.
Close ==
  /\ ~closed
  /\ closed' = TRUE
  /\ \E n \in 0..(Len(log) - delivered) : delivered' = delivered + n
  /\ UNCHANGED <<log, ackd, notified, down>>

Shutdown ==
  /\ closed /\ ~down
  /\ ackd = Len(log)
  /\ down' = TRUE
  /\ UNCHANGED <<log, delivered, ackd, notified, closed>>

QNext == Accept \/ Deliver \/ Acknowledge \/ Close \/ Shutdown

\* Outputs keep consuming: what was accepted is delivered, and what was
\* delivered is acknowledged.
QSpec == QInit /\ [][QNext]_qvars /\ WF_qvars(Deliver) /\ WF_qvars(Acknowledge)

=============================================================================
