--------------------------- MODULE SessionPromise ---------------------------
(***************************************************************************)
(* What Net::Session promises to its owner, without strands, timers, Ping  *)
(* or Pong: it opens at most once and closes at most once, in that order;  *)
(* payloads reach receiveHandler_ in the order they were received and none *)
(* twice; the payloads given to send() leave in that order, none twice and *)
(* none left out, unless the session fails.  It fails for good: when the   *)
(* connection does, when its owner gives it up, or when its peer falls     *)
(* silent.  Then the payload being sent may be lost, and those that wait   *)
(* when the socket closes are, except the one that is being written.       *)
(***************************************************************************)
EXTENDS Naturals, Sequences

CONSTANTS
  Payload,    \* the payloads the peer may send, numbered as received
  Requests,   \* whether openHandler_ sends a first payload, the request
  Answers     \* whether receiveHandler_ answers: TRUE, FALSE or either

VARIABLES
  opened,     \* openHandler_ was called
  failing,    \* the session has failed, or was given up
  closed,     \* the socket was closed
  delivered,  \* the last payload given to receiveHandler_
  outbox,     \* payloads accepted by send(), neither transmitted nor lost
  wire        \* payloads transmitted

vars == <<opened, failing, closed, delivered, outbox, wire>>

Init ==
  /\ opened = FALSE
  /\ failing = FALSE
  /\ closed = FALSE
  /\ delivered = 0
  /\ outbox = <<>>
  /\ wire = <<>>

Open ==
  /\ ~opened
  /\ ~closed
  /\ opened' = TRUE
  /\ outbox' = IF Requests THEN Append(outbox, 1) ELSE outbox
  /\ UNCHANGED <<failing, closed, delivered, wire>>

(* Deliver a payload.  The answer to it carries its number; on a closed    *)
(* socket it is lost.  The owner may be done with the session.             *)
Deliver(n) ==
  /\ opened
  /\ n > delivered
  /\ delivered' = n
  /\ \E answers \in Answers :
       outbox' = IF answers /\ ~closed THEN Append(outbox, n) ELSE outbox
  /\ failing' \in {failing, TRUE}
  /\ UNCHANGED <<opened, closed, wire>>

Transmit ==
  /\ outbox # <<>>
  /\ wire' = Append(wire, Head(outbox))
  /\ outbox' = Tail(outbox)
  /\ UNCHANGED <<opened, failing, closed, delivered>>

Fail ==
  /\ failing' = TRUE
  /\ UNCHANGED <<opened, closed, delivered, outbox, wire>>

Lose ==
  /\ outbox # <<>>
  /\ outbox' = Tail(outbox)
  /\ failing' = TRUE
  /\ UNCHANGED <<opened, closed, delivered, wire>>

(* The first payload of the outbox may be on its way.                      *)
Close ==
  /\ failing
  /\ ~closed
  /\ closed' = TRUE
  /\ \/ outbox' = <<>>
     \/ outbox # <<>> /\ outbox' = <<Head(outbox)>>
  /\ UNCHANGED <<opened, failing, delivered, wire>>

Next ==
  \/ Open
  \/ \E n \in Payload : Deliver(n)
  \/ Transmit
  \/ Fail
  \/ Lose
  \/ Close

Spec == Init /\ [][Next]_vars

=============================================================================
