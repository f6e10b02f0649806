----------------------------- MODULE WriteQueue -----------------------------
(***************************************************************************)
(* The deque of outgoing messages that Net::Session keeps behind           *)
(* queueMutex_ (writeQueue_): what send() does to it, and what             *)
(* handleWrite() does to it.  The front is the message whose asynchronous  *)
(* write is in progress; it stays in the deque until its completion        *)
(* handler runs.                                                           *)
(*                                                                         *)
(* Only constant operators here: the modules of the sessions apply them    *)
(* to their own queue while holding the mutex.                             *)
(***************************************************************************)
EXTENDS Naturals, Sequences, FiniteSets

(* enum MessageType without its bounds Invalid and Last, which are never   *)
(* sent.                                                                   *)
MessageType == {"Data", "Ping", "Pong"}

(* A message is its type and, for Data, which payload it carries.          *)
Message == [type : MessageType, id : Nat]

Ping == [type |-> "Ping", id |-> 0]
Pong == [type |-> "Pong", id |-> 0]
Data(id) == [type |-> "Data", id |-> id]

IsControl(m) == m.type \in {"Ping", "Pong"}

-----------------------------------------------------------------------------

(* Mutant: a control message overtakes the message being written.          *)
EnqueueAtFront(q, m) ==
  IF q # <<>> /\ IsControl(m) THEN <<m>> \o q ELSE Append(q, m)

(* Mutant: every message jumps the queue, not only Ping and Pong.          *)
EnqueueAlwaysSecond(q, m) ==
  IF q # <<>> THEN <<Head(q), m>> \o Tail(q) ELSE Append(q, m)

(* send(): a Ping or Pong goes right behind the message being written, a   *)
(* Data message goes to the back.                                          *)
Enqueue(q, m) ==
  IF q # <<>> /\ IsControl(m) THEN <<Head(q), m>> \o Tail(q) ELSE Append(q, m)

(* handleWrite(): drop the front, if there is one.                         *)
Dequeue(q) == IF q = <<>> THEN <<>> ELSE Tail(q)

DataPlaces(q) == {i \in DOMAIN q : q[i].type = "Data"}

(* The payloads of the Data messages of a queue, front first: the kth is   *)
(* that of the Data message which is the kth of them.                      *)
Payloads(q) ==
  LET place(k) ==
        CHOOSE i \in DataPlaces(q) : Cardinality(DataPlaces(q) \cap 1 .. i) = k
  IN  [k \in 1 .. Cardinality(DataPlaces(q)) |-> q[place(k)].id]

=============================================================================
