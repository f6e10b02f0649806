-------------------------- MODULE SessionProperties -------------------------
(***************************************************************************)
(* What must hold of Net::Session, and the refinement of SessionPromise.   *)
(***************************************************************************)
EXTENDS Session, FiniteSets

(* Type invariant.                                                         *)

FlagTypes ==
  /\ isConnected \in BOOLEAN
  /\ socketOpen \in BOOLEAN
  /\ timerArmed \in BOOLEAN
  /\ ownerActed \in BOOLEAN
  /\ asked \in BOOLEAN

DataTypes ==
  /\ stage \in {"new", "opening", "open"}
  /\ writeQueue \in Seq(Message)
  /\ socketStrand \in Seq(SocketTask)
  /\ readStrand \in Seq(1 .. MaxFrames)
  /\ timerStrand \in Seq(TimerTask)
  /\ closing \subseteq Context
  /\ reading \in {"none", "handshake", "header", "body"}
  /\ incoming \in Frame
  /\ writing \in Message \cup {NoMessage}
  /\ doomed \subseteq {"read", "write"}
  /\ fired \in Nat
  /\ idle \in 0 .. MaxTimeOut + 1
  /\ received \in 0 .. MaxFrames
  /\ delivered \in 0 .. MaxFrames
  /\ wire \in Seq(Nat)
  /\ closes \in Nat

(* Every payload waiting for receiveHandler_ or handed to it belongs to a  *)
(* frame that was read, and nothing but messages, handlers of the strand   *)
(* and contexts of close() is ever queued.                                 *)
TypeOK == FlagTypes /\ DataTypes

-----------------------------------------------------------------------------
(* Safety.                                                                 *)

WriteTurns ==
  {i \in DOMAIN socketStrand :
     socketStrand[i].op \in {"asyncWrite", "handleWrite"}}

(* At most one write is under way, from the post of asyncWrite() to the    *)
(* end of handleWrite(), and none while writeQueue_ is empty, however the  *)
(* send() calls of three strands interleave: two async_write on one TLS    *)
(* stream would mix their frames.  Only the handler of close() may cut a   *)
(* write off from the queue, which it clears: then a later send() starts   *)
(* another beside it, on the closed socket; one for each such handler.     *)
OneWriteInFlight ==
  LET inFlight == IF writing = NoMessage THEN 0 ELSE 1
      served == IF writeQueue = <<>> THEN 0 ELSE 1
  IN  Cardinality(WriteTurns) + inFlight <= served + closes

(* As long as the socket is open, the message being written is the front   *)
(* of writeQueue_, so that the pop of handleWrite() removes that message   *)
(* and no other, even if a Ping or Pong was inserted meanwhile.            *)
FrontIsBeingWritten ==
  socketOpen =>
    /\ writing # NoMessage => writeQueue # <<>> /\ Head(writeQueue) = writing
    /\ \A i \in WriteTurns :
         /\ writeQueue # <<>>
         /\ socketStrand[i].op = "asyncWrite" =>
              socketStrand[i].message = Head(writeQueue)

(* No lost wakeup: send() starts a write only if it finds the queue empty, *)
(* so on a live session a queue that is not empty must have its write      *)
(* under way, or its messages and all later ones would wait for ever.  The *)
(* client's cancel is the exception: it aborts the write and does not      *)
(* close the session.                                                      *)
NoLostWakeup ==
  /\ socketOpen
  /\ isConnected
  /\ closing = {}
  /\ writeQueue # <<>>
  /\ Role = "server" \/ ~ownerActed
  => writing # NoMessage \/ WriteTurns # {}

(* The wait of the read timer cannot get lost: it is armed or will be,     *)
(* and no cancelReadTimer() is queued behind that would stop it; or it has *)
(* expired and its handler will ping or close.                             *)
TimerWillFire ==
  LET uncancelled(i) == \A j \in i + 1 .. Len(timerStrand) :
                          timerStrand[j] # "cancel"
  IN  \/ timerArmed /\ uncancelled(0)
      \/ fired > 0
      \/ \E i \in DOMAIN timerStrand :
           \/ timerStrand[i] = "timeout"
           \/ timerStrand[i] \in {"restart", "again"} /\ uncancelled(i)

(* On a live session every read is guarded by the read timer, whatever the *)
(* order in which the expiry, the ping's restartReadTimer() and the        *)
(* cancelReadTimer() of a frame that just arrived reach readTimerStrand_:  *)
(* a silent peer cannot hold the session for ever.                         *)
ReadIsGuarded ==
  /\ socketOpen
  /\ isConnected
  /\ closing = {}
  /\ reading \in {"header", "body"}
  /\ "read" \notin doomed
  => TimerWillFire

(* handleHandshake() sets isConnected_ to TRUE without looking; still a    *)
(* session whose socket is closed, or about to be, never counts as         *)
(* connected again, though several strands may be inside close().          *)
ClosedIsDisconnected ==
  \/ ~socketOpen
  \/ \E i \in DOMAIN socketStrand : socketStrand[i].op = "close"
  => ~isConnected

(* isConnected_ is not atomic, so closeHandler_ may run more than once; it *)
(* runs at most once for each of the three strands that close() can run on *)
(* at the same time, never once per call of close().                       *)
CloseHandlerBound ==
  LET posted == {i \in DOMAIN socketStrand : socketStrand[i].op = "close"}
  IN  closes + Cardinality(posted) + Cardinality(closing) <= 3

(* handleReadTimeOut() gives a peer up only after it asked for an answer:  *)
(* since the handshake or the last read that lastTimeRead_ accounts for, a *)
(* Ping was sent, however late the pool runs the handlers that set it and  *)
(* those of the expiries.  It presupposes that no wait of the timer is     *)
(* longer than MaxTimeOut.                                                 *)
PingBeforeDrop == "timer" \in closing => asked

-----------------------------------------------------------------------------
(* Liveness.                                                               *)

(* A session that was opened and whose peer falls silent gets its socket   *)
(* closed: the read timer never stops watching.                            *)
SilentPeerIsDropped == stage = "open" ~> ~socketOpen

-----------------------------------------------------------------------------
(* Refinement.                                                             *)

(* Payloads accepted and not yet sent or lost: the one being written, and  *)
(* the rest of the queue while the socket is open.  The front of the queue *)
(* is the one being written, or one whose handleWrite() is yet to pop it.  *)
Outbox ==
  LET inFlight == IF writing # NoMessage THEN <<writing>> ELSE <<>>
      written == \/ writing # NoMessage
                 \/ \E i \in DOMAIN socketStrand :
                      socketStrand[i].op = "handleWrite"
      waiting == IF socketOpen
                 THEN IF written THEN Dequeue(writeQueue) ELSE writeQueue
                 ELSE <<>>
  IN  Payloads(inFlight \o waiting)

(* Something has gone wrong with the session, or somebody has given it up: *)
(* it is being closed, or no longer connected, or a write has failed, or   *)
(* the request's timer has expired.                                        *)
Failing ==
  \/ closing # {}
  \/ stage # "new" /\ ~isConnected
  \/ \E i \in DOMAIN socketStrand :
       socketStrand[i].op = "handleWrite" /\ socketStrand[i].error # "ok"
  \/ Role = "client" /\ ownerActed

Promise == INSTANCE SessionPromise WITH
  Payload <- 1 .. MaxFrames,
  Requests <- Role = "client",
  Answers <- {Role = "server"},
  opened <- stage = "open",
  failing <- Failing,
  closed <- ~socketOpen,
  outbox <- Outbox

(* The session implements SessionPromise.                                  *)
KeepsPromise == Promise!Spec

=============================================================================
