---------------------------- MODULE SessionProofs ---------------------------
(***************************************************************************)
(* Session, for every value of its constants. Lemmas on queues, one on the *)
(* types for each action, and what handlers post come first; then:         *)
(*   - the session is type correct, opens once and once closed stays so;   *)
(*   - one write is outstanding, it is of the front of the queue, and no   *)
(*     message waits with nothing under way;                               *)
(*   - reads are guarded by the timer, the peer is asked before a drop;    *)
(*   - the handler of the close runs at most a fixed number of times;      *)
(*   - the session implements SessionPromise.                              *)
(***************************************************************************)
EXTENDS SessionProperties, StrandLemmas

(* send() leaves a sequence of messages that is not empty, and whose front *)
(* is the old front if there was one, else the new message.                *)
LEMMA EnqueueFacts ==
  ASSUME NEW q \in Seq(Message), NEW m \in Message
  PROVE  /\ Enqueue(q, m) \in Seq(Message)
         /\ Enqueue(q, m) # <<>>
         /\ Head(Enqueue(q, m)) = IF q = <<>> THEN m ELSE Head(q)
<1>1. CASE q # <<>> /\ IsControl(m)
  <2>1. /\ <<Head(q), m>> \in Seq(Message)
        /\ Tail(q) \in Seq(Message)
        /\ Len(Tail(q)) \in Nat
    BY <1>1
  <2>2. /\ <<Head(q), m>> \o Tail(q) \in Seq(Message)
        /\ Len(<<Head(q), m>> \o Tail(q)) = 2 + Len(Tail(q))
        /\ (<<Head(q), m>> \o Tail(q))[1] = Head(q)
    BY <2>1
  <2>. QED  BY <1>1, <2>1, <2>2 DEF Enqueue
<1>2. CASE ~(q # <<>> /\ IsControl(m))
  <2>1. Enqueue(q, m) = Append(q, m)
    BY <1>2 DEF Enqueue
  <2>2. /\ Append(q, m) \in Seq(Message)
        /\ Append(q, m) # <<>>
        /\ q = <<>> => Append(q, m)[1] = m
        /\ q # <<>> => Append(q, m)[1] = q[1]
    OBVIOUS
  <2>. QED  BY <2>1, <2>2
<1>. QED  BY <1>1, <1>2

(* handleWrite() leaves a sequence of messages.                            *)
LEMMA DequeueFacts ==
  ASSUME NEW q \in Seq(Message)
  PROVE  /\ Dequeue(q) \in Seq(Message)
         /\ Dequeue(q) # <<>> => Head(Dequeue(q)) \in Message
  BY DEF Dequeue

(* The tasks that the handlers post are tasks of socketStrand_.            *)
LEMMA TaskTypes ==
  /\ \A op \in {"asyncHandshake", "cancel", "close"} : Task(op) \in SocketTask
  /\ \A op \in {"handleHandshake", "handleReadHeader", "handleReadBody",
                "handleWrite"}, error \in Error :
       Completion(op, error) \in SocketTask
  /\ \A m \in Message : WriteTask(m) \in SocketTask
  /\ Ping \in Message /\ Pong \in Message
  /\ \A n \in Nat : Data(n) \in Message
BY DEF Task, Completion, WriteTask, SocketTask, Error, Ping, Pong, Data,
       Message, MessageType, NoMessage

(* send() and writeNext() leave a strand of such tasks.                    *)
LEMMA PostTypes ==
  ASSUME NEW q \in Seq(Message), NEW m \in Message,
         NEW strand \in Seq(SocketTask)
  PROVE  /\ PostIfIdle(q, m, strand) \in Seq(SocketTask)
         /\ WriteNext(q, strand) \in Seq(SocketTask)
BY TaskTypes DEF PostIfIdle, WriteNext

(* send() and writeNext() post at most asyncWrite().                       *)
LEMMA WaitsPost ==
  ASSUME NEW tasks, NEW q \in Seq(Message), NEW m \in Message,
         NEW strand \in Seq(SocketTask),
         \A msg \in Message : WriteTask(msg) \notin tasks
  PROVE  /\ Waits(tasks, PostIfIdle(q, m, strand)) <=> Waits(tasks, strand)
         /\ Waits(tasks, WriteNext(q, strand)) <=> Waits(tasks, strand)
         /\ AtMostOneWaits(tasks, strand)
            => AtMostOneWaits(tasks, PostIfIdle(q, m, strand))
         /\ AtMostOneWaits(tasks, strand)
            => AtMostOneWaits(tasks, WriteNext(q, strand))
<1>1. q # <<>> => Head(q) \in Message
  OBVIOUS
<1>. QED  BY <1>1, TaskTypes, WaitsAppend DEF PostIfIdle, WriteNext

-----------------------------------------------------------------------------
(* Type correctness.  A payload is named by the number of its frame, so    *)
(* the invariant must also know that a read that succeeds has a frame.     *)

ReadSuccess ==
  {task \in SocketTask :
     task.op \in {"handleReadHeader", "handleReadBody"} /\ task.error = "ok"}

FrameWasRead ==
  reading = "body" \/ Waits(ReadSuccess, socketStrand) => received > 0

TypeInv == TypeOK /\ FrameWasRead

(* What a handler finds when its turn has come.                            *)
LEMMA TurnFacts ==
  ASSUME socketStrand \in Seq(SocketTask), NEW op, SocketTurn(op)
  PROVE  /\ Head(socketStrand) \in SocketTask
         /\ Head(socketStrand).op = op
         /\ Tail(socketStrand) \in Seq(SocketTask)
         /\ \A tasks :
              Waits(tasks, Tail(socketStrand)) => Waits(tasks, socketStrand)
         /\ \A tasks :
              Head(socketStrand) \in tasks => Waits(tasks, socketStrand)
BY TailFacts, WaitsTail DEF SocketTurn

(* send() keeps the types and posts no read handler.                       *)
LEMMA SendFacts ==
  ASSUME writeQueue \in Seq(Message), NEW m \in Message,
         NEW strand \in Seq(SocketTask), Send(m, strand)
  PROVE  /\ writeQueue' \in Seq(Message)
         /\ socketStrand' \in Seq(SocketTask)
         /\ Waits(ReadSuccess, socketStrand') => Waits(ReadSuccess, strand)
<1>1. \A msg \in Message : WriteTask(msg) \notin ReadSuccess
  BY DEF WriteTask, ReadSuccess
<1>. QED  BY <1>1, EnqueueFacts, PostTypes, WaitsPost DEF Send

(* close() keeps the types and posts no read handler.                      *)
LEMMA CallCloseFacts ==
  ASSUME closing \subseteq Context, NEW context \in Context, NEW connected,
         NEW strand \in Seq(SocketTask), NEW timers \in Seq(TimerTask),
         CallClose(context, connected, strand, timers)
  PROVE  /\ closing' \subseteq Context
         /\ timerStrand' \in Seq(TimerTask)
         /\ socketStrand' \in Seq(SocketTask)
         /\ Waits(ReadSuccess, socketStrand') => Waits(ReadSuccess, strand)
<1>1. Task("cancel") \in SocketTask /\ Task("cancel") \notin ReadSuccess
  BY TaskTypes DEF Task, ReadSuccess
<1>2. "cancel" \in TimerTask
  BY DEF TimerTask
<1>3. socketStrand' \in Seq(SocketTask)
      /\ (Waits(ReadSuccess, socketStrand') => Waits(ReadSuccess, strand))
  BY <1>1, WaitsAppend, AppendFacts DEF CallClose
<1>. QED  BY <1>2, <1>3 DEF CallClose

(* handleHandshake() keeps the types.                                      *)
LEMMA HandleHandshakeType ==
  ASSUME TypeInv, HandleHandshake
  PROVE  TypeInv'
<1>. USE DEF HandleHandshake
<1>1. FlagTypes'
  BY Zenon DEF TypeInv, TypeOK, FlagTypes, timerVars
<1>2. /\ socketStrand \in Seq(SocketTask)
      /\ writeQueue \in Seq(Message)
      /\ timerStrand \in Seq(TimerTask)
      /\ closing \subseteq Context
  BY DEF TypeInv, TypeOK, DataTypes
<1>. DEFINE rest == Tail(socketStrand)
<1>3. /\ rest \in Seq(SocketTask)
      /\ Waits(ReadSuccess, rest) => Waits(ReadSuccess, socketStrand)
  BY <1>2, TurnFacts
<1>. HIDE DEF rest
<1>4. /\ socketStrand' \in Seq(SocketTask)
      /\ writeQueue' \in Seq(Message)
      /\ timerStrand' \in Seq(TimerTask)
      /\ closing' \subseteq Context
      /\ reading' \in {reading, "header"}
      /\ stage' \in {stage, "open"}
      /\ Waits(ReadSuccess, socketStrand') => Waits(ReadSuccess, socketStrand)
  <2>1. CASE HandshakeSucceeded
    <3>1. OpenHandler(rest)
      BY <2>1 DEF HandshakeSucceeded, rest
    <3>2. /\ socketStrand' \in Seq(SocketTask)
          /\ writeQueue' \in Seq(Message)
          /\ Waits(ReadSuccess, socketStrand') => Waits(ReadSuccess, rest)
      <4>1. CASE Role = "client"
        <5>1. Data(1) \in Message /\ Send(Data(1), rest)
          BY <3>1, <4>1, TaskTypes DEF OpenHandler
        <5>. QED  BY <1>2, <1>3, <5>1, SendFacts
      <4>2. CASE Role # "client"
        BY <1>2, <1>3, <3>1, <4>2 DEF OpenHandler
      <4>. QED  BY <4>1, <4>2
    <3>. QED  BY <1>2, <1>3, <2>1, <3>2 DEF HandshakeSucceeded, TimerTask
  <2>2. CASE HandshakeAborted
    BY <1>2, <1>3, <2>2 DEF HandshakeAborted, rest
  <2>3. CASE HandshakeFailed
    <3>1. CallClose("socket", TRUE, rest, timerStrand)
      BY <2>3 DEF HandshakeFailed, rest
    <3>2. "socket" \in Context
      BY DEF Context
    <3>3. /\ closing' \subseteq Context
          /\ timerStrand' \in Seq(TimerTask)
          /\ socketStrand' \in Seq(SocketTask)
          /\ Waits(ReadSuccess, socketStrand') => Waits(ReadSuccess, rest)
      BY <1>2, <1>3, <3>1, <3>2, CallCloseFacts
    <3>. QED  BY <1>2, <1>3, <2>3, <3>3 DEF HandshakeFailed
  <2>. QED  BY <2>1, <2>2, <2>3
<1>5. DataTypes'
  BY <1>4 DEF TypeInv, TypeOK, DataTypes, timerVars, historyVars
<1>6. FrameWasRead'
  BY <1>4 DEF TypeInv, FrameWasRead, historyVars
<1>. QED  BY <1>1, <1>5, <1>6 DEF TypeInv, TypeOK

(* What a read handler leaves, however it ends.                            *)
LEMMA ReadHandlerFacts ==
  ASSUME TypeInv, NEW op \in {"handleReadHeader", "handleReadBody"},
         SocketTurn(op),
         \/ ReadAbandoned
         \/ ReadFailed
         \/ Head(socketStrand).error = "ok" /\ (MessageRead \/ BodyFollows)
  PROVE  /\ writeQueue' \in Seq(Message)
         /\ socketStrand' \in Seq(SocketTask)
         /\ readStrand' \in Seq(1 .. MaxFrames)
         /\ timerStrand' \in Seq(TimerTask)
         /\ closing' \subseteq Context
         /\ reading' \in {reading, "header", "body"}
         /\ incoming' \in Frame
         /\ Waits(ReadSuccess, socketStrand')
              => Waits(ReadSuccess, socketStrand)
         /\ reading' = "body" => reading = "body" \/ received > 0
<1>1. /\ socketStrand \in Seq(SocketTask)
      /\ writeQueue \in Seq(Message)
      /\ readStrand \in Seq(1 .. MaxFrames)
      /\ timerStrand \in Seq(TimerTask)
      /\ closing \subseteq Context
      /\ incoming \in Frame
      /\ received \in 0 .. MaxFrames
  BY DEF TypeInv, TypeOK, DataTypes
<1>. DEFINE rest == Tail(socketStrand)
<1>2. /\ Head(socketStrand) \in SocketTask
      /\ Head(socketStrand).op = op
      /\ rest \in Seq(SocketTask)
      /\ Waits(ReadSuccess, rest) => Waits(ReadSuccess, socketStrand)
      /\ Head(socketStrand) \in ReadSuccess => Waits(ReadSuccess, socketStrand)
  BY <1>1, TurnFacts
<1>3. Append(timerStrand, "cancel") \in Seq(TimerTask)
      /\ Append(Append(timerStrand, "cancel"), "restart") \in Seq(TimerTask)
  BY <1>1 DEF TimerTask
<1>4. BlankFrame \in Frame
  BY DEF BlankFrame, Frame
<1>. HIDE DEF rest
<1>5. CASE ReadAbandoned
  BY <1>1, <1>2, <1>3, <1>5 DEF ReadAbandoned, rest
<1>6. CASE ReadFailed
  <2>1. CallClose("socket", isConnected, rest, Append(timerStrand, "cancel"))
    BY <1>6 DEF ReadFailed, rest
  <2>2. "socket" \in Context
    BY DEF Context
  <2>3. /\ closing' \subseteq Context
        /\ timerStrand' \in Seq(TimerTask)
        /\ socketStrand' \in Seq(SocketTask)
        /\ Waits(ReadSuccess, socketStrand') => Waits(ReadSuccess, rest)
    BY <1>1, <1>2, <1>3, <2>1, <2>2, CallCloseFacts
  <2>. QED  BY <1>1, <1>2, <1>6, <2>3 DEF ReadFailed
<1>7. ASSUME Head(socketStrand).error = "ok"
      PROVE  received > 0
  BY <1>2, <1>7 DEF TypeInv, FrameWasRead, ReadSuccess
<1>8. CASE Head(socketStrand).error = "ok" /\ MessageRead
  <2>1. /\ OnMessageReceived(rest)
        /\ StartRead("header")
        /\ UNCHANGED closing
    BY <1>8 DEF MessageRead, rest
  <2>2. /\ writeQueue' \in Seq(Message)
        /\ socketStrand' \in Seq(SocketTask)
        /\ Waits(ReadSuccess, socketStrand') => Waits(ReadSuccess, rest)
    <3>1. CASE incoming.type = "Ping"
      <4>1. Pong \in Message /\ Send(Pong, rest)
        BY <2>1, <3>1, TaskTypes DEF OnMessageReceived
      <4>. QED  BY <1>1, <1>2, <4>1, SendFacts
    <3>2. CASE incoming.type # "Ping"
      BY <1>1, <1>2, <2>1, <3>2 DEF OnMessageReceived
    <3>. QED  BY <3>1, <3>2
  <2>3. readStrand' \in Seq(1 .. MaxFrames)
    <3>1. received \in 1 .. MaxFrames
      BY <1>1, <1>7, <1>8, SessionAssumption
    <3>2. Append(readStrand, received) \in Seq(1 .. MaxFrames)
      BY <1>1, <3>1, AppendFacts
    <3>. QED  BY <1>1, <2>1, <3>2 DEF OnMessageReceived
  <2>. QED  BY <1>1, <1>2, <1>3, <1>4, <2>1, <2>2, <2>3 DEF StartRead
<1>9. CASE Head(socketStrand).error = "ok" /\ BodyFollows
  BY <1>1, <1>2, <1>3, <1>7, <1>9 DEF BodyFollows, StartRead, rest
<1>. QED  BY <1>5, <1>6, <1>8, <1>9

(* handleReadHeader() keeps the types.                                     *)
LEMMA HandleReadHeaderType ==
  ASSUME TypeInv, HandleReadHeader
  PROVE  TypeInv'
<1>1. FlagTypes'
  BY Zenon DEF HandleReadHeader, TypeInv, TypeOK, FlagTypes, timerVars
<1>2. /\ SocketTurn("handleReadHeader")
      /\ \/ ReadAbandoned
         \/ ReadFailed
         \/ Head(socketStrand).error = "ok" /\ (MessageRead \/ BodyFollows)
      /\ UNCHANGED <<stage, isConnected, ownerActed, socketOpen, writing,
                     doomed, timerVars, historyVars>>
  BY DEF HandleReadHeader
<1>3. DataTypes' /\ FrameWasRead'
  BY <1>2, ReadHandlerFacts
  DEF TypeInv, TypeOK, DataTypes, FrameWasRead, timerVars, historyVars
<1>. QED  BY <1>1, <1>3 DEF TypeInv, TypeOK

(* handleReadBody() keeps the types.                                       *)
LEMMA HandleReadBodyType ==
  ASSUME TypeInv, HandleReadBody
  PROVE  TypeInv'
<1>1. FlagTypes'
  BY Zenon DEF HandleReadBody, TypeInv, TypeOK, FlagTypes, timerVars
<1>2. /\ SocketTurn("handleReadBody")
      /\ \/ ReadAbandoned
         \/ ReadFailed
         \/ Head(socketStrand).error = "ok" /\ (MessageRead \/ BodyFollows)
      /\ UNCHANGED <<stage, isConnected, ownerActed, socketOpen, writing,
                     doomed, timerVars, historyVars>>
  BY DEF HandleReadBody
<1>3. DataTypes' /\ FrameWasRead'
  BY <1>2, ReadHandlerFacts
  DEF TypeInv, TypeOK, DataTypes, FrameWasRead, timerVars, historyVars
<1>. QED  BY <1>1, <1>3 DEF TypeInv, TypeOK

(* receiveHandler_ keeps the types.                                        *)
LEMMA ReceiveType ==
  ASSUME TypeInv, Receive
  PROVE  TypeInv'
<1>1. FlagTypes'
  BY Zenon DEF Receive, OnReceived, ReceivedHandle, TypeInv, TypeOK,
      FlagTypes, socketVars, timerVars
<1>2. /\ socketStrand \in Seq(SocketTask)
      /\ writeQueue \in Seq(Message)
      /\ readStrand \in Seq(1 .. MaxFrames)
      /\ timerStrand \in Seq(TimerTask)
      /\ closing \subseteq Context
  BY DEF TypeInv, TypeOK, DataTypes
<1>3. /\ Head(readStrand) \in 1 .. MaxFrames
      /\ Tail(readStrand) \in Seq(1 .. MaxFrames)
  <2>1. readStrand # <<>>
    BY DEF Receive, OnReceived, ReceivedHandle, ReadTurn
  <2>. QED  BY <1>2, <2>1, TailFacts
<1>4. /\ writeQueue' \in Seq(Message)
      /\ socketStrand' \in Seq(SocketTask)
      /\ timerStrand' \in Seq(TimerTask)
      /\ closing' \subseteq Context
      /\ Waits(ReadSuccess, socketStrand') => Waits(ReadSuccess, socketStrand)
  <2>1. CASE /\ Send(Data(Head(readStrand)), socketStrand)
             /\ UNCHANGED <<timerStrand, closing>>
    <3>1. Head(readStrand) \in Nat
      BY <1>3, SessionAssumption
    <3>2. Data(Head(readStrand)) \in Message
      BY <3>1, TaskTypes
    <3>. QED  BY <1>2, <2>1, <3>2, SendFacts
  <2>2. CASE /\ CallClose("read", isConnected, socketStrand, timerStrand)
             /\ UNCHANGED writeQueue
    <3>1. "read" \in Context
      BY DEF Context
    <3>. QED  BY <1>2, <2>2, <3>1, CallCloseFacts
  <2>. QED  BY <2>1, <2>2 DEF Receive, OnReceived, ReceivedHandle
<1>5. DataTypes' /\ FrameWasRead'
  BY <1>3, <1>4, SessionAssumption
  DEF Receive, OnReceived, ReceivedHandle, TypeInv, TypeOK, DataTypes,
      FrameWasRead, socketVars, timerVars
<1>. QED  BY <1>1, <1>5 DEF TypeInv, TypeOK

(* asyncWrite() keeps the types.                                           *)
LEMMA AsyncWriteType ==
  ASSUME TypeInv, AsyncWrite
  PROVE  TypeInv'
<1>1. FlagTypes'
  BY Zenon DEF AsyncWrite, TypeInv, TypeOK, FlagTypes, objectVars, timerVars
<1>2. /\ socketStrand \in Seq(SocketTask)
      /\ SocketTurn("asyncWrite")
  BY DEF TypeInv, TypeOK, DataTypes, AsyncWrite
<1>. DEFINE rest == Tail(socketStrand)
            fail == Completion("handleWrite", "error")
<1>3. /\ Head(socketStrand).message \in Message \cup {NoMessage}
      /\ rest \in Seq(SocketTask)
      /\ Waits(ReadSuccess, rest) => Waits(ReadSuccess, socketStrand)
  <2>1. Head(socketStrand) \in SocketTask
    BY <1>2, TurnFacts
  <2>. QED  BY <1>2, <2>1, TurnFacts DEF SocketTask
<1>4. fail \in SocketTask /\ fail \notin ReadSuccess
  BY TaskTypes DEF Completion, Error, ReadSuccess
<1>. HIDE DEF rest, fail
<1>5. /\ Append(rest, fail) \in Seq(SocketTask)
      /\ Waits(ReadSuccess, Append(rest, fail))
         => Waits(ReadSuccess, socketStrand)
  BY <1>3, <1>4, WaitsAppend, AppendFacts
<1>6. /\ writing' \in Message \cup {NoMessage}
      /\ socketStrand' \in {rest, Append(rest, fail)}
  BY <1>3 DEF AsyncWrite, rest, fail, TypeInv, TypeOK, DataTypes
<1>7. DataTypes' /\ FrameWasRead'
  BY <1>3, <1>5, <1>6 DEF AsyncWrite, TypeInv, TypeOK, DataTypes, FrameWasRead,
     objectVars, timerVars, historyVars
<1>. QED  BY <1>1, <1>7 DEF TypeInv, TypeOK

(* handleWrite() keeps the types.                                          *)
LEMMA HandleWriteType ==
  ASSUME TypeInv, HandleWrite
  PROVE  TypeInv'
<1>1. FlagTypes'
  BY Zenon DEF HandleWrite, TypeInv, TypeOK, FlagTypes, socketVars, timerVars
<1>2. /\ socketStrand \in Seq(SocketTask)
      /\ writeQueue \in Seq(Message)
      /\ timerStrand \in Seq(TimerTask)
      /\ closing \subseteq Context
  BY DEF TypeInv, TypeOK, DataTypes
<1>. DEFINE rest == Tail(socketStrand)
            queue == Dequeue(writeQueue)
<1>3. /\ rest \in Seq(SocketTask)
      /\ Waits(ReadSuccess, rest) => Waits(ReadSuccess, socketStrand)
      /\ queue \in Seq(Message)
  BY <1>2, TurnFacts, DequeueFacts DEF HandleWrite
<1>4. /\ WriteNext(queue, rest) \in Seq(SocketTask)
      /\ Waits(ReadSuccess, WriteNext(queue, rest))
         => Waits(ReadSuccess, socketStrand)
  <2>1. \A msg \in Message : WriteTask(msg) \notin ReadSuccess
    BY DEF WriteTask, ReadSuccess
  <2>2. Ping \in Message
    BY TaskTypes
  <2>. HIDE DEF rest, queue
  <2>. QED  BY <1>3, <2>1, <2>2, PostTypes, WaitsPost
<1>5. /\ socketStrand' \in Seq(SocketTask)
      /\ timerStrand' \in Seq(TimerTask)
      /\ closing' \subseteq Context
      /\ Waits(ReadSuccess, socketStrand') => Waits(ReadSuccess, socketStrand)
  <2>1. CASE CallClose("write", isConnected, rest, timerStrand)
    <3>1. "write" \in Context
      BY DEF Context
    <3>. HIDE DEF rest, queue
    <3>. QED  BY <1>2, <1>3, <2>1, <3>1, CallCloseFacts
  <2>2. CASE /\ socketStrand' \in {rest, WriteNext(queue, rest)}
             /\ UNCHANGED <<timerStrand, closing>>
    <3>. HIDE DEF rest, queue
    <3>. QED  BY <1>2, <1>3, <1>4, <2>2
  <2>. QED  BY <2>1, <2>2 DEF HandleWrite
<1>6. DataTypes' /\ FrameWasRead'
  BY <1>3, <1>5 DEF HandleWrite, TypeInv, TypeOK, DataTypes, FrameWasRead,
     socketVars, timerVars, historyVars
<1>. QED  BY <1>1, <1>6 DEF TypeInv, TypeOK

(* open() keeps the types.                                                 *)
LEMMA OpenType ==
  ASSUME TypeInv, Open
  PROVE  TypeInv'
<1>1. Task("asyncHandshake") \in SocketTask
      /\ Task("asyncHandshake") \notin ReadSuccess
  BY TaskTypes DEF Task, ReadSuccess
<1>2. FlagTypes'
  BY Zenon DEF TypeInv, TypeOK, FlagTypes, Open, socketVars, timerVars
<1>3. DataTypes'
  BY <1>1 DEF TypeInv, TypeOK, DataTypes, Open, socketVars, timerVars,
     historyVars
<1>4. FrameWasRead'
  BY <1>1, WaitsAppend DEF TypeInv, TypeOK, DataTypes, FrameWasRead, Open,
     socketVars, timerVars, historyVars
<1>. QED  BY <1>2, <1>3, <1>4 DEF TypeInv, TypeOK

(* The client's cancel keeps the types.                                    *)
LEMMA OwnerCancelType ==
  ASSUME TypeInv, OwnerCancel
  PROVE  TypeInv'
<1>1. Task("cancel") \in SocketTask /\ Task("cancel") \notin ReadSuccess
  BY TaskTypes DEF Task, ReadSuccess
<1>2. FlagTypes'
  BY Zenon DEF TypeInv, TypeOK, FlagTypes, OwnerCancel, socketVars, timerVars
<1>3. DataTypes'
  BY <1>1 DEF TypeInv, TypeOK, DataTypes, OwnerCancel, socketVars, timerVars,
     historyVars
<1>4. FrameWasRead'
  BY <1>1, WaitsAppend DEF TypeInv, TypeOK, DataTypes, FrameWasRead,
     OwnerCancel, socketVars, timerVars, historyVars
<1>. QED  BY <1>2, <1>3, <1>4 DEF TypeInv, TypeOK

(* The second half of close() keeps the types.                             *)
LEMMA CommitCloseType ==
  ASSUME TypeInv, NEW context \in Context, CommitClose(context)
  PROVE  TypeInv'
<1>1. Task("close") \in SocketTask /\ Task("close") \notin ReadSuccess
  BY TaskTypes DEF Task, ReadSuccess
<1>2. FlagTypes'
  BY Zenon DEF TypeInv, TypeOK, FlagTypes, CommitClose, socketVars, timerVars
<1>3. DataTypes'
  BY <1>1 DEF TypeInv, TypeOK, DataTypes, CommitClose, socketVars, timerVars,
     historyVars
<1>4. FrameWasRead'
  BY <1>1, WaitsAppend DEF TypeInv, TypeOK, DataTypes, FrameWasRead,
     CommitClose, socketVars, timerVars, historyVars
<1>. QED  BY <1>2, <1>3, <1>4 DEF TypeInv, TypeOK

(* Server::stop keeps the types.                                           *)
LEMMA OwnerCloseType ==
  ASSUME TypeInv, OwnerClose
  PROVE  TypeInv'
<1>1. FlagTypes'
  BY Zenon DEF TypeInv, TypeOK, FlagTypes, OwnerClose, socketVars, timerVars
<1>2. "owner" \in Context
  BY DEF Context
<1>3. /\ closing' \subseteq Context
      /\ timerStrand' \in Seq(TimerTask)
      /\ socketStrand' \in Seq(SocketTask)
      /\ Waits(ReadSuccess, socketStrand') => Waits(ReadSuccess, socketStrand)
  BY <1>2, CallCloseFacts DEF TypeInv, TypeOK, DataTypes, OwnerClose
<1>4. DataTypes' /\ FrameWasRead'
  BY <1>3 DEF TypeInv, TypeOK, DataTypes, FrameWasRead, OwnerClose,
     socketVars, timerVars, historyVars
<1>. QED  BY <1>1, <1>4 DEF TypeInv, TypeOK

(* asyncHandshake() keeps the types.                                       *)
LEMMA AsyncHandshakeType ==
  ASSUME TypeInv, AsyncHandshake
  PROVE  TypeInv'
<1>1. FlagTypes'
  BY Zenon DEF TypeInv, TypeOK, FlagTypes, AsyncHandshake, objectVars, timerVars
<1>2. /\ socketStrand' \in Seq(SocketTask)
      /\ Waits(ReadSuccess, socketStrand') => Waits(ReadSuccess, socketStrand)
  BY TurnFacts DEF TypeInv, TypeOK, DataTypes, AsyncHandshake
<1>3. DataTypes' /\ FrameWasRead'
  BY <1>2 DEF TypeInv, TypeOK, DataTypes, FrameWasRead, AsyncHandshake,
     objectVars, timerVars, historyVars
<1>. QED  BY <1>1, <1>3 DEF TypeInv, TypeOK

(* Cancelling or closing the socket aborts only operations there are.      *)
LEMMA AbortFacts ==
  ASSUME TypeInv, AbortSome
  PROVE  doomed' \subseteq {"read", "write"}
BY DEF TypeInv, TypeOK, DataTypes, AbortSome, Pending

(* The handler that cancels the socket keeps the types.                    *)
LEMMA CancelSocketType ==
  ASSUME TypeInv, CancelSocket
  PROVE  TypeInv'
<1>1. FlagTypes'
  BY Zenon DEF TypeInv, TypeOK, FlagTypes, CancelSocket, objectVars, timerVars
<1>2. /\ socketStrand' \in Seq(SocketTask)
      /\ Waits(ReadSuccess, socketStrand') => Waits(ReadSuccess, socketStrand)
  BY TurnFacts DEF TypeInv, TypeOK, DataTypes, CancelSocket
<1>3. doomed' \subseteq {"read", "write"}
  BY AbortFacts DEF CancelSocket
<1>4. DataTypes' /\ FrameWasRead'
  BY <1>2, <1>3 DEF TypeInv, TypeOK, DataTypes, FrameWasRead, CancelSocket,
     objectVars, timerVars, historyVars
<1>. QED  BY <1>1, <1>4 DEF TypeInv, TypeOK

(* The handler that closes the socket keeps the types.                     *)
LEMMA CloseSocketType ==
  ASSUME TypeInv, CloseSocket
  PROVE  TypeInv'
<1>1. FlagTypes'
  BY Zenon DEF TypeInv, TypeOK, FlagTypes, CloseSocket, timerVars
<1>2. /\ socketStrand' \in Seq(SocketTask)
      /\ Waits(ReadSuccess, socketStrand') => Waits(ReadSuccess, socketStrand)
  BY TurnFacts DEF TypeInv, TypeOK, DataTypes, CloseSocket
<1>3. doomed' \subseteq {"read", "write"}
  BY AbortFacts DEF CloseSocket
<1>4. DataTypes' /\ FrameWasRead'
  BY <1>2, <1>3 DEF TypeInv, TypeOK, DataTypes, FrameWasRead, CloseSocket,
     timerVars
<1>. QED  BY <1>1, <1>4 DEF TypeInv, TypeOK

(* The handlers that set the read timer keeps the types.                   *)
LEMMA TimerTaskType ==
  ASSUME TypeInv, StampLastTimeRead \/ RestartReadTimer \/ CancelReadTimer
  PROVE  TypeInv'
<1>. USE DEF StampLastTimeRead, RestartReadTimer, CancelReadTimer,
             SetLastTimeRead, RunTimerTask
<1>1. FlagTypes'
  BY Zenon DEF TypeInv, TypeOK, FlagTypes, objectVars, socketVars
<1>2. timerStrand' \in Seq(TimerTask)
  <2>1. timerStrand \in Seq(TimerTask) /\ timerStrand # <<>>
    BY DEF TypeInv, TypeOK, DataTypes, TimerTurn
  <2>2. timerStrand' = Tail(timerStrand)
    OBVIOUS
  <2>. QED  BY <2>1, <2>2, TailFacts
<1>3. idle' \in 0 .. MaxTimeOut + 1
  <2>1. idle' = 0 \/ idle' = idle
    BY Zenon
  <2>. QED  BY <2>1, SessionAssumption DEF TypeInv, TypeOK, DataTypes
<1>4. DataTypes' /\ FrameWasRead'
  BY <1>2, <1>3 DEF TypeInv, TypeOK, DataTypes, FrameWasRead, objectVars,
     socketVars, historyVars
<1>. QED  BY <1>1, <1>4 DEF TypeInv, TypeOK

(* The expiry of the read timer keeps the types.                           *)
LEMMA TimerExpiresType ==
  ASSUME TypeInv, TimerExpires
  PROVE  TypeInv'
<1>1. FlagTypes'
  BY Zenon DEF TypeInv, TypeOK, FlagTypes, TimerExpires, objectVars, socketVars
<1>2. fired' \in Nat
  BY DEF TypeInv, TypeOK, DataTypes, TimerExpires
<1>3. idle' \in 0 .. MaxTimeOut + 1
  BY SessionAssumption DEF TypeInv, TypeOK, DataTypes, TimerExpires
<1>4. DataTypes' /\ FrameWasRead'
  BY <1>2, <1>3 DEF TypeInv, TypeOK, DataTypes, FrameWasRead, TimerExpires,
     objectVars, strandVars, socketVars, historyVars
<1>. QED  BY <1>1, <1>4 DEF TypeInv, TypeOK

(* handleReadTimeOut() keeps the types.                                    *)
LEMMA HandleReadTimeOutType ==
  ASSUME TypeInv, HandleReadTimeOut
  PROVE  TypeInv'
<1>1. FlagTypes'
  BY Zenon DEF TypeInv, TypeOK, FlagTypes, HandleReadTimeOut, objectVars,
     socketVars
<1>2. fired' \in Nat /\ timerStrand' \in Seq(TimerTask)
  BY DEF TypeInv, TypeOK, DataTypes, HandleReadTimeOut, TimerTask
<1>3. DataTypes' /\ FrameWasRead'
  BY <1>2 DEF TypeInv, TypeOK, DataTypes, FrameWasRead, HandleReadTimeOut,
     objectVars, socketVars, historyVars
<1>. QED  BY <1>1, <1>3 DEF TypeInv, TypeOK

(* The handler posted by handleReadTimeOut() keeps the types.              *)
LEMMA CheckReadTimeOutType ==
  ASSUME TypeInv, CheckReadTimeOut
  PROVE  TypeInv'
<1>1. FlagTypes'
  BY Zenon DEF TypeInv, TypeOK, FlagTypes, CheckReadTimeOut, socketVars
<1>2. /\ socketStrand \in Seq(SocketTask)
      /\ writeQueue \in Seq(Message)
      /\ Tail(timerStrand) \in Seq(TimerTask)
      /\ closing \subseteq Context
  BY DEF TypeInv, TypeOK, DataTypes, CheckReadTimeOut, TimerTurn
<1>3. /\ writeQueue' \in Seq(Message)
      /\ socketStrand' \in Seq(SocketTask)
      /\ timerStrand' \in Seq(TimerTask)
      /\ closing' \subseteq Context
      /\ Waits(ReadSuccess, socketStrand') => Waits(ReadSuccess, socketStrand)
  <2>1. CASE /\ CallClose("timer", isConnected, socketStrand, Tail(timerStrand))
             /\ UNCHANGED writeQueue
    <3>1. "timer" \in Context
      BY DEF Context
    <3>. QED  BY <1>2, <2>1, <3>1, CallCloseFacts
  <2>2. CASE /\ Send(Ping, socketStrand)
             /\ timerStrand' = Append(Tail(timerStrand), "again")
             /\ UNCHANGED closing
    <3>1. Ping \in Message
      BY TaskTypes
    <3>2. timerStrand' \in Seq(TimerTask)
      BY <1>2, <2>2 DEF TimerTask
    <3>. QED  BY <1>2, <2>2, <3>1, <3>2, SendFacts
  <2>. QED  BY <2>1, <2>2 DEF CheckReadTimeOut
<1>4. DataTypes' /\ FrameWasRead'
  BY <1>3 DEF TypeInv, TypeOK, DataTypes, FrameWasRead, CheckReadTimeOut,
     socketVars, historyVars
<1>. QED  BY <1>1, <1>4 DEF TypeInv, TypeOK

(* The end of a handshake or read keeps the types.                         *)
LEMMA CompleteReadType ==
  ASSUME TypeInv, NEW error \in Error, CompleteRead(error)
  PROVE  TypeInv'
<1>1. FlagTypes'
  BY Zenon DEF TypeInv, TypeOK, FlagTypes, CompleteRead, objectVars, timerVars
<1>. DEFINE end == Completion(CompletionHandler[reading], error)
<1>2. /\ reading \in {"handshake", "header", "body"}
      /\ socketStrand \in Seq(SocketTask)
      /\ received \in 0 .. MaxFrames
  BY DEF TypeInv, TypeOK, DataTypes, CompleteRead
<1>3. end \in SocketTask
  BY <1>2, TaskTypes DEF CompletionHandler
<1>4. received' \in 0 .. MaxFrames /\ received' >= received
      /\ incoming' \in Frame
  BY <1>2, SessionAssumption DEF TypeInv, TypeOK, DataTypes, CompleteRead
<1>5. end \in ReadSuccess => received' > 0
  <2>1. end \in ReadSuccess => error = "ok" /\ reading # "handshake"
    BY <1>2 DEF CompletionHandler, Completion, ReadSuccess
  <2>2. reading = "header" /\ error = "ok" => received' > 0
    BY <1>2, SessionAssumption DEF CompleteRead
  <2>3. reading = "body" => received' > 0
    BY <1>2, <1>4, SessionAssumption DEF TypeInv, FrameWasRead
  <2>. QED  BY <1>2, <2>1, <2>2, <2>3
<1>. HIDE DEF end
<1>6. socketStrand' = Append(socketStrand, end)
  BY DEF CompleteRead, end
<1>7. DataTypes'
  BY <1>2, <1>3, <1>4, <1>6 DEF TypeInv, TypeOK, DataTypes, CompleteRead,
     objectVars, timerVars
<1>8. FrameWasRead'
  <2>1. Waits(ReadSuccess, socketStrand')
        <=> Waits(ReadSuccess, socketStrand) \/ end \in ReadSuccess
    BY <1>2, <1>3, <1>6, WaitsAppend
  <2>2. reading' = "none"
    BY DEF CompleteRead
  <2>. QED  BY <1>2, <1>4, <1>5, <2>1, <2>2, SessionAssumption
       DEF TypeInv, FrameWasRead
<1>. QED  BY <1>1, <1>7, <1>8 DEF TypeInv, TypeOK

(* The end of a write keeps the types.                                     *)
LEMMA CompleteWriteType ==
  ASSUME TypeInv, NEW error \in Error, CompleteWrite(error)
  PROVE  TypeInv'
<1>1. FlagTypes'
  BY Zenon DEF TypeInv, TypeOK, FlagTypes, CompleteWrite, objectVars, timerVars
<1>. DEFINE end == Completion("handleWrite", error)
<1>2. end \in SocketTask /\ end \notin ReadSuccess
  BY TaskTypes DEF Completion, ReadSuccess
<1>. HIDE DEF end
<1>3. /\ socketStrand \in Seq(SocketTask)
      /\ socketStrand' = Append(socketStrand, end)
  BY DEF TypeInv, TypeOK, DataTypes, CompleteWrite, end
<1>4. wire' \in Seq(Nat)
  <2>1. writing \in Message /\ wire \in Seq(Nat)
    BY DEF TypeInv, TypeOK, DataTypes, CompleteWrite
  <2>2. writing.id \in Nat
    BY <2>1 DEF Message
  <2>. QED  BY <2>1, <2>2 DEF CompleteWrite
<1>5. DataTypes' /\ FrameWasRead'
  BY <1>2, <1>3, <1>4, WaitsAppend, AppendFacts DEF TypeInv, TypeOK, DataTypes,
     FrameWasRead, CompleteWrite, objectVars, timerVars
<1>. QED  BY <1>1, <1>5 DEF TypeInv, TypeOK

(* Every step keeps the types.                                             *)
LEMMA TypeInvInductive == TypeInv /\ [Next]_vars => TypeInv'
<1>. SUFFICES ASSUME TypeInv, [Next]_vars  PROVE TypeInv'
  OBVIOUS
<1>1. CASE OwnerStep
  BY <1>1, OpenType, OwnerCloseType, OwnerCancelType DEF OwnerStep
<1>2. CASE SocketStep
  BY <1>2, AsyncHandshakeType, HandleHandshakeType, HandleReadHeaderType,
     HandleReadBodyType, AsyncWriteType, HandleWriteType, CancelSocketType,
     CloseSocketType DEF SocketStep
<1>3. CASE Receive
  BY <1>3, ReceiveType
<1>4. CASE TimerStep
  BY <1>4, TimerTaskType, CheckReadTimeOutType DEF TimerStep
<1>5. CASE \E context \in Context : CommitClose(context)
  BY <1>5, CommitCloseType
<1>6. CASE TimerExpires
  BY <1>6, TimerExpiresType
<1>7. CASE HandleReadTimeOut
  BY <1>7, HandleReadTimeOutType
<1>8. CASE NetworkStep
  BY <1>8, CompleteReadType, CompleteWriteType DEF NetworkStep
<1>9. CASE UNCHANGED vars
  <2>1. FlagTypes'
    BY <1>9, Zenon DEF TypeInv, TypeOK, FlagTypes, vars, objectVars,
       socketVars, timerVars
  <2>2. DataTypes' /\ FrameWasRead'
    BY <1>9 DEF TypeInv, TypeOK, DataTypes, FrameWasRead, vars, objectVars,
       strandVars, socketVars, timerVars, historyVars
  <2>. QED  BY <2>1, <2>2 DEF TypeInv, TypeOK
<1>. QED  BY <1>1, <1>2, <1>3, <1>4, <1>5, <1>6, <1>7, <1>8, <1>9 DEF Next

(* The types, and FrameWasRead, in every reachable state.                  *)
LEMMA TypeInvariant == Spec => []TypeInv
<1>1. Init => TypeInv
  <2>. SUFFICES ASSUME Init PROVE TypeInv
    OBVIOUS
  <2>1. FlagTypes
    BY Zenon DEF Init, FlagTypes
  <2>2. DataTypes
    BY SessionAssumption DEF Init, DataTypes, BlankFrame, Frame
  <2>3. FrameWasRead
    BY DEF Init, FrameWasRead, Waits
  <2>. QED  BY <2>1, <2>2, <2>3 DEF TypeInv, TypeOK
<1>. QED  BY <1>1, TypeInvInductive, PTL DEF Spec

(* Whatever the peer sends and in whatever order the strands run, every    *)
(* variable has its type; each payload handed to receiveHandler_, or       *)
(* waiting for it, is that of a frame that was read.                       *)
THEOREM TypeCorrect == Spec => []TypeOK
<1>1. TypeInv => TypeOK
  BY DEF TypeInv
<1>. QED  BY <1>1, TypeInvariant, PTL

-----------------------------------------------------------------------------
(* What handlers post besides the steps of opening, reading and closing.   *)
Ordinary ==
  {task \in SocketTask : task.op \in {"cancel", "asyncWrite", "handleWrite"}}

(* asyncWrite() is an ordinary handler.                                    *)
LEMMA WriteTaskOrdinary ==
  ASSUME NEW tasks, tasks \cap Ordinary = {}, NEW msg \in Message
  PROVE  WriteTask(msg) \notin tasks
<1>1. WriteTask(msg) \in SocketTask
  BY TaskTypes
<1>2. WriteTask(msg) \in Ordinary
  BY <1>1 DEF WriteTask, Ordinary
<1>. QED  BY <1>2

(* send() and writeNext() post at most asyncWrite().                       *)
LEMMA WritePosts ==
  ASSUME NEW q \in Seq(Message), NEW m \in Message,
         NEW strand \in Seq(SocketTask), NEW tasks, tasks \cap Ordinary = {}
  PROVE  /\ NoMore(tasks, PostIfIdle(q, m, strand), strand)
         /\ NoMore(tasks, WriteNext(q, strand), strand)
<1>1. ASSUME NEW msg \in Message
      PROVE  NoMore(tasks, Append(strand, WriteTask(msg)), strand)
  <2>1. WriteTask(msg) \in SocketTask \ tasks
    BY WriteTaskOrdinary, TaskTypes
  <2>. QED  BY <2>1, NoMoreFacts
<1>2. NoMore(tasks, strand, strand)
  BY NoMoreFacts
<1>3. q # <<>> => Head(q) \in Message
  OBVIOUS
<1>. QED  BY <1>1, <1>2, <1>3 DEF PostIfIdle, WriteNext

(* What a step posts in the place of "strand", besides handlers of kinds   *)
(* that are not counted.                                                   *)
PostsNoMore(tasks, strand) ==
  /\ socketStrand' \in Seq(SocketTask)
  /\ NoMore(tasks, socketStrand', strand)
  /\ Waits(tasks, socketStrand') => Waits(tasks, strand)

(* It is enough to count.                                                  *)
LEMMA Counted ==
  ASSUME NEW tasks, NEW strand \in Seq(SocketTask),
         socketStrand' \in Seq(SocketTask), NoMore(tasks, socketStrand', strand)
  PROVE  PostsNoMore(tasks, strand)
BY NoMoreFacts DEF PostsNoMore

(* One step after the other.                                               *)
LEMMA CountedOn ==
  ASSUME NEW tasks, NEW old \in Seq(SocketTask),
         NEW strand \in Seq(SocketTask), NoMore(tasks, strand, old),
         PostsNoMore(tasks, strand)
  PROVE  PostsNoMore(tasks, old)
BY NoMoreFacts DEF PostsNoMore

(* send() posts at most asyncWrite().                                      *)
LEMMA SendPosts ==
  ASSUME writeQueue \in Seq(Message), NEW m \in Message,
         NEW strand \in Seq(SocketTask), Send(m, strand),
         NEW tasks, tasks \cap Ordinary = {}
  PROVE  PostsNoMore(tasks, strand)
<1>1. socketStrand' \in Seq(SocketTask)
  BY SendFacts
<1>2. NoMore(tasks, socketStrand', strand)
  BY WritePosts DEF Send
<1>. QED  BY <1>1, <1>2, Counted

(* close() posts the cancel handler.                                       *)
LEMMA CallClosePosts ==
  ASSUME NEW context, NEW connected, NEW strand \in Seq(SocketTask),
         NEW timers, CallClose(context, connected, strand, timers),
         NEW tasks, tasks \cap Ordinary = {}
  PROVE  PostsNoMore(tasks, strand)
<1>1. Task("cancel") \in SocketTask /\ Task("cancel") \notin tasks
  BY TaskTypes DEF Task, Ordinary
<1>2. socketStrand' \in Seq(SocketTask)
      /\ NoMore(tasks, socketStrand', strand)
  BY <1>1, NoMoreFacts, AppendFacts DEF CallClose
<1>. QED  BY <1>2, Counted

(* The end of the handshake or of a read posts its handler, nothing else.  *)
LEMMA CompleteReadPosts ==
  ASSUME TypeInv, NEW error \in Error, CompleteRead(error),
         NEW tasks,
         \A task \in tasks :
           task.op \notin {"handleHandshake", "handleReadHeader",
                           "handleReadBody"}
  PROVE  PostsNoMore(tasks, socketStrand)
<1>. DEFINE end == Completion(CompletionHandler[reading], error)
<1>1. /\ socketStrand \in Seq(SocketTask)
      /\ reading \in {"handshake", "header", "body"}
  BY DEF TypeInv, TypeOK, DataTypes, CompleteRead
<1>2. end \in SocketTask /\ end \notin tasks
  BY <1>1, TaskTypes DEF CompletionHandler, Completion
<1>3. socketStrand' = Append(socketStrand, end)
  BY DEF CompleteRead
<1>. HIDE DEF end
<1>4. socketStrand' \in Seq(SocketTask)
      /\ NoMore(tasks, socketStrand', socketStrand)
  BY <1>1, <1>2, <1>3, NoMoreFacts, AppendFacts
<1>. QED  BY <1>1, <1>4, Counted

(* The steps that post more than that.                                     *)
StageStep ==
  \/ Open
  \/ \E context \in Context : CommitClose(context)
  \/ \E error \in Error : CompleteRead(error)

(* Every other step posts only ordinary handlers.                          *)
LEMMA OrdinaryStep ==
  ASSUME TypeInv, Next, ~StageStep, NEW tasks, tasks \cap Ordinary = {}
  PROVE  PostsNoMore(tasks, socketStrand)
<1>1. /\ socketStrand \in Seq(SocketTask)
      /\ writeQueue \in Seq(Message)
      /\ readStrand \in Seq(1 .. MaxFrames)
  BY DEF TypeInv, TypeOK, DataTypes
<1>. DEFINE rest == Tail(socketStrand)
<1>2. ASSUME NEW op, SocketTurn(op)
      PROVE  /\ rest \in Seq(SocketTask)
             /\ NoMore(tasks, rest, socketStrand)
             /\ PostsNoMore(tasks, rest) => PostsNoMore(tasks, socketStrand)
             /\ socketStrand' = rest => PostsNoMore(tasks, socketStrand)
  <2>1. rest \in Seq(SocketTask) /\ NoMore(tasks, rest, socketStrand)
    BY <1>1, <1>2, TurnFacts, NoMoreFacts DEF SocketTurn
  <2>. QED  BY <1>1, <2>1, Counted, CountedOn
<1>. HIDE DEF rest
<1>3. ASSUME NEW strand \in Seq(SocketTask), NEW m \in Message, Send(m, strand)
      PROVE  PostsNoMore(tasks, strand)
  BY <1>1, <1>3, SendPosts
<1>4. ASSUME NEW strand \in Seq(SocketTask), NEW context, NEW connected,
             NEW timers, CallClose(context, connected, strand, timers)
      PROVE  PostsNoMore(tasks, strand)
  BY <1>4, CallClosePosts
<1>5. \A error \in Error :
        /\ Completion("handleWrite", error) \in SocketTask
        /\ Completion("handleWrite", error) \notin tasks
  BY TaskTypes DEF Completion, Ordinary
<1>p. ASSUME NEW strand \in Seq(SocketTask), NEW task \in SocketTask \ tasks,
             socketStrand' = Append(strand, task)
      PROVE  PostsNoMore(tasks, strand)
  <2>1. Append(strand, task) \in Seq(SocketTask)
        /\ NoMore(tasks, Append(strand, task), strand)
    BY AppendFacts, NoMoreFacts
  <2>. QED  BY <1>p, <2>1, Counted
<1>6. CASE OwnerClose
  BY <1>1, <1>4, <1>6 DEF OwnerClose
<1>7. CASE OwnerCancel
  <2>1. Task("cancel") \in SocketTask /\ Task("cancel") \notin tasks
    BY TaskTypes DEF Task, Ordinary
  <2>. QED  BY <1>1, <1>7, <2>1, <1>p DEF OwnerCancel
<1>8. CASE AsyncHandshake \/ CancelSocket \/ CloseSocket
  BY <1>2, <1>8 DEF AsyncHandshake, CancelSocket, CloseSocket, rest
<1>9. CASE HandleHandshake
  <2>1. CASE HandshakeSucceeded
    <3>1. OpenHandler(rest)
      BY <2>1 DEF HandshakeSucceeded, rest
    <3>. QED  BY <1>2, <1>3, <1>9, <3>1, TaskTypes
         DEF HandleHandshake, OpenHandler
  <2>2. CASE HandshakeAborted
    BY <1>2, <1>9, <2>2 DEF HandleHandshake, HandshakeAborted, rest
  <2>3. CASE HandshakeFailed
    BY <1>2, <1>4, <1>9, <2>3 DEF HandleHandshake, HandshakeFailed, rest
  <2>. QED  BY <1>9, <2>1, <2>2, <2>3 DEF HandleHandshake
<1>10. CASE HandleReadHeader \/ HandleReadBody
  <2>1. PICK op : SocketTurn(op)
    BY <1>10 DEF HandleReadHeader, HandleReadBody
  <2>2. ReadAbandoned \/ ReadFailed \/ MessageRead \/ BodyFollows
    BY <1>10 DEF HandleReadHeader, HandleReadBody
  <2>3. CASE ReadAbandoned \/ BodyFollows
    BY <1>2, <2>1, <2>3 DEF ReadAbandoned, BodyFollows, rest
  <2>4. CASE ReadFailed
    BY <1>2, <1>4, <2>1, <2>4 DEF ReadFailed, rest
  <2>5. CASE MessageRead
    <3>1. OnMessageReceived(rest)
      BY <2>5 DEF MessageRead, rest
    <3>. QED  BY <1>2, <1>3, <2>1, <3>1, TaskTypes DEF OnMessageReceived
  <2>. QED  BY <2>2, <2>3, <2>4, <2>5
<1>11. CASE Receive
  <2>1. Data(Head(readStrand)) \in Message
    BY <1>1, <1>11, TailFacts, TaskTypes, SessionAssumption
    DEF Receive, OnReceived, ReceivedHandle, ReadTurn
  <2>. QED  BY <1>1, <1>3, <1>4, <1>11, <2>1 DEF Receive, OnReceived,
                                                 ReceivedHandle
<1>12. CASE AsyncWrite
  <2>. DEFINE fail == Completion("handleWrite", "error")
  <2>1. fail \in SocketTask /\ fail \notin tasks
    BY <1>5 DEF Error
  <2>2. /\ SocketTurn("asyncWrite")
        /\ socketStrand' \in {rest, Append(rest, fail)}
    BY <1>12 DEF AsyncWrite, rest
  <2>. HIDE DEF fail
  <2>. QED  BY <1>2, <1>p, <2>1, <2>2
<1>13. CASE HandleWrite
  <2>1. /\ SocketTurn("handleWrite")
        /\ \/ socketStrand' \in {rest, WriteNext(Dequeue(writeQueue), rest)}
           \/ CallClose("write", isConnected, rest, timerStrand)
    BY <1>13 DEF HandleWrite, rest
  <2>2. /\ \A msg \in Message : WriteTask(msg) \notin tasks
        /\ Dequeue(writeQueue) \in Seq(Message)
        /\ Ping \in Message
    BY <1>1, TaskTypes, DequeueFacts, WriteTaskOrdinary
  <2>3. /\ WriteNext(Dequeue(writeQueue), rest) \in Seq(SocketTask)
        /\ NoMore(tasks, WriteNext(Dequeue(writeQueue), rest), rest)
    BY <1>2, <2>1, <2>2, WritePosts, PostTypes
  <2>4. socketStrand' = WriteNext(Dequeue(writeQueue), rest)
        => PostsNoMore(tasks, rest)
    BY <1>2, <2>1, <2>3, Counted
  <2>. QED  BY <1>2, <1>4, <2>1, <2>4
<1>14. CASE CheckReadTimeOut
  BY <1>1, <1>3, <1>4, <1>14, TaskTypes DEF CheckReadTimeOut
<1>15. CASE \/ StampLastTimeRead \/ RestartReadTimer \/ CancelReadTimer
            \/ TimerExpires \/ HandleReadTimeOut
  <2>1. socketStrand' = socketStrand
    BY <1>15 DEF StampLastTimeRead, RestartReadTimer, CancelReadTimer,
       RunTimerTask, TimerExpires, HandleReadTimeOut, strandVars
  <2>2. NoMore(tasks, socketStrand, socketStrand)
    BY <1>1, NoMoreFacts
  <2>. QED  BY <1>1, <2>1, <2>2, Counted
<1>16. CASE \E error \in Error : CompleteWrite(error)
  BY <1>1, <1>5, <1>16, <1>p DEF CompleteWrite
<1>. QED
  BY <1>6, <1>7, <1>8, <1>9, <1>10, <1>11, <1>12, <1>13, <1>14, <1>15, <1>16
  DEF Next, OwnerStep, SocketStep, TimerStep, NetworkStep, StageStep

-----------------------------------------------------------------------------
(* Until handleHandshake() has run, nothing else can have happened to the  *)
(* session: no other handler waits, nobody can be inside close().          *)

HandshakeTasks ==
  {task \in SocketTask : task.op \in {"asyncHandshake", "handleHandshake"}}

BusyTasks ==
  {task \in SocketTask :
     task.op \notin {"asyncHandshake", "handleHandshake", "cancel"}}

CloseTasks == {task \in SocketTask : task.op = "close"}

Opening ==
  \/ stage = "new"
  \/ reading = "handshake"
  \/ Waits(HandshakeTasks, socketStrand)

Quiet ==
  /\ socketOpen = TRUE
  /\ timerArmed = FALSE
  /\ closing = {}
  /\ stage # "open"
  /\ writeQueue = <<>>
  /\ writing = NoMessage
  /\ readStrand = <<>>
  /\ timerStrand = <<>>
  /\ fired = 0
  /\ reading \in {"none", "handshake"}
  /\ ~Waits(BusyTasks, socketStrand)

OneHandshake ==
  /\ AtMostOneWaits(HandshakeTasks, socketStrand)
  /\ reading = "handshake" => ~Waits(HandshakeTasks, socketStrand)
  /\ stage = "new" =>
       reading # "handshake" /\ ~Waits(HandshakeTasks, socketStrand)

OpeningInv == (Opening => Quiet) /\ OneHandshake

(* The only steps of a session that is opening.                            *)
OpeningStep ==
  \/ Open \/ AsyncHandshake \/ HandleHandshake \/ CancelSocket \/ OwnerCancel
  \/ \E error \in Error : CompleteRead(error)

(* While the session opens, no other handler can run.                     *)
LEMMA OnlyOpeningSteps ==
  ASSUME TypeInv, Quiet, Next
  PROVE  OpeningStep
<1>1. ASSUME NEW op, SocketTurn(op)
      PROVE  op \in {"asyncHandshake", "handleHandshake", "cancel"}
  <2>1. /\ Head(socketStrand) \in SocketTask
        /\ Head(socketStrand).op = op
        /\ Head(socketStrand) \notin BusyTasks
    BY <1>1, TurnFacts DEF TypeInv, TypeOK, DataTypes, Quiet
  <2>. QED  BY <2>1 DEF BusyTasks
<1>2. ~HandleReadHeader /\ ~HandleReadBody /\ ~AsyncWrite /\ ~HandleWrite
      /\ ~CloseSocket
  BY <1>1 DEF HandleReadHeader, HandleReadBody, AsyncWrite, HandleWrite,
     CloseSocket
<1>3. ~OwnerClose /\ ~Receive /\ ~TimerStep /\ ~TimerExpires
      /\ ~HandleReadTimeOut
  BY DEF Quiet, OwnerClose, Receive, OnReceived, ReceivedHandle, ReadTurn,
      TimerStep, StampLastTimeRead,
     RestartReadTimer, CancelReadTimer, CheckReadTimeOut, RunTimerTask,
     TimerTurn, TimerExpires, HandleReadTimeOut
<1>4. /\ \A context \in Context : ~CommitClose(context)
      /\ \A error \in Error : ~CompleteWrite(error)
  BY DEF Quiet, CommitClose, CompleteWrite
<1>. QED  BY <1>2, <1>3, <1>4
     DEF Next, OwnerStep, SocketStep, NetworkStep, OpeningStep

(* Once handleHandshake() has run, the handshake does not come back.       *)
LEMMA OpeningEnds ==
  ASSUME TypeInv, ~Opening, Next
  PROVE  ~Opening'
<1>1. socketStrand \in Seq(SocketTask)
  BY DEF TypeInv, TypeOK, DataTypes
<1>2. HandshakeTasks \cap Ordinary = {}
  BY DEF HandshakeTasks, Ordinary
<1>3. CASE Open \/ HandleHandshake \/ AsyncHandshake
  <2>1. ASSUME NEW op \in {"asyncHandshake", "handleHandshake"},
               SocketTurn(op)
        PROVE  FALSE
    <3>1. Head(socketStrand) \in HandshakeTasks
      BY <1>1, <2>1, TurnFacts DEF HandshakeTasks
    <3>. QED  BY <1>1, <2>1, <3>1, TurnFacts DEF Opening
  <2>. QED  BY <1>3, <2>1
       DEF Open, HandleHandshake, AsyncHandshake, Opening
<1>4. CASE \E context \in Context : CommitClose(context)
  <2>1. Task("close") \in SocketTask /\ Task("close") \notin HandshakeTasks
    BY TaskTypes DEF Task, HandshakeTasks
  <2>2. /\ socketStrand' = Append(socketStrand, Task("close"))
        /\ stage' = stage /\ reading' = reading
    BY <1>4 DEF CommitClose, socketVars
  <2>3. ~Waits(HandshakeTasks, socketStrand')
    BY <1>1, <2>1, <2>2, WaitsAppend DEF Opening
  <2>. QED  BY <2>2, <2>3 DEF Opening
<1>5. CASE \E error \in Error : CompleteRead(error)
  <2>1. PICK error \in Error : CompleteRead(error)
    BY <1>5
  <2>. DEFINE end == Completion(CompletionHandler[reading], error)
  <2>2. reading \in {"header", "body"}
    BY <2>1 DEF TypeInv, TypeOK, DataTypes, CompleteRead, Opening
  <2>3. end \in SocketTask /\ end \notin HandshakeTasks
    BY <2>2, TaskTypes DEF CompletionHandler, Completion, HandshakeTasks
  <2>4. /\ socketStrand' = Append(socketStrand, end)
        /\ stage' = stage /\ reading' = "none"
    BY <2>1 DEF CompleteRead, objectVars
  <2>. HIDE DEF end
  <2>5. ~Waits(HandshakeTasks, socketStrand')
    BY <1>1, <2>3, <2>4, WaitsAppend DEF Opening
  <2>. QED  BY <2>4, <2>5 DEF Opening
<1>6. CASE /\ ~Open /\ ~HandleHandshake /\ ~AsyncHandshake /\ ~StageStep
  <2>1. ~Waits(HandshakeTasks, socketStrand')
    BY <1>2, <1>6, OrdinaryStep DEF Opening, PostsNoMore
  <2>2. stage' = stage /\ reading' \in {reading, "header", "body"}
    BY <1>6 DEF Next, OwnerStep, SocketStep, TimerStep, NetworkStep,
       StageStep, OwnerClose, OwnerCancel, HandleReadHeader, HandleReadBody,
       ReadAbandoned, ReadFailed, MessageRead, BodyFollows, StartRead,
       Receive, OnReceived, ReceivedHandle, AsyncWrite, HandleWrite,
       CancelSocket, CloseSocket,
       StampLastTimeRead, RestartReadTimer, CancelReadTimer, RunTimerTask,
       TimerExpires, HandleReadTimeOut, CheckReadTimeOut, CompleteWrite,
       objectVars, socketVars
  <2>. QED  BY <2>1, <2>2 DEF Opening
<1>. QED  BY <1>3, <1>4, <1>5, <1>6 DEF StageStep

(* OpeningInv is inductive.                                                *)
LEMMA OpeningInvInductive ==
  TypeInv /\ OpeningInv /\ [Next]_vars => OpeningInv'
<1>. SUFFICES ASSUME TypeInv, OpeningInv, [Next]_vars
              PROVE  OpeningInv'
  OBVIOUS
<1>1. socketStrand \in Seq(SocketTask)
  BY DEF TypeInv, TypeOK, DataTypes
<1>2. ASSUME ~Opening'
      PROVE  OpeningInv'
  <2>1. ~Waits(HandshakeTasks, socketStrand')
    BY <1>2 DEF Opening
  <2>2. AtMostOneWaits(HandshakeTasks, socketStrand')
    BY <2>1 DEF AtMostOneWaits, Waits
  <2>. QED  BY <1>2, <2>1, <2>2 DEF OpeningInv, OneHandshake, Opening
<1>3. HandshakeTasks \cap Ordinary = {} /\ HandshakeTasks \cap BusyTasks = {}
  BY DEF HandshakeTasks, Ordinary, BusyTasks
<1>4. CASE UNCHANGED vars
  BY <1>4 DEF OpeningInv, OneHandshake, Opening, Quiet, vars, objectVars,
     strandVars, socketVars, timerVars
<1>5. CASE Next /\ ~Opening
  BY <1>2, <1>5, OpeningEnds
<1>6. CASE Next /\ Opening
  <2>1. Quiet /\ OneHandshake /\ OpeningStep
    BY <1>6, OnlyOpeningSteps DEF OpeningInv
  <2>2. CASE Open
    <3>1. /\ Task("asyncHandshake") \in HandshakeTasks
          /\ Task("asyncHandshake") \in SocketTask
          /\ Task("asyncHandshake") \notin BusyTasks
      BY TaskTypes DEF Task, HandshakeTasks, BusyTasks
    <3>2. /\ ~Waits(BusyTasks, socketStrand')
          /\ AtMostOneWaits(HandshakeTasks, socketStrand')
      BY <1>1, <2>1, <2>2, <3>1, WaitsAppend DEF Open, Quiet, OneHandshake
    <3>. QED  BY <2>1, <2>2, <3>2 DEF OpeningInv, OneHandshake, Quiet, Open,
         socketVars, timerVars
  <2>3. CASE AsyncHandshake
    <3>1. /\ socketStrand # <<>>
          /\ socketStrand' = Tail(socketStrand)
          /\ Head(socketStrand) \in HandshakeTasks
      BY <1>1, <2>3, TurnFacts DEF AsyncHandshake, SocketTurn, HandshakeTasks
    <3>2. /\ ~Waits(HandshakeTasks, socketStrand')
          /\ ~Waits(BusyTasks, socketStrand')
          /\ AtMostOneWaits(HandshakeTasks, socketStrand')
          /\ Waits(HandshakeTasks, socketStrand)
      BY <1>1, <2>1, <3>1, WaitsTail DEF OneHandshake, Quiet
    <3>. QED  BY <2>1, <2>3, <3>2 DEF OpeningInv, OneHandshake, Quiet,
         AsyncHandshake, objectVars, timerVars
  <2>4. CASE HandleHandshake
    <3>1. /\ socketStrand # <<>>
          /\ Head(socketStrand) \in HandshakeTasks
          /\ Tail(socketStrand) \in Seq(SocketTask)
      BY <1>1, <2>4, TurnFacts DEF HandleHandshake, SocketTurn, HandshakeTasks
    <3>2. /\ ~Waits(HandshakeTasks, Tail(socketStrand))
          /\ Waits(HandshakeTasks, socketStrand)
      BY <1>1, <2>1, <3>1, WaitsTail DEF OneHandshake
    <3>3. reading # "handshake" /\ stage # "new"
      BY <2>1, <3>2 DEF OneHandshake
    <3>4. stage' # "new" /\ reading' # "handshake"
      BY <2>4, <3>3 DEF HandleHandshake, HandshakeSucceeded, HandshakeAborted,
         HandshakeFailed
    <3>5. ~Waits(HandshakeTasks, socketStrand')
      <4>. DEFINE rest == Tail(socketStrand)
      <4>1. \/ socketStrand' = rest
            \/ Send(Data(1), rest)
            \/ CallClose("socket", TRUE, rest, timerStrand)
        BY <2>4 DEF HandleHandshake, HandshakeSucceeded, HandshakeAborted,
           HandshakeFailed, OpenHandler
      <4>2. Data(1) \in Message /\ writeQueue \in Seq(Message)
        BY TaskTypes DEF TypeInv, TypeOK, DataTypes
      <4>. HIDE DEF rest
      <4>3. ~Waits(HandshakeTasks, rest) /\ rest \in Seq(SocketTask)
        BY <3>1, <3>2 DEF rest
      <4>. QED
          BY <1>3, <4>1, <4>2, <4>3, SendPosts, CallClosePosts DEF PostsNoMore
    <3>. QED  BY <1>2, <3>4, <3>5 DEF Opening
  <2>5. CASE CancelSocket
    <3>1. socketStrand # <<>> /\ socketStrand' = Tail(socketStrand)
      BY <2>5 DEF CancelSocket, SocketTurn
    <3>2. /\ Waits(HandshakeTasks, socketStrand')
             => Waits(HandshakeTasks, socketStrand)
          /\ ~Waits(BusyTasks, socketStrand')
          /\ AtMostOneWaits(HandshakeTasks, socketStrand')
      BY <1>1, <2>1, <3>1, WaitsTail DEF OneHandshake, Quiet
    <3>. QED  BY <2>1, <2>5, <3>2 DEF OpeningInv, OneHandshake, Quiet,
         CancelSocket, objectVars, timerVars
  <2>6. CASE OwnerCancel
    <3>1. /\ Task("cancel") \in SocketTask
          /\ Task("cancel") \notin HandshakeTasks
          /\ Task("cancel") \notin BusyTasks
      BY TaskTypes DEF Task, HandshakeTasks, BusyTasks
    <3>2. /\ Waits(HandshakeTasks, socketStrand')
             => Waits(HandshakeTasks, socketStrand)
          /\ ~Waits(BusyTasks, socketStrand')
          /\ AtMostOneWaits(HandshakeTasks, socketStrand')
      BY <1>1, <2>1, <2>6, <3>1, WaitsAppend DEF OwnerCancel, OneHandshake,
         Quiet
    <3>. QED  BY <2>1, <2>6, <3>2 DEF OpeningInv, OneHandshake, Quiet,
         OwnerCancel, socketVars, timerVars
  <2>7. CASE \E error \in Error : CompleteRead(error)
    <3>1. PICK error \in Error : CompleteRead(error)
      BY <2>7
    <3>2. reading = "handshake"
      BY <2>1, <3>1 DEF CompleteRead, Quiet
    <3>. DEFINE end == Completion("handleHandshake", error)
    <3>3. /\ end \in SocketTask
          /\ end \in HandshakeTasks
          /\ end \notin BusyTasks
      BY TaskTypes DEF Completion, HandshakeTasks, BusyTasks
    <3>4. /\ socketStrand' = Append(socketStrand, end)
          /\ reading' = "none"
      BY <3>1, <3>2 DEF CompleteRead, CompletionHandler
    <3>. HIDE DEF end
    <3>5. /\ ~Waits(BusyTasks, socketStrand')
          /\ AtMostOneWaits(HandshakeTasks, socketStrand')
      BY <1>1, <2>1, <3>2, <3>3, <3>4, WaitsAppend DEF OneHandshake, Quiet
    <3>6. stage' = stage /\ stage # "new"
      BY <2>1, <3>1, <3>2 DEF OneHandshake, CompleteRead, objectVars
    <3>. QED  BY <2>1, <3>1, <3>4, <3>5, <3>6 DEF OpeningInv, OneHandshake,
         Quiet, CompleteRead, objectVars, timerVars
  <2>. QED  BY <2>1, <2>2, <2>3, <2>4, <2>5, <2>6, <2>7 DEF OpeningStep
<1>. QED  BY <1>4, <1>5, <1>6

(* Init gives an opening session; the invariant holds for every behaviour. *)
LEMMA OpeningInvariant == Spec => []OpeningInv
<1>1. Init => OpeningInv
  <2>. SUFFICES ASSUME Init PROVE OpeningInv
    OBVIOUS
  <2>1. \A tasks : ~Waits(tasks, socketStrand)
    BY DEF Init, Waits
  <2>2. AtMostOneWaits(HandshakeTasks, socketStrand)
    BY DEF Init, AtMostOneWaits
  <2>. QED  BY <2>1, <2>2 DEF Init, OpeningInv, OneHandshake, Quiet
<1>. QED  BY <1>1, TypeInvariant, OpeningInvInductive, PTL DEF Spec

-----------------------------------------------------------------------------
(* A closed session stays closed.                                          *)

DisconnectInv ==
  ~socketOpen \/ Waits(CloseTasks, socketStrand) => ~isConnected

(* The handler of close() is posted by close() alone.                      *)
LEMMA CloseTaskFacts ==
  /\ CloseTasks \cap Ordinary = {}
  /\ \A task \in CloseTasks :
       task.op \notin {"handleHandshake", "handleReadHeader",
                       "handleReadBody"}
BY DEF CloseTasks, Ordinary

(* A session that opens has not been closed and no handler of close()      *)
(* waits: handleHandshake() cannot undo a close().                         *)
LEMMA OpeningNotClosed ==
  ASSUME TypeInv, OpeningInv, Opening, Next
  PROVE  socketOpen' = TRUE /\ ~Waits(CloseTasks, socketStrand')
<1>1. socketStrand \in Seq(SocketTask)
  BY DEF TypeInv, TypeOK, DataTypes
<1>2. Quiet /\ OpeningStep
  BY OnlyOpeningSteps DEF OpeningInv
<1>3. socketOpen' = TRUE
  BY <1>2 DEF Quiet, OpeningStep, Open, AsyncHandshake, HandleHandshake,
     CancelSocket, OwnerCancel, CompleteRead, socketVars
<1>4. ~Waits(CloseTasks, socketStrand)
  BY <1>2 DEF Quiet, Waits, BusyTasks, CloseTasks
<1>5. CASE ~StageStep
  BY <1>3, <1>4, <1>5, CloseTaskFacts, OrdinaryStep DEF PostsNoMore
<1>6. CASE Open
  <2>1. Task("asyncHandshake") \in SocketTask \ CloseTasks
    BY TaskTypes DEF Task, CloseTasks
  <2>. QED  BY <1>1, <1>3, <1>4, <1>6, <2>1, WaitsAppend DEF Open
<1>7. CASE \E error \in Error : CompleteRead(error)
  BY <1>3, <1>4, <1>7, CloseTaskFacts, CompleteReadPosts DEF PostsNoMore
<1>. QED  BY <1>2, <1>5, <1>6, <1>7
     DEF StageStep, OpeningStep, CommitClose, Quiet

(* DisconnectInv is inductive.                                             *)
LEMMA DisconnectInvInductive ==
  TypeInv /\ OpeningInv /\ DisconnectInv /\ [Next]_vars => DisconnectInv'
<1>. SUFFICES ASSUME TypeInv, OpeningInv, DisconnectInv, [Next]_vars
              PROVE  DisconnectInv'
  OBVIOUS
<1>1. socketStrand \in Seq(SocketTask)
  BY DEF TypeInv, TypeOK, DataTypes
<1>2. CASE UNCHANGED vars
  BY <1>2 DEF DisconnectInv, vars, objectVars, strandVars, socketVars
<1>3. CASE Next /\ Opening
  BY <1>3, OpeningNotClosed DEF DisconnectInv
<1>4. CASE \E context \in Context : CommitClose(context)
  BY <1>4 DEF CommitClose, DisconnectInv
<1>5. CASE CloseSocket
  <2>1. Head(socketStrand) \in CloseTasks
    BY <1>1, <1>5, TurnFacts DEF CloseSocket, CloseTasks
  <2>2. Waits(CloseTasks, socketStrand)
    BY <1>1, <1>5, <2>1, TurnFacts DEF CloseSocket
  <2>. QED  BY <1>5, <2>2 DEF CloseSocket, DisconnectInv
<1>6. CASE \E error \in Error : CompleteRead(error)
  <2>1. Waits(CloseTasks, socketStrand') => Waits(CloseTasks, socketStrand)
    BY <1>6, CloseTaskFacts, CompleteReadPosts DEF PostsNoMore
  <2>. QED  BY <1>6, <2>1 DEF CompleteRead, objectVars, DisconnectInv
<1>7. CASE Next /\ ~Opening /\ ~CloseSocket /\ ~StageStep
  <2>1. ~HandleHandshake
    <3>1. SocketTurn("handleHandshake") => Waits(HandshakeTasks, socketStrand)
      BY <1>1, TurnFacts DEF HandshakeTasks
    <3>. QED  BY <1>7, <3>1 DEF HandleHandshake, Opening
  <2>2. Waits(CloseTasks, socketStrand') => Waits(CloseTasks, socketStrand)
    BY <1>7, CloseTaskFacts, OrdinaryStep DEF PostsNoMore
  <2>3. isConnected' = isConnected /\ socketOpen' = socketOpen
    BY <1>7, <2>1 DEF Next, OwnerStep, SocketStep, TimerStep, NetworkStep,
       StageStep, OwnerClose, OwnerCancel, AsyncHandshake, HandleReadHeader,
       HandleReadBody, Receive, OnReceived, ReceivedHandle, AsyncWrite,
       HandleWrite, CancelSocket,
       StampLastTimeRead, RestartReadTimer, CancelReadTimer, RunTimerTask,
       TimerExpires, HandleReadTimeOut, CheckReadTimeOut, CompleteWrite,
       objectVars, socketVars
  <2>. QED  BY <2>2, <2>3 DEF DisconnectInv
<1>8. Opening \/ ~Open
  BY DEF Open, Opening
<1>. QED  BY <1>2, <1>3, <1>4, <1>5, <1>6, <1>7, <1>8 DEF StageStep

(* Init has an open socket; the invariant holds for every behaviour.       *)
LEMMA DisconnectInvariant == Spec => []DisconnectInv
<1>1. Init => DisconnectInv
  BY DEF Init, DisconnectInv
<1>. QED  BY <1>1, TypeInvariant, OpeningInvariant, DisconnectInvInductive,
     PTL DEF Spec

(* A session whose socket is closed, or about to be, never counts as       *)
(* connected again: once close() has set isConnected_ to FALSE and posted  *)
(* its handler, no handleHandshake() can follow that sets it to TRUE.      *)
THEOREM ClosedStaysClosed == Spec => []ClosedIsDisconnected
<1>1. TypeInv /\ DisconnectInv => ClosedIsDisconnected
  <2>. SUFFICES ASSUME TypeInv, DisconnectInv
                PROVE  ClosedIsDisconnected
    OBVIOUS
  <2>1. /\ socketStrand \in Seq(SocketTask)
        /\ DOMAIN socketStrand = 1 .. Len(socketStrand)
    BY DEF TypeInv, TypeOK, DataTypes
  <2>2. \A i \in 1 .. Len(socketStrand) : socketStrand[i] \in SocketTask
    BY <2>1
  <2>. QED  BY <2>1, <2>2
       DEF DisconnectInv, ClosedIsDisconnected, Waits, CloseTasks
<1>. QED  BY <1>1, TypeInvariant, DisconnectInvariant, PTL

-----------------------------------------------------------------------------
(* The write queue: one write at a time, of the front of the queue, and no *)
(* lost wakeup.                                                            *)

WriteTasks == {task \in SocketTask : task.op \in {"asyncWrite", "handleWrite"}}

(* Writes of a message that is not the front of the queue.                 *)
StaleWrites(q) ==
  {task \in SocketTask :
     task.op = "asyncWrite" /\ (q = <<>> \/ task.message # Head(q))}

(* The queue, the strand and the message being written fit together.       *)
Consistent(q, strand, w) ==
  /\ AtMostOneWaits(WriteTasks, strand)
  /\ w # NoMessage =>
       ~Waits(WriteTasks, strand) /\ q # <<>> /\ Head(q) = w
  /\ Waits(WriteTasks, strand) => q # <<>>
  /\ ~Waits(StaleWrites(q), strand)

WriteInv == socketOpen => Consistent(writeQueue, socketStrand, writing)

(* Stale writes are writes, and an asyncWrite() is stale unless it writes  *)
(* the front.                                                              *)
LEMMA StaleFacts ==
  /\ \A q : StaleWrites(q) \subseteq WriteTasks
  /\ \A q, strand :
       ~Waits(WriteTasks, strand) => ~Waits(StaleWrites(q), strand)
  /\ \A q : \A msg \in Message :
       q # <<>> /\ Head(q) = msg => WriteTask(msg) \notin StaleWrites(q)
  /\ \A msg \in Message : WriteTask(msg) \in WriteTasks
<1>1. \A q : StaleWrites(q) \subseteq WriteTasks
  BY DEF StaleWrites, WriteTasks
<1>2. \A msg \in Message : WriteTask(msg) \in WriteTasks
  BY TaskTypes DEF WriteTask, WriteTasks
<1>3. \A q : \A msg \in Message :
        q # <<>> /\ Head(q) = msg => WriteTask(msg) \notin StaleWrites(q)
  BY DEF WriteTask, StaleWrites
<1>. QED  BY <1>1, <1>2, <1>3 DEF Waits

(* Nothing is written and no write waits: any queue will do.               *)
LEMMA ConsistentIdle ==
  ASSUME NEW q, NEW strand, ~Waits(WriteTasks, strand)
  PROVE  Consistent(q, strand, NoMessage)
BY StaleFacts DEF Consistent, AtMostOneWaits, Waits

(* A handler that writes nothing leaves the strand.                        *)
LEMMA ConsistentTail ==
  ASSUME NEW q, NEW strand \in Seq(SocketTask), NEW w, strand # <<>>,
         Consistent(q, strand, w)
  PROVE  Consistent(q, Tail(strand), w)
<1>1. \A tasks : Waits(tasks, Tail(strand)) => Waits(tasks, strand)
  BY WaitsTail
<1>. QED  BY <1>1, WaitsTail DEF Consistent

(* A handler that writes nothing is posted.                                *)
LEMMA ConsistentAppend ==
  ASSUME NEW q, NEW strand \in Seq(SocketTask), NEW w,
         NEW task \in SocketTask \ WriteTasks, Consistent(q, strand, w)
  PROVE  Consistent(q, Append(strand, task), w)
<1>1. /\ Waits(WriteTasks, Append(strand, task)) <=> Waits(WriteTasks, strand)
      /\ AtMostOneWaits(WriteTasks, Append(strand, task))
  BY WaitsAppend DEF Consistent
<1>2. task \notin StaleWrites(q)
  BY StaleFacts
<1>3. ~Waits(StaleWrites(q), Append(strand, task))
  BY <1>2, WaitsAppend DEF Consistent
<1>. QED  BY <1>1, <1>3 DEF Consistent

(* send() and writeNext() post the front of the queue if no write is under *)
(* way.                                                                    *)
LEMMA ConsistentPost ==
  ASSUME NEW q \in Seq(Message), q # <<>>, NEW strand \in Seq(SocketTask),
         ~Waits(WriteTasks, strand)
  PROVE  Consistent(q, Append(strand, WriteTask(Head(q))), NoMessage)
<1>. DEFINE task == WriteTask(Head(q))
<1>1. Head(q) \in Message
  OBVIOUS
<1>2. task \in SocketTask /\ task \notin StaleWrites(q)
  BY <1>1, StaleFacts, TaskTypes
<1>3. AtMostOneWaits(WriteTasks, strand) /\ ~Waits(StaleWrites(q), strand)
  BY StaleFacts DEF AtMostOneWaits, Waits
<1>. HIDE DEF task
<1>4. AtMostOneWaits(WriteTasks, Append(strand, task))
  BY <1>2, <1>3, WaitsAppend
<1>5. ~Waits(StaleWrites(q), Append(strand, task))
  BY <1>2, <1>3, WaitsAppend
<1>. QED  BY <1>4, <1>5 DEF Consistent, task

(* send() as a whole.                                                      *)
LEMMA ConsistentSend ==
  ASSUME NEW q \in Seq(Message), NEW strand \in Seq(SocketTask),
         NEW w \in Message \cup {NoMessage}, NEW m \in Message,
         Consistent(q, strand, w)
  PROVE  Consistent(Enqueue(q, m), PostIfIdle(q, m, strand), w)
<1>1. /\ Enqueue(q, m) \in Seq(Message)
      /\ Enqueue(q, m) # <<>>
      /\ Head(Enqueue(q, m)) = IF q = <<>> THEN m ELSE Head(q)
  BY EnqueueFacts
<1>2. CASE q = <<>>
  <2>1. ~Waits(WriteTasks, strand) /\ w = NoMessage
    BY <1>2 DEF Consistent
  <2>. QED  BY <1>1, <1>2, <2>1, ConsistentPost DEF PostIfIdle
<1>3. CASE q # <<>>
  <2>1. StaleWrites(Enqueue(q, m)) = StaleWrites(q)
    BY <1>1, <1>3 DEF StaleWrites
  <2>2. PostIfIdle(q, m, strand) = strand
    BY <1>3 DEF PostIfIdle
  <2>. QED  BY <1>1, <1>3, <2>1, <2>2 DEF Consistent
<1>. QED  BY <1>2, <1>3

-----------------------------------------------------------------------------
(* Most handlers take nothing but themselves from the strand, and then     *)
(* call send() once or post one handler that does not write, or neither.   *)

Taken(strand) ==
  \/ strand = socketStrand
  \/ /\ socketStrand # <<>>
     /\ Head(socketStrand) \notin WriteTasks
     /\ strand = Tail(socketStrand)

Posted(strand) ==
  \/ \E m \in Message : Send(m, strand)
  \/ writeQueue' = writeQueue /\ socketStrand' = strand
  \/ /\ writeQueue' = writeQueue
     /\ \E task \in SocketTask \ WriteTasks :
          socketStrand' = Append(strand, task)

QueueStep ==
  /\ \E strand \in Seq(SocketTask) : Taken(strand) /\ Posted(strand)
  /\ writing' = writing
  /\ socketOpen' = socketOpen

(* The handlers that take a write, and its completion.                     *)
WriteStep ==
  \/ AsyncWrite \/ HandleWrite
  \/ \E error \in Error : CompleteWrite(error)

(* The handlers posted by anything but send() and its successors.          *)
LEMMA OtherTasks ==
  /\ \A op \in {"asyncHandshake", "cancel", "close"} :
       Task(op) \in SocketTask \ WriteTasks
  /\ \A op \in {"handleHandshake", "handleReadHeader", "handleReadBody"},
        error \in Error :
       Completion(op, error) \in SocketTask \ WriteTasks
BY TaskTypes DEF Task, Completion, WriteTasks

(* close() posts such a handler.                                           *)
LEMMA CallClosePosted ==
  ASSUME NEW context, NEW connected, NEW strand, NEW timers,
         CallClose(context, connected, strand, timers),
         writeQueue' = writeQueue
  PROVE  Posted(strand)
BY OtherTasks DEF CallClose, Posted

(* Every step but those is such a step, as long as the socket is open.     *)
LEMMA OnlyQueueSteps ==
  ASSUME TypeInv, Next, ~WriteStep, ~CloseSocket
  PROVE  QueueStep
<1>1. /\ socketStrand \in Seq(SocketTask)
      /\ readStrand \in Seq(1 .. MaxFrames)
  BY DEF TypeInv, TypeOK, DataTypes
<1>. DEFINE rest == Tail(socketStrand)
<1>2. writing' = writing /\ socketOpen' = socketOpen
  BY DEF Next, OwnerStep, SocketStep, TimerStep, NetworkStep, WriteStep,
     Open, OwnerClose, OwnerCancel, AsyncHandshake, HandleHandshake,
     HandleReadHeader, HandleReadBody, CancelSocket, Receive, OnReceived,
     ReceivedHandle, CommitClose,
     StampLastTimeRead, RestartReadTimer, CancelReadTimer, RunTimerTask,
     TimerExpires, HandleReadTimeOut, CheckReadTimeOut, CompleteRead,
     socketVars
<1>3. SUFFICES \E strand \in Seq(SocketTask) : Taken(strand) /\ Posted(strand)
  BY <1>2 DEF QueueStep
<1>4. ASSUME NEW op, SocketTurn(op), op \notin {"asyncWrite", "handleWrite"}
      PROVE  rest \in Seq(SocketTask) /\ Taken(rest)
  BY <1>1, <1>4, TurnFacts DEF SocketTurn, Taken, WriteTasks
<1>5. Taken(socketStrand)
  BY DEF Taken
<1>. HIDE DEF rest
<1>6. CASE Open \/ OwnerCancel \/ \E context \in Context : CommitClose(context)
  <2>1. Posted(socketStrand)
    BY <1>6, OtherTasks DEF Open, OwnerCancel, CommitClose, Posted
  <2>. QED  BY <1>1, <1>5, <2>1
<1>7. CASE OwnerClose
  BY <1>1, <1>5, <1>7, CallClosePosted DEF OwnerClose
<1>8. CASE AsyncHandshake \/ CancelSocket
  <2>1. Posted(rest)
    BY <1>8 DEF AsyncHandshake, CancelSocket, objectVars, Posted, rest
  <2>. QED  BY <1>4, <1>8, <2>1 DEF AsyncHandshake, CancelSocket
<1>9. CASE HandleHandshake
  <2>1. CASE HandshakeSucceeded
    <3>1. OpenHandler(rest)
      BY <2>1 DEF HandshakeSucceeded, rest
    <3>. QED  BY <1>4, <1>9, <3>1, TaskTypes
         DEF HandleHandshake, OpenHandler, Posted
  <2>2. CASE HandshakeAborted
    BY <1>4, <1>9, <2>2 DEF HandleHandshake, HandshakeAborted, Posted, rest
  <2>3. CASE HandshakeFailed
    BY <1>4, <1>9, <2>3, CallClosePosted
    DEF HandleHandshake, HandshakeFailed, rest
  <2>. QED  BY <1>9, <2>1, <2>2, <2>3 DEF HandleHandshake
<1>10. CASE HandleReadHeader \/ HandleReadBody
  <2>1. SUFFICES Posted(rest)
    BY <1>4, <1>10 DEF HandleReadHeader, HandleReadBody
  <2>2. ReadAbandoned \/ ReadFailed \/ MessageRead \/ BodyFollows
    BY <1>10 DEF HandleReadHeader, HandleReadBody
  <2>3. CASE ReadAbandoned \/ BodyFollows
    BY <2>3 DEF ReadAbandoned, BodyFollows, Posted, rest
  <2>4. CASE ReadFailed
    BY <2>4, CallClosePosted DEF ReadFailed, rest
  <2>5. CASE MessageRead
    <3>1. OnMessageReceived(rest)
      BY <2>5 DEF MessageRead, rest
    <3>. QED  BY <3>1, TaskTypes DEF OnMessageReceived, Posted
  <2>. QED  BY <2>2, <2>3, <2>4, <2>5
<1>11. CASE Receive
  <2>1. Data(Head(readStrand)) \in Message
    BY <1>1, <1>11, TailFacts, TaskTypes, SessionAssumption
    DEF Receive, OnReceived, ReceivedHandle, ReadTurn
  <2>2. Posted(socketStrand)
    BY <1>11, <2>1, CallClosePosted DEF Receive, OnReceived, ReceivedHandle,
        Posted
  <2>. QED  BY <1>1, <1>5, <2>2
<1>12. CASE CheckReadTimeOut
  <2>1. Posted(socketStrand)
    BY <1>12, TaskTypes, CallClosePosted DEF CheckReadTimeOut, Posted
  <2>. QED  BY <1>1, <1>5, <2>1
<1>13. CASE \/ StampLastTimeRead \/ RestartReadTimer \/ CancelReadTimer
            \/ TimerExpires \/ HandleReadTimeOut
  <2>1. Posted(socketStrand)
    BY <1>13 DEF StampLastTimeRead, RestartReadTimer, CancelReadTimer,
       RunTimerTask, TimerExpires, HandleReadTimeOut, objectVars, strandVars,
       Posted
  <2>. QED  BY <1>1, <1>5, <2>1
<1>14. CASE \E error \in Error : CompleteRead(error)
  <2>1. PICK error \in Error : CompleteRead(error)
    BY <1>14
  <2>2. CompletionHandler[reading]
          \in {"handleHandshake", "handleReadHeader", "handleReadBody"}
    BY <2>1 DEF CompleteRead, CompletionHandler, TypeInv, TypeOK, DataTypes
  <2>3. Posted(socketStrand)
    BY <2>1, <2>2, OtherTasks DEF CompleteRead, objectVars, Posted
  <2>. QED  BY <1>1, <1>5, <2>3
<1>. QED
  BY <1>6, <1>7, <1>8, <1>9, <1>10, <1>11, <1>12, <1>13, <1>14
  DEF Next, OwnerStep, SocketStep, TimerStep, NetworkStep, WriteStep

-----------------------------------------------------------------------------
(* WriteInv is inductive.                                                  *)
LEMMA WriteInvInductive ==
  TypeInv /\ WriteInv /\ [Next]_vars => WriteInv'
<1>. SUFFICES ASSUME TypeInv, WriteInv, [Next]_vars, socketOpen'
              PROVE  Consistent(writeQueue', socketStrand', writing')
  BY DEF WriteInv
<1>1. /\ socketStrand \in Seq(SocketTask)
      /\ writeQueue \in Seq(Message)
      /\ writing \in Message \cup {NoMessage}
  BY DEF TypeInv, TypeOK, DataTypes
<1>. DEFINE rest == Tail(socketStrand)
<1>2. CASE UNCHANGED vars
  BY <1>2 DEF WriteInv, vars, objectVars, strandVars, socketVars
<1>3. CASE QueueStep
  <2>1. Consistent(writeQueue, socketStrand, writing)
    BY <1>3 DEF QueueStep, WriteInv
  <2>2. PICK strand \in Seq(SocketTask) : Taken(strand) /\ Posted(strand)
    BY <1>3 DEF QueueStep
  <2>3. Consistent(writeQueue, strand, writing)
    BY <1>1, <2>1, <2>2, ConsistentTail DEF Taken
  <2>4. ASSUME NEW m \in Message, Send(m, strand)
        PROVE  Consistent(writeQueue', socketStrand', writing)
    BY <1>1, <2>3, <2>4, ConsistentSend DEF Send
  <2>5. ASSUME NEW task \in SocketTask \ WriteTasks,
               socketStrand' = Append(strand, task), writeQueue' = writeQueue
        PROVE  Consistent(writeQueue', socketStrand', writing)
    BY <1>1, <2>3, <2>5, ConsistentAppend
  <2>6. Consistent(writeQueue', socketStrand', writing)
    BY <2>2, <2>3, <2>4, <2>5 DEF Posted
  <2>. QED  BY <1>3, <2>6 DEF QueueStep
<1>4. CASE AsyncWrite
  <2>1. /\ Head(socketStrand) \in WriteTasks
        /\ rest \in Seq(SocketTask)
        /\ Waits(WriteTasks, socketStrand)
        /\ Head(socketStrand) \in StaleWrites(writeQueue)
           => Waits(StaleWrites(writeQueue), socketStrand)
        /\ Head(socketStrand).op = "asyncWrite"
        /\ Head(socketStrand) \in SocketTask
        /\ socketStrand # <<>>
    BY <1>1, <1>4, TurnFacts DEF AsyncWrite, SocketTurn, WriteTasks
  <2>2. socketOpen /\ Consistent(writeQueue, socketStrand, writing)
    BY <1>4 DEF AsyncWrite, WriteInv
  <2>3. /\ writeQueue # <<>>
        /\ Head(socketStrand).message = Head(writeQueue)
    BY <2>1, <2>2 DEF Consistent, StaleWrites
  <2>4. ~Waits(WriteTasks, rest)
    BY <1>1, <2>1, <2>2, WaitsTail DEF Consistent
  <2>5. /\ writing' = Head(writeQueue)
        /\ socketStrand' = rest
        /\ writeQueue' = writeQueue
    BY <1>4, <2>2, <2>3 DEF AsyncWrite, objectVars
  <2>6. /\ ~Waits(StaleWrites(writeQueue), rest)
        /\ AtMostOneWaits(WriteTasks, rest)
    BY <2>4, StaleFacts DEF AtMostOneWaits, Waits
  <2>. QED  BY <2>3, <2>4, <2>5, <2>6 DEF Consistent
<1>5. CASE HandleWrite
  <2>1. /\ Head(socketStrand) \in WriteTasks
        /\ rest \in Seq(SocketTask)
        /\ Waits(WriteTasks, socketStrand)
        /\ socketStrand # <<>>
    BY <1>1, <1>5, TurnFacts DEF HandleWrite, SocketTurn, WriteTasks
  <2>2. Consistent(writeQueue, socketStrand, writing)
    BY <1>5 DEF HandleWrite, socketVars, WriteInv
  <2>3. writing = NoMessage /\ ~Waits(WriteTasks, rest)
    BY <1>1, <2>1, <2>2, WaitsTail DEF Consistent
  <2>. DEFINE queue == Dequeue(writeQueue)
  <2>4. queue \in Seq(Message)
    BY <1>1, DequeueFacts
  <2>5. /\ writeQueue' = queue /\ writing' = NoMessage
        /\ socketStrand' \in {rest, WriteNext(queue, rest),
                              Append(rest, Task("cancel"))}
    BY <1>5, <2>3 DEF HandleWrite, CallClose, socketVars
  <2>. HIDE DEF queue, rest
  <2>6. Consistent(queue, rest, NoMessage)
    BY <2>3, ConsistentIdle
  <2>7. Consistent(queue, WriteNext(queue, rest), NoMessage)
    BY <2>1, <2>3, <2>4, <2>6, ConsistentPost DEF WriteNext
  <2>8. Consistent(queue, Append(rest, Task("cancel")), NoMessage)
    BY <2>1, <2>6, ConsistentAppend, OtherTasks
  <2>. QED  BY <2>5, <2>6, <2>7, <2>8
<1>6. CASE \E error \in Error : CompleteWrite(error)
  <2>1. PICK error \in Error : CompleteWrite(error)
    BY <1>6
  <2>2. Consistent(writeQueue, socketStrand, writing)
    BY <2>1 DEF CompleteWrite, WriteInv
  <2>. DEFINE end == Completion("handleWrite", error)
  <2>3. ~Waits(WriteTasks, socketStrand) /\ writeQueue # <<>>
    BY <2>1, <2>2 DEF CompleteWrite, Consistent
  <2>4. end \in SocketTask /\ end \notin StaleWrites(writeQueue)
    BY TaskTypes DEF Completion, StaleWrites
  <2>5. /\ socketStrand' = Append(socketStrand, end)
        /\ writing' = NoMessage /\ writeQueue' = writeQueue
    BY <2>1 DEF CompleteWrite, objectVars
  <2>. HIDE DEF end
  <2>6. /\ AtMostOneWaits(WriteTasks, socketStrand)
        /\ ~Waits(StaleWrites(writeQueue), socketStrand)
    BY <2>2 DEF Consistent
  <2>7. AtMostOneWaits(WriteTasks, socketStrand')
    BY <1>1, <2>3, <2>4, <2>5, <2>6, WaitsAppend
  <2>8. ~Waits(StaleWrites(writeQueue), socketStrand')
    BY <1>1, <2>4, <2>5, <2>6, WaitsAppend
  <2>. QED  BY <2>3, <2>5, <2>7, <2>8 DEF Consistent
<1>7. ~CloseSocket
  BY DEF CloseSocket
<1>. QED  BY <1>2, <1>3, <1>4, <1>5, <1>6, <1>7, OnlyQueueSteps DEF WriteStep

(* Init has no write and no message.                                       *)
LEMMA WriteInvariant == Spec => []WriteInv
<1>1. Init => WriteInv
  <2>1. Init => ~Waits(WriteTasks, socketStrand) /\ writing = NoMessage
    BY DEF Init, Waits
  <2>. QED  BY <2>1, ConsistentIdle DEF WriteInv
<1>. QED  BY <1>1, TypeInvariant, WriteInvInductive, PTL DEF Spec

(* The writes under way, and how many the queue accounts for.              *)
Writes(strand, w) ==
  Count(WriteTasks, strand) + IF w = NoMessage THEN 0 ELSE 1

Served(q) == IF q = <<>> THEN 0 ELSE 1

FewWrites == Writes(socketStrand, writing) <= Served(writeQueue) + closes

(* Counting the writes as handlers are posted and run.                     *)
LEMMA WritesFacts ==
  ASSUME NEW strand \in Seq(SocketTask), NEW w
  PROVE  /\ Writes(strand, w) \in Nat
         /\ \A task \in SocketTask :
              Writes(Append(strand, task), w) =
                Writes(strand, w) + IF task \in WriteTasks THEN 1 ELSE 0
         /\ strand # <<>> =>
              Writes(strand, w) = Writes(Tail(strand), w)
                + IF Head(strand) \in WriteTasks THEN 1 ELSE 0
<1>1. Count(WriteTasks, strand) \in Nat
  BY CountFacts
<1>2. ASSUME NEW task \in SocketTask
      PROVE  Writes(Append(strand, task), w) =
               Writes(strand, w) + IF task \in WriteTasks THEN 1 ELSE 0
  BY <1>1, CountAppend DEF Writes
<1>3. ASSUME strand # <<>>
      PROVE  Writes(strand, w) = Writes(Tail(strand), w)
               + IF Head(strand) \in WriteTasks THEN 1 ELSE 0
  <2>1. Count(WriteTasks, Tail(strand)) \in Nat
    BY <1>3, TailFacts, CountFacts
  <2>2. Count(WriteTasks, strand) = Count(WriteTasks, Tail(strand))
          + IF Head(strand) \in WriteTasks THEN 1 ELSE 0
    BY <1>3, CountTail
  <2>. QED  BY <1>1, <2>1, <2>2 DEF Writes
<1>. QED  BY <1>1, <1>2, <1>3 DEF Writes

(* send() begins a write only if it makes the queue start to be served.    *)
LEMMA SendWrites ==
  ASSUME writeQueue \in Seq(Message), NEW m \in Message,
         NEW strand \in Seq(SocketTask), NEW w, Send(m, strand)
  PROVE  /\ Writes(socketStrand', w) \in Nat
         /\ Writes(socketStrand', w) + Served(writeQueue)
            = Writes(strand, w) + Served(writeQueue')
<1>1. Served(writeQueue') = 1
  BY EnqueueFacts DEF Send, Served
<1>2. Writes(strand, w) \in Nat
  BY WritesFacts
<1>3. CASE writeQueue = <<>>
  <2>1. WriteTask(m) \in SocketTask /\ WriteTask(m) \in WriteTasks
    BY TaskTypes, StaleFacts
  <2>2. socketStrand' = Append(strand, WriteTask(m))
    BY <1>3 DEF Send, PostIfIdle
  <2>3. Writes(socketStrand', w) = Writes(strand, w) + 1
    BY <2>1, <2>2, WritesFacts
  <2>. QED  BY <1>1, <1>2, <1>3, <2>3 DEF Served
<1>4. CASE writeQueue # <<>>
  <2>1. socketStrand' = strand
    BY <1>4 DEF Send, PostIfIdle
  <2>. QED  BY <1>1, <1>2, <1>4, <2>1 DEF Served
<1>. QED  BY <1>3, <1>4

(* FewWrites is inductive.                                                 *)
LEMMA FewWritesInductive ==
  TypeInv /\ FewWrites /\ [Next]_vars => FewWrites'
<1>. SUFFICES ASSUME TypeInv, FewWrites, [Next]_vars
              PROVE  Writes(socketStrand', writing')
                     <= Served(writeQueue') + closes'
  BY DEF FewWrites
<1>1. /\ socketStrand \in Seq(SocketTask)
      /\ writeQueue \in Seq(Message)
      /\ writing \in Message \cup {NoMessage}
      /\ closes \in Nat
  BY DEF TypeInv, TypeOK, DataTypes
<1>2. /\ Writes(socketStrand, writing) \in Nat
      /\ Writes(socketStrand, writing) <= Served(writeQueue) + closes
  BY <1>1, WritesFacts DEF FewWrites
<1>3. \A q : Served(q) \in {0, 1}
  BY DEF Served
<1>4. CASE UNCHANGED vars
  BY <1>2, <1>4 DEF vars, objectVars, strandVars, socketVars, historyVars
<1>5. CASE CloseSocket
  <2>1. /\ socketStrand # <<>>
        /\ socketStrand' = Tail(socketStrand)
        /\ writing' = writing
        /\ writeQueue' = <<>>
        /\ closes' = closes + 1
    BY <1>5 DEF CloseSocket, SocketTurn
  <2>2. /\ Writes(socketStrand', writing) \in Nat
        /\ Writes(socketStrand', writing) <= Writes(socketStrand, writing)
    <3>1. Tail(socketStrand) \in Seq(SocketTask)
      BY <1>1, <2>1, TailFacts
    <3>2. Writes(Tail(socketStrand), writing) \in Nat
      BY <3>1, WritesFacts
    <3>3. Writes(socketStrand, writing) = Writes(Tail(socketStrand), writing)
            + IF Head(socketStrand) \in WriteTasks THEN 1 ELSE 0
      BY <1>1, <2>1, WritesFacts
    <3>. QED  BY <1>2, <2>1, <3>2, <3>3
  <2>. QED  BY <1>1, <1>2, <1>3, <2>1, <2>2
<1>6. ASSUME Next, ~CloseSocket
      PROVE  closes' = closes
  BY <1>6 DEF Next, OwnerStep, SocketStep, TimerStep, NetworkStep, Open,
     OwnerClose, OwnerCancel, AsyncHandshake, HandleHandshake,
     HandleReadHeader, HandleReadBody, AsyncWrite, HandleWrite, CancelSocket,
     Receive, OnReceived, ReceivedHandle, CommitClose, StampLastTimeRead,
     RestartReadTimer, CancelReadTimer, RunTimerTask, TimerExpires,
     HandleReadTimeOut, CheckReadTimeOut, CompleteRead, CompleteWrite,
     historyVars
<1>7. CASE Next /\ ~CloseSocket /\ QueueStep
  <2>1. writing' = writing /\ closes' = closes
    BY <1>6, <1>7 DEF QueueStep
  <2>2. PICK strand \in Seq(SocketTask) : Taken(strand) /\ Posted(strand)
    BY <1>7 DEF QueueStep
  <2>3. Writes(strand, writing) = Writes(socketStrand, writing)
    <3>1. CASE strand # socketStrand
      <4>1. /\ socketStrand # <<>>
            /\ Head(socketStrand) \notin WriteTasks
            /\ strand = Tail(socketStrand)
        BY <2>2, <3>1 DEF Taken
      <4>2. Writes(strand, writing) \in Nat
        BY WritesFacts
      <4>. QED  BY <1>1, <4>1, <4>2, WritesFacts
    <3>. QED  BY <3>1
  <2>4. ASSUME NEW m \in Message, Send(m, strand)
        PROVE  /\ Writes(socketStrand', writing) \in Nat
               /\ Writes(socketStrand', writing) + Served(writeQueue)
                  = Writes(strand, writing) + Served(writeQueue')
    BY <1>1, <2>4, SendWrites
  <2>5. ASSUME NEW task \in SocketTask \ WriteTasks,
               socketStrand' = Append(strand, task)
        PROVE  Writes(socketStrand', writing) = Writes(strand, writing)
    <3>1. Writes(strand, writing) \in Nat
      BY WritesFacts
    <3>. QED  BY <2>5, <3>1, WritesFacts
  <2>6. CASE \E m \in Message : Send(m, strand)
    BY <1>1, <1>2, <1>3, <2>1, <2>3, <2>4, <2>6
  <2>7. CASE Writes(socketStrand', writing) = Writes(strand, writing)
             /\ writeQueue' = writeQueue
    BY <1>2, <2>1, <2>3, <2>7
  <2>. QED  BY <2>2, <2>5, <2>6, <2>7 DEF Posted
<1>8. ASSUME NEW op, SocketTurn(op)
      PROVE  /\ socketStrand # <<>>
             /\ Tail(socketStrand) \in Seq(SocketTask)
             /\ Head(socketStrand) \in SocketTask
             /\ Head(socketStrand).op = op
  BY <1>1, <1>8, TurnFacts DEF SocketTurn
<1>9. \A error \in Error :
        /\ Completion("handleWrite", error) \in SocketTask
        /\ Completion("handleWrite", error) \in WriteTasks
  BY TaskTypes DEF Completion, WriteTasks
<1>10. CASE AsyncWrite
  <2>. DEFINE rest == Tail(socketStrand)
              fail == Completion("handleWrite", "error")
  <2>1. /\ rest \in Seq(SocketTask)
        /\ Head(socketStrand) \in WriteTasks
        /\ socketStrand # <<>>
    BY <1>8, <1>10 DEF AsyncWrite, WriteTasks
  <2>2. fail \in SocketTask /\ fail \in WriteTasks
    BY <1>9 DEF Error
  <2>3. /\ closes' = closes /\ writeQueue' = writeQueue
        /\ \/ socketStrand' = rest
           \/ socketStrand' = Append(rest, fail) /\ writing' = writing
    BY <1>10 DEF AsyncWrite, objectVars, historyVars
  <2>. HIDE DEF rest, fail
  <2>4. /\ Writes(rest, writing) \in Nat
        /\ Writes(rest, writing') \in Nat
        /\ Writes(rest, writing') <= Writes(rest, writing) + 1
    <3>1. Count(WriteTasks, rest) \in Nat
      BY <2>1, CountFacts
    <3>. QED  BY <3>1 DEF Writes
  <2>5. Writes(socketStrand, writing) = Writes(rest, writing) + 1
    BY <1>1, <2>1, WritesFacts DEF rest
  <2>6. Writes(Append(rest, fail), writing) = Writes(rest, writing) + 1
    BY <2>1, <2>2, WritesFacts
  <2>7. CASE socketStrand' = rest
    <3>1. /\ Writes(socketStrand', writing') \in Nat
          /\ Writes(socketStrand', writing') <= Writes(socketStrand, writing)
      BY <1>2, <2>4, <2>5, <2>7
    <3>. QED  BY <1>1, <1>2, <1>3, <2>3, <3>1
  <2>8. CASE socketStrand' = Append(rest, fail) /\ writing' = writing
    <3>1. Writes(socketStrand', writing') = Writes(socketStrand, writing)
      BY <2>5, <2>6, <2>8
    <3>. QED  BY <1>1, <1>2, <1>3, <2>3, <3>1
  <2>. QED  BY <2>3, <2>7, <2>8
<1>11. CASE HandleWrite
  <2>. DEFINE rest == Tail(socketStrand)
              queue == Dequeue(writeQueue)
              cancel == Task("cancel")
  <2>1. /\ rest \in Seq(SocketTask)
        /\ Head(socketStrand) \in WriteTasks
        /\ socketStrand # <<>>
        /\ queue \in Seq(Message)
        /\ cancel \in SocketTask \ WriteTasks
    BY <1>1, <1>8, <1>11, DequeueFacts, OtherTasks DEF HandleWrite, WriteTasks
  <2>2. /\ closes' = closes /\ writeQueue' = queue /\ writing' = writing
        /\ socketStrand' \in {rest, WriteNext(queue, rest),
                              Append(rest, cancel)}
    BY <1>11 DEF HandleWrite, CallClose, socketVars, historyVars
  <2>3. writeQueue = <<>> => queue = <<>>
    BY DEF Dequeue
  <2>4. Writes(socketStrand, writing) = Writes(rest, writing) + 1
    BY <1>1, <2>1, WritesFacts
  <2>. HIDE DEF rest, queue, cancel
  <2>5. Writes(rest, writing) \in Nat
    BY <2>1, WritesFacts
  <2>6. Writes(Append(rest, cancel), writing) = Writes(rest, writing)
    BY <2>1, <2>5, WritesFacts
  <2>7. Writes(WriteNext(queue, rest), writing)
        = Writes(rest, writing) + Served(queue)
    <3>1. CASE queue = <<>>
      BY <2>5, <3>1 DEF WriteNext, Served
    <3>2. CASE queue # <<>>
      <4>1. /\ WriteTask(Head(queue)) \in SocketTask
            /\ WriteTask(Head(queue)) \in WriteTasks
        BY <2>1, <3>2, TaskTypes, StaleFacts
      <4>2. Writes(Append(rest, WriteTask(Head(queue))), writing)
            = Writes(rest, writing) + 1
        BY <2>1, <4>1, WritesFacts
      <4>. QED  BY <3>2, <4>2 DEF WriteNext, Served
    <3>. QED  BY <3>1, <3>2
  <2>8. Served(queue) <= Served(writeQueue)
    BY <2>3 DEF Served
  <2>9. Writes(socketStrand', writing') <= Writes(rest, writing) + Served(queue)
        /\ Writes(socketStrand', writing') \in Nat
    <3>1. CASE socketStrand' = rest
      BY <1>3, <2>2, <2>5, <3>1
    <3>2. CASE socketStrand' = WriteNext(queue, rest)
      BY <1>3, <2>2, <2>5, <2>7, <3>2
    <3>3. CASE socketStrand' = Append(rest, cancel)
      BY <1>3, <2>2, <2>5, <2>6, <3>3
    <3>. QED  BY <2>2, <3>1, <3>2, <3>3
  <2>10. Writes(rest, writing) + 1 <= Served(writeQueue) + closes
    BY <1>2, <2>4
  <2>. QED  BY <1>1, <1>3, <2>2, <2>5, <2>8, <2>9, <2>10
<1>12. CASE \E error \in Error : CompleteWrite(error)
  <2>1. PICK error \in Error : CompleteWrite(error)
    BY <1>12
  <2>. DEFINE end == Completion("handleWrite", error)
  <2>2. end \in SocketTask /\ end \in WriteTasks
    BY <1>9
  <2>3. /\ socketStrand' = Append(socketStrand, end)
        /\ writing # NoMessage /\ writing' = NoMessage
        /\ closes' = closes /\ writeQueue' = writeQueue
    BY <2>1 DEF CompleteWrite, objectVars
  <2>. HIDE DEF end
  <2>4. Writes(socketStrand', NoMessage) = Writes(socketStrand, NoMessage) + 1
    BY <1>1, <2>2, <2>3, WritesFacts
  <2>5. Writes(socketStrand, NoMessage) + 1 = Writes(socketStrand, writing)
    <3>1. Count(WriteTasks, socketStrand) \in Nat
      BY <1>1, CountFacts
    <3>. QED  BY <2>3, <3>1 DEF Writes
  <2>. QED  BY <1>2, <2>3, <2>4, <2>5
<1>. QED  BY <1>4, <1>5, <1>7, <1>10, <1>11, <1>12, OnlyQueueSteps
     DEF WriteStep

(* At most one write is under way while the queue holds a message, and     *)
(* none while it holds none, whatever strands call send() at the same      *)
(* time; only a handler of close(), which clears the queue under a write,  *)
(* makes room for another, one each.                                       *)
THEOREM OneWrite == Spec => []OneWriteInFlight
<1>1. Init => FewWrites
  <2>. SUFFICES ASSUME Init PROVE FewWrites
    OBVIOUS
  <2>1. <<>> \in Seq(SocketTask)
    OBVIOUS
  <2>2. Count(WriteTasks, <<>>) = 0
    BY <2>1, CountFacts, NoneWaits
  <2>. QED  BY <2>2 DEF Init, FewWrites, Writes, Served
<1>2. TypeInv /\ FewWrites => OneWriteInFlight
  <2>. SUFFICES ASSUME TypeInv, FewWrites
                PROVE  OneWriteInFlight
    OBVIOUS
  <2>1. WriteTurns = Places(WriteTasks, socketStrand)
    BY DEF TypeInv, TypeOK, DataTypes, WriteTurns, WriteTasks, Places
  <2>2. Cardinality(WriteTurns) = Count(WriteTasks, socketStrand)
    BY <2>1 DEF Count
  <2>. QED  BY <2>2 DEF FewWrites, Writes, Served, OneWriteInFlight
<1>. QED  BY <1>1, <1>2, TypeInvariant, FewWritesInductive, PTL DEF Spec

(* As long as the socket is open, what is written is the front of          *)
(* writeQueue_, although Ping and Pong overtake waiting messages: the pop  *)
(* of handleWrite() removes the message that was written.                  *)
THEOREM FrontIsWritten == Spec => []FrontIsBeingWritten
<1>1. TypeInv /\ WriteInv => FrontIsBeingWritten
  <2>. SUFFICES ASSUME TypeInv, WriteInv, socketOpen
                PROVE  FrontIsBeingWritten
    BY DEF FrontIsBeingWritten
  <2>1. /\ WriteTurns = {i \in 1 .. Len(socketStrand) :
                           socketStrand[i] \in WriteTasks}
        /\ \A i \in 1 .. Len(socketStrand) : socketStrand[i] \in SocketTask
    BY DEF TypeInv, TypeOK, DataTypes, WriteTurns, WriteTasks
  <2>2. Consistent(writeQueue, socketStrand, writing)
    BY DEF WriteInv
  <2>3. \A i \in WriteTurns : writeQueue # <<>>
    BY <2>1, <2>2 DEF Consistent, Waits
  <2>4. \A i \in WriteTurns :
          socketStrand[i].op = "asyncWrite" =>
            socketStrand[i].message = Head(writeQueue)
    BY <2>1, <2>2 DEF Consistent, Waits, StaleWrites
  <2>. QED  BY <2>2, <2>3, <2>4 DEF FrontIsBeingWritten, Consistent
<1>. QED  BY <1>1, TypeInvariant, WriteInvariant, PTL

-----------------------------------------------------------------------------
(* No lost wakeup.  While the session is live nothing aborts its writes,   *)
(* so that handleWrite() always begins the next one.                       *)

Live ==
  /\ socketOpen
  /\ isConnected \/ Opening
  /\ closing = {}
  /\ Role = "server" \/ ~ownerActed

(* The handlers that abort the operations of the socket, or follow that.   *)
Aborting ==
  {task \in SocketTask : task.op = "cancel" \/ task.error = "aborted"}

Undisturbed == doomed = {} /\ ~Waits(Aborting, socketStrand)

Awake(q, strand, w) ==
  q # <<>> => w # NoMessage \/ Waits(WriteTasks, strand)

AwakeInv == Live => Undisturbed /\ Awake(writeQueue, socketStrand, writing)

(* A session that is not live does not come to life.                       *)
LEMMA LiveBefore ==
  ASSUME TypeInv, OpeningInv, Next, Live'
  PROVE  Live
<1>1. socketOpen
  BY DEF Live, Next, OwnerStep, SocketStep, TimerStep, NetworkStep,
     Open, OwnerClose, OwnerCancel, AsyncHandshake, HandleHandshake,
     HandleReadHeader, HandleReadBody, AsyncWrite, HandleWrite, CancelSocket,
     CloseSocket, Receive, OnReceived, ReceivedHandle, CommitClose,
     StampLastTimeRead, RestartReadTimer,
     CancelReadTimer, RunTimerTask, TimerExpires, HandleReadTimeOut,
     CheckReadTimeOut, CompleteRead, CompleteWrite, socketVars
<1>2. Role = "server" \/ ~ownerActed
  BY DEF Live, Next, OwnerStep, SocketStep, TimerStep, NetworkStep,
     Open, OwnerClose, OwnerCancel, AsyncHandshake, HandleHandshake,
     HandleReadHeader, HandleReadBody, AsyncWrite, HandleWrite, CancelSocket,
     CloseSocket, Receive, OnReceived, ReceivedHandle, CommitClose,
     StampLastTimeRead, RestartReadTimer,
     CancelReadTimer, RunTimerTask, TimerExpires, HandleReadTimeOut,
     CheckReadTimeOut, CompleteRead, CompleteWrite, objectVars
<1>3. Opening' => Opening
  BY OpeningEnds
<1>4. isConnected' => isConnected \/ Opening
  <2>1. Open \/ HandleHandshake => Opening
    <3>1. socketStrand \in Seq(SocketTask)
      BY DEF TypeInv, TypeOK, DataTypes
    <3>2. SocketTurn("handleHandshake") => Waits(HandshakeTasks, socketStrand)
      BY <3>1, TurnFacts DEF HandshakeTasks
    <3>. QED  BY <3>2 DEF Open, HandleHandshake, Opening
  <2>2. CASE ~Open /\ ~HandleHandshake
    BY <2>2 DEF Next, OwnerStep, SocketStep, TimerStep, NetworkStep,
       OwnerClose, OwnerCancel, AsyncHandshake, HandleReadHeader,
       HandleReadBody, AsyncWrite, HandleWrite, CancelSocket, CloseSocket,
       Receive, OnReceived, ReceivedHandle, CommitClose, StampLastTimeRead,
       RestartReadTimer,
       CancelReadTimer, RunTimerTask, TimerExpires, HandleReadTimeOut,
       CheckReadTimeOut, CompleteRead, CompleteWrite, objectVars
  <2>. QED  BY <2>1, <2>2
<1>5. closing = {}
  <2>1. CASE \E context \in Context : CommitClose(context)
    <3>1. closing # {} /\ isConnected' = FALSE
      BY <2>1 DEF CommitClose
    <3>2. ~Opening
      BY <3>1 DEF OpeningInv, Quiet
    <3>. QED  BY <1>3, <3>1, <3>2 DEF Live
  <2>2. CASE \A context \in Context : ~CommitClose(context)
    <3>1. closing \subseteq closing'
      BY <2>2 DEF Next, OwnerStep, SocketStep, TimerStep, NetworkStep,
         Open, OwnerClose, OwnerCancel, AsyncHandshake, HandleHandshake,
         HandshakeSucceeded, HandshakeAborted, HandshakeFailed,
         HandleReadHeader, HandleReadBody, ReadAbandoned, ReadFailed,
         MessageRead, BodyFollows, AsyncWrite, HandleWrite, CancelSocket,
         CloseSocket, Receive, OnReceived, ReceivedHandle, StampLastTimeRead,
         RestartReadTimer,
         CancelReadTimer, RunTimerTask, TimerExpires, HandleReadTimeOut,
         CheckReadTimeOut, CompleteRead, CompleteWrite, CallClose, objectVars
    <3>. QED  BY <3>1 DEF Live
  <2>. QED  BY <2>1, <2>2
<1>. QED  BY <1>1, <1>2, <1>3, <1>4, <1>5 DEF Live

(* A live session that stays live has no step inside close().              *)
LEMMA LiveNoClose ==
  ASSUME Live, Live', ~Opening, NEW context, NEW strand, NEW timers
  PROVE  ~CallClose(context, isConnected, strand, timers)
BY DEF Live, CallClose

(* What an opened session has in its strands.                              *)
LEMMA NotOpening ==
  ASSUME TypeInv, OpeningInv,
         \/ \E op \in {"handleReadHeader", "handleReadBody", "asyncWrite",
                       "handleWrite"} : SocketTurn(op)
         \/ readStrand # <<>>
         \/ timerStrand # <<>>
         \/ stage = "open"
  PROVE  ~Opening
<1>1. ASSUME NEW op \in {"handleReadHeader", "handleReadBody", "asyncWrite",
                         "handleWrite"}, SocketTurn(op)
      PROVE  Waits(BusyTasks, socketStrand)
  BY <1>1, TurnFacts DEF TypeInv, TypeOK, DataTypes, BusyTasks
<1>. QED  BY <1>1 DEF OpeningInv, Quiet

(* Only close() and the client's cancel disturb the operations of the      *)
(* socket, and after them the session is not live.                         *)
LEMMA LiveUndisturbed ==
  ASSUME TypeInv, OpeningInv, Next, Live, Live', Undisturbed
  PROVE  Undisturbed'
<1>1. /\ socketStrand \in Seq(SocketTask)
      /\ writeQueue \in Seq(Message)
      /\ readStrand \in Seq(1 .. MaxFrames)
  BY DEF TypeInv, TypeOK, DataTypes
<1>. DEFINE rest == Tail(socketStrand)
<1>2. ASSUME NEW op, SocketTurn(op)
      PROVE  /\ rest \in Seq(SocketTask)
             /\ ~Waits(Aborting, rest)
             /\ Head(socketStrand) \in SocketTask
             /\ Head(socketStrand) \notin Aborting
  BY <1>1, <1>2, TurnFacts DEF Undisturbed
<1>3. Head(socketStrand) \in SocketTask /\ Head(socketStrand) \notin Aborting
      => /\ Head(socketStrand).op # "cancel"
         /\ Head(socketStrand).error # "aborted"
  BY DEF Aborting
<1>4. ~Waits(Aborting, socketStrand) /\ doomed = {}
  BY DEF Undisturbed
<1>. HIDE DEF rest
<1>5. \A msg \in Message : WriteTask(msg) \notin Aborting
  BY DEF WriteTask, Aborting
<1>6. ASSUME NEW strand \in Seq(SocketTask), ~Waits(Aborting, strand),
             NEW m \in Message, Send(m, strand)
      PROVE  ~Waits(Aborting, socketStrand')
  BY <1>1, <1>5, <1>6, WaitsPost DEF Send
<1>7. doomed' = {}
  <2>1. ~CancelSocket /\ ~CloseSocket
    BY <1>2, <1>3 DEF CancelSocket, CloseSocket, SocketTurn, Live
  <2>2. doomed' \subseteq doomed
    BY <2>1 DEF Next, OwnerStep, SocketStep, TimerStep, NetworkStep,
       Open, OwnerClose, OwnerCancel, AsyncHandshake, HandleHandshake,
       HandleReadHeader, HandleReadBody, AsyncWrite, HandleWrite, Receive,
       OnReceived, ReceivedHandle,
       CommitClose, StampLastTimeRead, RestartReadTimer, CancelReadTimer,
       RunTimerTask, TimerExpires, HandleReadTimeOut, CheckReadTimeOut,
       CompleteRead, CompleteWrite, socketVars
  <2>. QED  BY <1>4, <2>2
<1>8. SUFFICES ~Waits(Aborting, socketStrand')
  BY <1>7 DEF Undisturbed
<1>9. CASE Open
  <2>1. /\ Task("asyncHandshake") \in SocketTask
        /\ Task("asyncHandshake") \notin Aborting
    BY TaskTypes DEF Task, Aborting
  <2>. QED  BY <1>1, <1>4, <1>9, <2>1, WaitsAppend DEF Open
<1>10. ~OwnerClose
  BY NotOpening, LiveNoClose DEF OwnerClose
<1>11. ~OwnerCancel
  BY DEF OwnerCancel, Live
<1>12. CASE AsyncHandshake
  BY <1>2, <1>12 DEF AsyncHandshake, rest
<1>13. CASE HandleHandshake
  <2>1. ~HandshakeAborted
    BY <1>2, <1>3, <1>13 DEF HandleHandshake, HandshakeAborted
  <2>2. ~HandshakeFailed
    BY DEF HandshakeFailed, CallClose, Live
  <2>3. OpenHandler(rest)
    BY <1>13, <2>1, <2>2 DEF HandleHandshake, HandshakeSucceeded, rest
  <2>. QED  BY <1>2, <1>6, <1>13, <2>3, TaskTypes
       DEF HandleHandshake, OpenHandler
<1>14. CASE HandleReadHeader \/ HandleReadBody
  <2>1. ~Opening
    BY <1>14, NotOpening DEF HandleReadHeader, HandleReadBody
  <2>2. ~ReadFailed
    BY <2>1, LiveNoClose DEF ReadFailed
  <2>3. ReadAbandoned \/ MessageRead \/ BodyFollows
    BY <1>14, <2>2 DEF HandleReadHeader, HandleReadBody
  <2>4. /\ rest \in Seq(SocketTask)
        /\ ~Waits(Aborting, rest)
    BY <1>2, <1>14 DEF HandleReadHeader, HandleReadBody
  <2>5. CASE ReadAbandoned \/ BodyFollows
    BY <2>4, <2>5 DEF ReadAbandoned, BodyFollows, rest
  <2>6. CASE MessageRead
    <3>1. OnMessageReceived(rest)
      BY <2>6 DEF MessageRead, rest
    <3>. QED  BY <1>6, <2>4, <3>1, TaskTypes DEF OnMessageReceived
  <2>. QED  BY <2>3, <2>5, <2>6
<1>15. CASE Receive
  <2>1. readStrand # <<>>
    BY <1>15 DEF Receive, OnReceived, ReceivedHandle, ReadTurn
  <2>2. Data(Head(readStrand)) \in Message
    BY <1>1, <2>1, TailFacts, TaskTypes, SessionAssumption
  <2>3. ~CallClose("read", isConnected, socketStrand, timerStrand)
    BY <2>1, NotOpening, LiveNoClose
  <2>. QED  BY <1>1, <1>4, <1>6, <1>15, <2>2, <2>3 DEF Receive, OnReceived,
                                                       ReceivedHandle
<1>16. CASE AsyncWrite
  BY <1>2, <1>16 DEF AsyncWrite, Live, rest
<1>17. CASE HandleWrite
  <2>1. /\ rest \in Seq(SocketTask)
        /\ ~Waits(Aborting, rest)
    BY <1>2, <1>17 DEF HandleWrite
  <2>2. ~CallClose("write", isConnected, rest, timerStrand)
    BY <1>17, NotOpening, LiveNoClose DEF HandleWrite
  <2>3. socketStrand' \in {rest, WriteNext(Dequeue(writeQueue), rest)}
    BY <1>17, <2>2 DEF HandleWrite, rest
  <2>4. Dequeue(writeQueue) \in Seq(Message) /\ Ping \in Message
    BY <1>1, DequeueFacts, TaskTypes
  <2>5. ~Waits(Aborting, WriteNext(Dequeue(writeQueue), rest))
    BY <1>5, <2>1, <2>4, WaitsPost
  <2>. QED  BY <2>1, <2>3, <2>5
<1>18. CASE CancelSocket \/ CloseSocket
  BY <1>2, <1>3, <1>18 DEF CancelSocket, CloseSocket, SocketTurn, Live
<1>19. CASE \/ StampLastTimeRead \/ RestartReadTimer \/ CancelReadTimer
            \/ TimerExpires \/ HandleReadTimeOut
  BY <1>4, <1>19 DEF StampLastTimeRead, RestartReadTimer, CancelReadTimer,
     RunTimerTask, TimerExpires, HandleReadTimeOut, strandVars
<1>20. CASE CheckReadTimeOut
  <2>1. ~CallClose("timer", isConnected, socketStrand, Tail(timerStrand))
    BY <1>20, NotOpening, LiveNoClose DEF CheckReadTimeOut, TimerTurn
  <2>. QED  BY <1>1, <1>4, <1>6, <1>20, <2>1, TaskTypes DEF CheckReadTimeOut
<1>21. CASE \E context \in Context : CommitClose(context)
  BY <1>21 DEF CommitClose, Live
<1>22. CASE NetworkStep
  <2>1. PICK error \in Error : CompleteRead(error) \/ CompleteWrite(error)
    BY <1>22 DEF NetworkStep
  <2>2. error # "aborted"
    BY <1>4, <2>1 DEF CompleteRead, CompleteWrite
  <2>3. PICK op \in {"handleHandshake", "handleReadHeader", "handleReadBody",
                     "handleWrite"} :
          socketStrand' = Append(socketStrand, Completion(op, error))
    BY <2>1 DEF CompleteRead, CompleteWrite, CompletionHandler, TypeInv,
       TypeOK, DataTypes
  <2>4. /\ Completion(op, error) \in SocketTask
        /\ Completion(op, error) \notin Aborting
    BY <2>2, TaskTypes DEF Completion, Aborting
  <2>. QED  BY <1>1, <1>4, <2>3, <2>4, WaitsAppend
<1>. QED
  BY <1>9, <1>10, <1>11, <1>12, <1>13, <1>14, <1>15, <1>16, <1>17, <1>18,
     <1>19, <1>20, <1>21, <1>22
  DEF Next, OwnerStep, SocketStep, TimerStep

(* While a live session stays live, whoever empties or fills the queue     *)
(* leaves a write under way if a message waits.                            *)
LEMMA LiveAwake ==
  ASSUME TypeInv, OpeningInv, WriteInv, Next, Live, Live', Undisturbed,
         Awake(writeQueue, socketStrand, writing)
  PROVE  Awake(writeQueue', socketStrand', writing')
<1>1. /\ socketStrand \in Seq(SocketTask)
      /\ writeQueue \in Seq(Message)
  BY DEF TypeInv, TypeOK, DataTypes
<1>2. CASE QueueStep
  <2>1. PICK strand \in Seq(SocketTask) : Taken(strand) /\ Posted(strand)
    BY <1>2 DEF QueueStep
  <2>2. Awake(writeQueue, strand, writing)
    BY <1>1, <2>1, WaitsTail DEF Taken, Awake
  <2>3. writing' = writing
    BY <1>2 DEF QueueStep
  <2>4. ASSUME NEW m \in Message, Send(m, strand)
        PROVE  Awake(writeQueue', socketStrand', writing')
    <3>1. CASE writeQueue = <<>>
      <4>1. /\ WriteTask(m) \in SocketTask
            /\ WriteTask(m) \in WriteTasks
            /\ socketStrand' = Append(strand, WriteTask(m))
        BY <2>4, <3>1, TaskTypes, StaleFacts DEF Send, PostIfIdle
      <4>. QED  BY <4>1, WaitsAppend DEF Awake
    <3>2. CASE writeQueue # <<>>
      <4>1. socketStrand' = strand
        BY <2>4, <3>2 DEF Send, PostIfIdle
      <4>. QED  BY <2>2, <2>3, <3>2, <4>1 DEF Awake
    <3>. QED  BY <3>1, <3>2
  <2>5. ASSUME NEW task \in SocketTask \ WriteTasks,
               socketStrand' = Append(strand, task)
        PROVE  Waits(WriteTasks, strand) => Waits(WriteTasks, socketStrand')
    BY <2>5, WaitsAppend
  <2>. QED  BY <2>1, <2>2, <2>3, <2>4, <2>5 DEF Posted, Awake
<1>3. CASE AsyncWrite
  <2>1. /\ Head(socketStrand) \in SocketTask
        /\ Head(socketStrand).op = "asyncWrite"
        /\ \A tasks : Head(socketStrand) \in tasks
                      => Waits(tasks, socketStrand)
    BY <1>1, <1>3, TurnFacts DEF AsyncWrite
  <2>2. Consistent(writeQueue, socketStrand, writing)
    BY DEF WriteInv, Live
  <2>3. /\ Waits(WriteTasks, socketStrand)
        /\ Head(socketStrand) \notin StaleWrites(writeQueue)
    BY <2>1, <2>2 DEF Consistent, WriteTasks
  <2>4. writeQueue # <<>> /\ Head(socketStrand).message = Head(writeQueue)
    BY <2>1, <2>2, <2>3 DEF Consistent, StaleWrites
  <2>5. writing' = Head(writeQueue)
    BY <1>3, <2>4 DEF AsyncWrite, Live
  <2>6. Head(writeQueue) \in Message
    BY <1>1, <2>4
  <2>7. NoMessage \notin Message
    BY DEF NoMessage, Message, MessageType
  <2>. QED  BY <2>5, <2>6, <2>7 DEF Awake
<1>4. CASE HandleWrite
  <2>. DEFINE rest == Tail(socketStrand)
              queue == Dequeue(writeQueue)
  <2>1. rest \in Seq(SocketTask) /\ queue \in Seq(Message)
    BY <1>1, <1>4, TurnFacts, DequeueFacts DEF HandleWrite
  <2>2. Head(socketStrand).error # "aborted"
    BY <1>1, <1>4, TurnFacts DEF HandleWrite, Undisturbed, Aborting
  <2>3. ~CallClose("write", isConnected, rest, timerStrand)
    BY <1>4, NotOpening, LiveNoClose DEF HandleWrite
  <2>4. writeQueue' = queue /\ socketStrand' = WriteNext(queue, rest)
    BY <1>4, <2>2, <2>3 DEF HandleWrite
  <2>. HIDE DEF rest, queue
  <2>5. CASE queue # <<>>
    <3>1. /\ WriteTask(Head(queue)) \in SocketTask
          /\ WriteTask(Head(queue)) \in WriteTasks
      BY <2>1, <2>5, TaskTypes, StaleFacts
    <3>2. socketStrand' = Append(rest, WriteTask(Head(queue)))
      BY <2>4, <2>5 DEF WriteNext
    <3>. QED  BY <2>1, <3>1, <3>2, WaitsAppend DEF Awake
  <2>6. CASE queue = <<>>
    BY <2>4, <2>6 DEF Awake
  <2>. QED  BY <2>5, <2>6
<1>5. CASE \E error \in Error : CompleteWrite(error)
  <2>1. PICK error \in Error : CompleteWrite(error)
    BY <1>5
  <2>. DEFINE end == Completion("handleWrite", error)
  <2>2. end \in SocketTask /\ end \in WriteTasks
    BY TaskTypes DEF Completion, WriteTasks
  <2>3. socketStrand' = Append(socketStrand, end)
    BY <2>1 DEF CompleteWrite
  <2>. HIDE DEF end
  <2>. QED  BY <1>1, <2>2, <2>3, WaitsAppend DEF Awake
<1>6. ~CloseSocket
  BY DEF CloseSocket, Live
<1>. QED  BY <1>2, <1>3, <1>4, <1>5, <1>6, OnlyQueueSteps DEF WriteStep

(* AwakeInv is inductive.                                                  *)
LEMMA AwakeInvInductive ==
  TypeInv /\ OpeningInv /\ WriteInv /\ AwakeInv /\ [Next]_vars => AwakeInv'
<1>. SUFFICES ASSUME TypeInv, OpeningInv, WriteInv, AwakeInv, [Next]_vars,
                     Live'
              PROVE  Undisturbed' /\ Awake(writeQueue', socketStrand', writing')
  BY DEF AwakeInv
<1>1. CASE Next
  <2>1. /\ Live
        /\ Undisturbed
        /\ Awake(writeQueue, socketStrand, writing)
    BY <1>1, LiveBefore DEF AwakeInv
  <2>. QED  BY <1>1, <2>1, LiveUndisturbed, LiveAwake
<1>2. CASE UNCHANGED vars
  BY <1>2 DEF AwakeInv, Live, Opening, Undisturbed, vars, objectVars,
     strandVars, socketVars
<1>. QED  BY <1>1, <1>2

(* Init has no message and no cancel; every reachable state satisfies it.  *)
LEMMA AwakeInvariant == Spec => []AwakeInv
<1>1. Init => AwakeInv
  BY DEF Init, AwakeInv, Undisturbed, Awake, Waits
<1>. QED  BY <1>1, TypeInvariant, OpeningInvariant, WriteInvariant,
     AwakeInvInductive, PTL DEF Spec

(* No lost wakeup: as long as a session is connected and open, nobody is   *)
(* inside close() and the client did not cancel, a message in writeQueue_  *)
(* has a write under way that will lead to its own.                        *)
THEOREM NoWakeupIsLost == Spec => []NoLostWakeup
<1>1. TypeInv /\ AwakeInv => NoLostWakeup
  <2>. SUFFICES ASSUME TypeInv, AwakeInv, Live, writeQueue # <<>>
                PROVE  writing # NoMessage \/ WriteTurns # {}
    BY DEF NoLostWakeup, Live
  <2>1. writing # NoMessage \/ Waits(WriteTasks, socketStrand)
    BY DEF AwakeInv, Awake
  <2>. QED  BY <2>1 DEF TypeInv, TypeOK, DataTypes, Waits, WriteTurns,
       WriteTasks
<1>. QED  BY <1>1, TypeInvariant, AwakeInvariant, PTL

-----------------------------------------------------------------------------
(* The handshake and the reads take turns: of their operations and their   *)
(* handlers there is at most one.                                          *)

ReadTasks ==
  {task \in SocketTask :
     task.op \in {"asyncHandshake", "handleHandshake", "handleReadHeader",
                  "handleReadBody"}}

OneRead ==
  /\ AtMostOneWaits(ReadTasks, socketStrand)
  /\ reading # "none" => ~Waits(ReadTasks, socketStrand)
  /\ stage = "new" => reading = "none" /\ ~Waits(ReadTasks, socketStrand)

(* The handlers that start the next operation, or none.                    *)
ReadTurns == AsyncHandshake \/ HandleHandshake \/ HandleReadHeader
             \/ HandleReadBody

(* Such a handler was the only one: none waits behind it, and nothing is   *)
(* being read.                                                             *)
LEMMA ReadTurnFacts ==
  ASSUME TypeInv, OneRead,
         NEW op \in {"asyncHandshake", "handleHandshake", "handleReadHeader",
                     "handleReadBody"}, SocketTurn(op)
  PROVE  /\ Waits(ReadTasks, socketStrand)
         /\ ~Waits(ReadTasks, Tail(socketStrand))
         /\ Tail(socketStrand) \in Seq(SocketTask)
         /\ reading = "none"
         /\ stage # "new"
<1>1. /\ socketStrand \in Seq(SocketTask)
      /\ socketStrand # <<>>
      /\ Head(socketStrand) \in ReadTasks
      /\ Tail(socketStrand) \in Seq(SocketTask)
  BY TurnFacts DEF TypeInv, TypeOK, DataTypes, SocketTurn, ReadTasks
<1>2. /\ Waits(ReadTasks, socketStrand)
      /\ ~Waits(ReadTasks, Tail(socketStrand))
  BY <1>1, WaitsTail DEF OneRead
<1>. QED  BY <1>1, <1>2 DEF OneRead

(* It posts none itself.                                                   *)
LEMMA ReadTurnPosts ==
  ASSUME TypeInv, OneRead, ReadTurns
  PROVE  ~Waits(ReadTasks, socketStrand') /\ stage' # "new"
<1>. DEFINE rest == Tail(socketStrand)
<1>1. PICK op \in {"asyncHandshake", "handleHandshake", "handleReadHeader",
                   "handleReadBody"} : SocketTurn(op)
  BY DEF ReadTurns, AsyncHandshake, HandleHandshake, HandleReadHeader,
         HandleReadBody
<1>2. rest \in Seq(SocketTask) /\ ~Waits(ReadTasks, rest) /\ stage # "new"
  BY <1>1, ReadTurnFacts
<1>3. ReadTasks \cap Ordinary = {}
  BY DEF ReadTasks, Ordinary
<1>4. stage' # "new"
  BY <1>2 DEF ReadTurns, AsyncHandshake, HandleHandshake, HandshakeSucceeded,
     HandshakeAborted, HandshakeFailed, HandleReadHeader, HandleReadBody,
     objectVars
<1>5. \/ socketStrand' = rest
      \/ \E m \in Message : Send(m, rest)
      \/ \E context \in Context, connected \in BOOLEAN :
           \E timers : CallClose(context, connected, rest, timers)
  <2>1. CASE AsyncHandshake
    BY <2>1 DEF AsyncHandshake
  <2>2. CASE HandleHandshake
    BY <2>2, TaskTypes DEF HandleHandshake, HandshakeSucceeded,
       HandshakeAborted, HandshakeFailed, OpenHandler, Context
  <2>3. CASE HandleReadHeader \/ HandleReadBody
    <3>1. ReadAbandoned \/ ReadFailed \/ MessageRead \/ BodyFollows
      BY <2>3 DEF HandleReadHeader, HandleReadBody
    <3>2. isConnected \in BOOLEAN
      BY DEF TypeInv, TypeOK, FlagTypes
    <3>. HIDE DEF rest
    <3>3. ReadFailed =>
            \E timers : CallClose("socket", isConnected, rest, timers)
      BY DEF ReadFailed, rest
    <3>4. MessageRead => OnMessageReceived(rest)
      BY DEF MessageRead, rest
    <3>5. ReadAbandoned \/ BodyFollows => socketStrand' = rest
      BY DEF ReadAbandoned, BodyFollows, rest
    <3>6. "socket" \in Context
      BY DEF Context
    <3>. QED  BY <3>1, <3>2, <3>3, <3>4, <3>5, <3>6, TaskTypes
         DEF OnMessageReceived
  <2>. QED  BY <2>1, <2>2, <2>3 DEF ReadTurns
<1>6. writeQueue \in Seq(Message)
  BY DEF TypeInv, TypeOK, DataTypes
<1>. HIDE DEF rest
<1>. QED  BY <1>2, <1>3, <1>4, <1>5, <1>6, SendPosts, CallClosePosts
     DEF PostsNoMore

(* OneRead is inductive.                                                   *)
LEMMA OneReadInductive == TypeInv /\ OneRead /\ [Next]_vars => OneRead'
<1>. SUFFICES ASSUME TypeInv, OneRead, [Next]_vars PROVE OneRead'
  OBVIOUS
<1>1. socketStrand \in Seq(SocketTask)
  BY DEF TypeInv, TypeOK, DataTypes
<1>2. ReadTasks \cap Ordinary = {}
  BY DEF ReadTasks, Ordinary
<1>3. ASSUME ~Waits(ReadTasks, socketStrand')
      PROVE  AtMostOneWaits(ReadTasks, socketStrand')
  BY <1>3, NoneWaits
<1>4. CASE UNCHANGED vars
  BY <1>4 DEF vars, objectVars, strandVars, socketVars, OneRead
<1>5. CASE ReadTurns
  BY <1>3, <1>5, ReadTurnPosts DEF OneRead
<1>6. CASE Open
  <2>1. Task("asyncHandshake") \in SocketTask
    BY TaskTypes
  <2>2. AtMostOneWaits(ReadTasks, socketStrand') /\ reading' = "none"
        /\ stage' # "new"
    BY <1>1, <1>6, <2>1, WaitsAppend DEF Open, OneRead, socketVars
  <2>. QED  BY <2>2 DEF OneRead
<1>7. CASE \E error \in Error : CompleteRead(error)
  <2>1. PICK error \in Error : CompleteRead(error)
    BY <1>7
  <2>2. Completion(CompletionHandler[reading], error) \in SocketTask
    BY <2>1, TaskTypes DEF CompleteRead, CompletionHandler, TypeInv, TypeOK,
       DataTypes
  <2>3. ~Waits(ReadTasks, socketStrand) /\ stage # "new"
    BY <2>1 DEF OneRead, CompleteRead
  <2>4. AtMostOneWaits(ReadTasks, socketStrand') /\ reading' = "none"
        /\ stage' = stage
    BY <1>1, <2>1, <2>2, <2>3, WaitsAppend DEF CompleteRead, OneRead, objectVars
  <2>. QED  BY <2>3, <2>4 DEF OneRead
<1>8. CASE \E context \in Context : CommitClose(context)
  <2>1. Task("close") \in SocketTask /\ Task("close") \notin ReadTasks
    BY TaskTypes DEF Task, ReadTasks
  <2>2. /\ Waits(ReadTasks, socketStrand') <=> Waits(ReadTasks, socketStrand)
        /\ AtMostOneWaits(ReadTasks, socketStrand')
    BY <1>1, <1>8, <2>1, WaitsAppend DEF CommitClose, OneRead
  <2>. QED  BY <1>8, <2>2 DEF OneRead, CommitClose, socketVars
<1>9. CASE Next /\ ~StageStep /\ ~ReadTurns
  <2>1. /\ Waits(ReadTasks, socketStrand') => Waits(ReadTasks, socketStrand)
        /\ AtMostOneWaits(ReadTasks, socketStrand')
    BY <1>1, <1>2, <1>9, OrdinaryStep, NoMoreFacts DEF PostsNoMore, OneRead
  <2>2. stage' = stage /\ reading' = reading
    BY <1>9 DEF Next, OwnerStep, SocketStep, TimerStep, NetworkStep,
       StageStep, ReadTurns, OwnerClose, OwnerCancel,
       Receive, OnReceived, ReceivedHandle, AsyncWrite, HandleWrite,
       CancelSocket, CloseSocket,
       StampLastTimeRead, RestartReadTimer, CancelReadTimer, RunTimerTask,
       TimerExpires, HandleReadTimeOut, CheckReadTimeOut, CompleteWrite,
       objectVars, socketVars
  <2>. QED  BY <2>1, <2>2 DEF OneRead
<1>. QED  BY <1>4, <1>5, <1>6, <1>7, <1>8, <1>9 DEF StageStep

(* It holds at first, and so for ever.                                     *)
LEMMA OneReadInvariant == Spec => []OneRead
<1>1. Init => OneRead
  BY NoneWaits DEF Init, OneRead
<1>. QED  BY <1>1, TypeInvariant, OneReadInductive, PTL DEF Spec

-----------------------------------------------------------------------------
(* Every read is guarded.                                                  *)

Restarts == {"restart", "again"}

(* The timer's strand holds an expiry, or a restart that stands.           *)
Watched(line) ==
  \E i \in 1 .. Len(line) :
    \/ line[i] = "timeout"
    \/ /\ line[i] \in Restarts
       /\ \A j \in i + 1 .. Len(line) : line[j] # "cancel"

Guarded ==
  \/ timerArmed /\ ~Waits({"cancel"}, timerStrand)
  \/ fired > 0
  \/ Watched(timerStrand)

(* A session that waits for its peer.                                      *)
Exposed ==
  /\ socketOpen
  /\ isConnected
  /\ closing = {}
  /\ reading \in {"header", "body"}

GuardInv == Exposed => Guarded

(* A restart that is posted stands, and another handler lets it stand      *)
(* unless it is a cancel.                                                  *)
LEMMA WatchedAppend ==
  ASSUME NEW line \in Seq(TimerTask), NEW task \in TimerTask
  PROVE  /\ task \in Restarts \cup {"timeout"} => Watched(Append(line, task))
         /\ Watched(line) /\ task # "cancel" => Watched(Append(line, task))
<1>. DEFINE longer == Append(line, task)
            end == Len(line) + 1
<1>1. /\ Len(line) \in Nat
      /\ Len(longer) = end
      /\ \A i \in 1 .. Len(line) : longer[i] = line[i]
      /\ longer[end] = task
  BY AppendFacts
<1>. HIDE DEF longer
<1>2. ASSUME task \in Restarts \cup {"timeout"} PROVE Watched(longer)
  <2>1. end \in 1 .. Len(longer) /\ \A j \in end + 1 .. Len(longer) : FALSE
    BY <1>1
  <2>. QED  BY <1>1, <1>2, <2>1 DEF Watched
<1>3. ASSUME Watched(line), task # "cancel" PROVE Watched(longer)
  <2>1. PICK i \in 1 .. Len(line) :
          \/ line[i] = "timeout"
          \/ /\ line[i] \in Restarts
             /\ \A j \in i + 1 .. Len(line) : line[j] # "cancel"
    BY <1>3 DEF Watched
  <2>2. \A j \in i + 1 .. Len(longer) : j = end \/ j \in i + 1 .. Len(line)
    BY <1>1
  <2>3. i \in 1 .. Len(longer) /\ longer[i] = line[i]
    BY <1>1
  <2>4. line[i] \in Restarts =>
          \A j \in i + 1 .. Len(longer) : longer[j] # "cancel"
    BY <1>1, <1>3, <2>1, <2>2 DEF Restarts
  <2>. QED  BY <2>1, <2>3, <2>4 DEF Watched
<1>. QED  BY <1>2, <1>3 DEF longer

(* The handler that runs was the one that mattered, or that is still there.*)
LEMMA WatchedTail ==
  ASSUME NEW line \in Seq(TimerTask), line # <<>>, Watched(line)
  PROVE  \/ Watched(Tail(line))
         \/ Head(line) = "timeout"
         \/ Head(line) \in Restarts /\ ~Waits({"cancel"}, Tail(line))
<1>. DEFINE rest == Tail(line)
<1>1. /\ Len(line) \in Nat \ {0}
      /\ Len(rest) = Len(line) - 1
      /\ \A i \in 1 .. Len(line) - 1 : rest[i] = line[i + 1]
      /\ Head(line) = line[1]
  BY TailFacts
<1>. HIDE DEF rest
<1>2. PICK i \in 1 .. Len(line) :
        \/ line[i] = "timeout"
        \/ /\ line[i] \in Restarts
           /\ \A j \in i + 1 .. Len(line) : line[j] # "cancel"
  BY DEF Watched
<1>3. line[i] \in Restarts => \A j \in i .. Len(rest) : rest[j] # "cancel"
  BY <1>1, <1>2 DEF Restarts
<1>4. CASE i = 1
  BY <1>1, <1>2, <1>3, <1>4 DEF Waits, rest
<1>5. CASE i # 1
  <2>1. i - 1 \in 1 .. Len(rest) /\ rest[i - 1] = line[i]
        /\ (i - 1) + 1 = i
    BY <1>1, <1>5
  <2>2. Watched(rest)
    BY <1>2, <1>3, <2>1 DEF Watched
  <2>. QED  BY <2>2 DEF rest
<1>. QED  BY <1>4, <1>5

(* The steps that start a read restart the timer.                          *)
LEMMA StartGuards ==
  ASSUME TypeInv, ReadTurns, OneRead, Exposed'
  PROVE  Guarded'
<1>1. timerStrand \in Seq(TimerTask)
  BY DEF TypeInv, TypeOK, DataTypes
<1>2. reading = "none"
  BY ReadTurnFacts DEF ReadTurns, AsyncHandshake, HandleHandshake,
     HandleReadHeader, HandleReadBody
<1>3. ASSUME NEW line \in Seq(TimerTask), timerStrand' = Append(line, "restart")
      PROVE  Guarded'
  BY <1>3, WatchedAppend DEF Guarded, TimerTask, Restarts
<1>4. \A task \in {"stamp", "cancel"} :
        Append(timerStrand, task) \in Seq(TimerTask)
  BY <1>1, AppendFacts DEF TimerTask
<1>5. CASE AsyncHandshake
  BY <1>5 DEF AsyncHandshake, Exposed
<1>6. CASE HandleHandshake
  BY <1>2, <1>3, <1>4, <1>6 DEF HandleHandshake, HandshakeSucceeded,
     HandshakeAborted, HandshakeFailed, CallClose, Exposed
<1>7. CASE HandleReadHeader \/ HandleReadBody
  <2>1. ReadAbandoned \/ ReadFailed \/ MessageRead \/ BodyFollows
    BY <1>7 DEF HandleReadHeader, HandleReadBody
  <2>2. MessageRead \/ BodyFollows
    BY <1>2, <2>1 DEF ReadAbandoned, ReadFailed, Exposed
  <2>. QED  BY <1>3, <1>4, <2>2 DEF MessageRead, BodyFollows, StartRead
<1>. QED  BY <1>5, <1>6, <1>7 DEF ReadTurns

(* The steps of the timer keep its guard.                                  *)
TimerSteps == TimerStep \/ TimerExpires \/ HandleReadTimeOut

LEMMA TimerGuards ==
  ASSUME TypeInv, TimerSteps, Exposed', Exposed => Guarded
  PROVE  Guarded'
<1>1. timerStrand \in Seq(TimerTask) /\ fired \in Nat
  BY DEF TypeInv, TypeOK, DataTypes
<1>. DEFINE rest == Tail(timerStrand)
<1>2. timerStrand # <<>> =>
        /\ rest \in Seq(TimerTask)
        /\ \A tasks :
             Waits(tasks, timerStrand)
               <=> Head(timerStrand) \in tasks \/ Waits(tasks, rest)
  BY <1>1, TailFacts, WaitsTail
<1>3. Guarded
  <2>1. /\ UNCHANGED <<socketOpen, isConnected, reading>>
        /\ closing \subseteq closing'
    BY DEF TimerSteps, TimerStep, StampLastTimeRead, RestartReadTimer,
       CancelReadTimer, RunTimerTask, TimerExpires, HandleReadTimeOut,
       CheckReadTimeOut, CallClose, objectVars, socketVars
  <2>. QED  BY <2>1 DEF Exposed
<1>. HIDE DEF rest
<1>4. CASE StampLastTimeRead
  <2>1. /\ timerStrand # <<>> /\ Head(timerStrand) = "stamp"
        /\ timerStrand' = rest /\ timerArmed' = timerArmed /\ fired' = fired
    BY <1>4 DEF StampLastTimeRead, RunTimerTask, TimerTurn, rest
  <2>2. Watched(timerStrand) => Watched(rest)
    BY <1>1, <2>1, WatchedTail DEF Restarts, rest
  <2>. QED  BY <1>2, <1>3, <2>1, <2>2 DEF Guarded, Restarts
<1>5. CASE RestartReadTimer
  <2>1. /\ timerStrand # <<>> /\ Head(timerStrand) \in Restarts
        /\ timerStrand' = rest /\ timerArmed' = TRUE /\ fired' = fired
    BY <1>5 DEF RestartReadTimer, RunTimerTask, TimerTurn, Restarts, rest
  <2>2. Watched(timerStrand) => Watched(rest) \/ ~Waits({"cancel"}, rest)
    BY <1>1, <2>1, WatchedTail DEF Restarts, rest
  <2>. QED  BY <1>2, <1>3, <2>1, <2>2 DEF Guarded, Restarts
<1>6. CASE CancelReadTimer
  <2>1. /\ timerStrand # <<>> /\ Head(timerStrand) = "cancel"
        /\ timerStrand' = rest /\ fired' = fired
    BY <1>6 DEF CancelReadTimer, RunTimerTask, TimerTurn, rest
  <2>2. Watched(timerStrand) => Watched(rest)
    BY <1>1, <2>1, WatchedTail DEF Restarts, rest
  <2>. QED  BY <1>2, <1>3, <2>1, <2>2 DEF Guarded, Restarts
<1>7. CASE CheckReadTimeOut
  <2>1. idle <= MaxTimeOut
    BY <1>7 DEF CheckReadTimeOut, CallClose, Exposed
  <2>2. timerStrand # <<>> /\ timerStrand' = Append(rest, "again")
    BY <1>7, <2>1 DEF CheckReadTimeOut, TimerTurn, rest, CallClose, Exposed
  <2>3. Watched(timerStrand')
    BY <1>2, <2>2, WatchedAppend DEF TimerTask, Restarts
  <2>. QED  BY <2>3 DEF Guarded
<1>8. CASE TimerExpires
  BY <1>1, <1>8 DEF TimerExpires, Guarded
<1>9. CASE HandleReadTimeOut
  <2>1. Watched(timerStrand')
    BY <1>1, <1>9, WatchedAppend DEF HandleReadTimeOut, TimerTask
  <2>. QED  BY <2>1 DEF Guarded
<1>. QED  BY <1>4, <1>5, <1>6, <1>7, <1>8, <1>9 DEF TimerSteps, TimerStep

(* Every other step leaves the timer alone, or leads into close(), or out  *)
(* of the read.                                                            *)
LEMMA OthersKeepGuard ==
  ASSUME TypeInv, OneRead, Next, ~ReadTurns, ~TimerSteps, Exposed'
  PROVE  Exposed /\ UNCHANGED <<timerArmed, fired, timerStrand>>
<1>1. CASE Open
  BY <1>1 DEF Open, OneRead, Exposed, socketVars
<1>2. CASE OwnerClose
  BY <1>2 DEF OwnerClose, CallClose, Exposed
<1>3. CASE OwnerCancel
  BY <1>3 DEF OwnerCancel, Exposed, socketVars, timerVars
<1>4. CASE Receive
  BY <1>4 DEF Receive, OnReceived, ReceivedHandle, CallClose, Exposed,
     socketVars, timerVars
<1>5. CASE AsyncWrite
  BY <1>5 DEF AsyncWrite, Exposed, objectVars, timerVars
<1>6. CASE HandleWrite
  BY <1>6 DEF HandleWrite, CallClose, Exposed, socketVars, timerVars
<1>7. CASE CancelSocket \/ CloseSocket
  BY <1>7 DEF CancelSocket, CloseSocket, Exposed, objectVars, timerVars
<1>8. CASE \E context \in Context : CommitClose(context)
  BY <1>8 DEF CommitClose, Exposed
<1>9. CASE \E error \in Error : CompleteRead(error)
  BY <1>9 DEF CompleteRead, Exposed
<1>10. CASE \E error \in Error : CompleteWrite(error)
  BY <1>10 DEF CompleteWrite, Exposed, objectVars, timerVars
<1>. QED
  BY <1>1, <1>2, <1>3, <1>4, <1>5, <1>6, <1>7, <1>8, <1>9, <1>10
  DEF Next, OwnerStep, SocketStep, NetworkStep, ReadTurns, TimerSteps

(* Guarded in the words of the property.                                   *)
LEMMA GuardedWillFire ==
  ASSUME TypeInv
  PROVE  Guarded => TimerWillFire
<1>1. timerStrand \in Seq(TimerTask)
  BY DEF TypeInv, TypeOK, DataTypes
<1>2. DOMAIN timerStrand = 1 .. Len(timerStrand) /\ Len(timerStrand) \in Nat
  BY <1>1, ElementFacts
<1>. QED  BY <1>2 DEF Guarded, Watched, Waits, Restarts, TimerWillFire

(* On a live session the read timer watches every read, whatever the order *)
(* in which expiry, ping and frames reach its strand.                      *)
THEOREM ReadsAreGuarded == Spec => []ReadIsGuarded
<1>1. Init => GuardInv
  BY DEF Init, GuardInv, Exposed
<1>2. TypeInv /\ OneRead /\ GuardInv /\ [Next]_vars => GuardInv'
  <2>. SUFFICES ASSUME TypeInv, OneRead, GuardInv, [Next]_vars, Exposed'
                PROVE  Guarded'
    BY DEF GuardInv
  <2>1. CASE UNCHANGED vars
    BY <2>1 DEF vars, objectVars, strandVars, socketVars, timerVars, GuardInv,
       Exposed, Guarded
  <2>2. CASE ReadTurns
    BY <2>2, StartGuards
  <2>3. CASE TimerSteps
    BY <2>3, TimerGuards DEF GuardInv
  <2>4. CASE Next /\ ~ReadTurns /\ ~TimerSteps
    BY <2>4, OthersKeepGuard DEF GuardInv, Guarded
  <2>. QED  BY <2>1, <2>2, <2>3, <2>4
<1>3. TypeInv /\ GuardInv => ReadIsGuarded
  BY GuardedWillFire DEF GuardInv, Exposed, ReadIsGuarded
<1>. QED  BY <1>1, <1>2, <1>3, TypeInvariant, OneReadInvariant, PTL DEF Spec

-----------------------------------------------------------------------------
(* A peer is asked before it is given up, if no wait of the read timer     *)
(* takes more than MaxTimeOut.                                             *)

Resets == {"stamp", "cancel"}

(* The restart that comes with a reset of lastTimeRead_ stands right       *)
(* behind it, and the first reset, that of the handshake, behind nothing.  *)
Paired(line) ==
  \A i \in 2 .. Len(line) :
    /\ line[i] # "stamp"
    /\ line[i] = "restart" => line[i - 1] \in Resets

(* "task" is the handler the timer's strand will run next.                 *)
Comes(task, line) == line # <<>> /\ Head(line) = task

(* From a reset to its restart the timer is at rest.                       *)
AtRest ==
  /\ Comes("stamp", timerStrand) => timerArmed = FALSE
  /\ Comes("restart", timerStrand) => timerArmed = FALSE /\ idle = 0

(* While nobody has asked the peer, no restart of a ping waits, and a wait *)
(* was started when lastTimeRead_ was set: its expiry, the first since,    *)
(* finds one period gone, and asks.  With lastTimeRead_ still at the epoch *)
(* nothing has expired.                                                    *)
Unasked ==
  /\ ~Waits({"again"}, timerStrand)
  /\ timerArmed = TRUE => idle = 0
  /\ idle > MaxTimeOut => fired = 0 /\ ~Waits({"timeout"}, timerStrand)

AskedInv ==
  /\ Paired(timerStrand)
  /\ AtRest
  /\ asked = FALSE => Unasked
  /\ "timer" \in closing => asked = TRUE

(* What is posted to a strand stands last, and leaves the first handler    *)
(* where it is; a restart needs a reset right before it.                   *)
LEMMA PairedAppend ==
  ASSUME NEW line \in Seq(TimerTask), NEW task \in TimerTask \ {"stamp"},
         Paired(line),
         task # "restart" \/ (line # <<>> /\ line[Len(line)] \in Resets)
  PROVE  /\ Append(line, task) \in Seq(TimerTask)
         /\ Append(line, task) # <<>>
         /\ Append(line, task)[Len(Append(line, task))] = task
         /\ Paired(Append(line, task))
         /\ \A first \in {"stamp", "restart"} :
              Comes(first, Append(line, task)) => Comes(first, line)
<1>. DEFINE longer == Append(line, task)
            end == Len(line) + 1
<1>1. /\ Len(line) \in Nat
      /\ Len(longer) = end
      /\ \A i \in 1 .. Len(line) : longer[i] = line[i]
      /\ longer[end] = task
      /\ longer \in Seq(TimerTask)
  BY AppendFacts
<1>2. /\ line # <<>> => Len(line) # 0 /\ Head(line) = line[1]
      /\ line = <<>> => Len(line) = 0
  BY <1>1, TailFacts
<1>. HIDE DEF longer
<1>3. longer # <<>>
  BY <1>1
<1>4. Head(longer) = longer[1]
  BY <1>1, <1>3, TailFacts
<1>5. ASSUME NEW i \in 2 .. Len(longer)
      PROVE  longer[i] # "stamp" /\ (longer[i] = "restart"
                                       => longer[i - 1] \in Resets)
  <2>1. CASE i = end
    <3>1. longer[i] = "restart" =>
            /\ line[Len(line)] \in Resets
            /\ i - 1 = Len(line) /\ Len(line) \in 1 .. Len(line)
      BY <1>1, <1>2, <2>1
    <3>. QED  BY <1>1, <2>1, <3>1
  <2>2. CASE i # end
    <3>1. /\ i \in 2 .. Len(line) /\ longer[i] = line[i]
          /\ i - 1 \in 1 .. Len(line)
      BY <1>1, <1>5, <2>2
    <3>. QED  BY <1>1, <3>1 DEF Paired
  <2>. QED  BY <2>1, <2>2
<1>6. ASSUME NEW first \in {"stamp", "restart"}, Comes(first, longer)
      PROVE  Comes(first, line)
  <2>1. longer[1] = first
    BY <1>4, <1>6 DEF Comes
  <2>2. line # <<>>
    BY <1>1, <1>2, <2>1
  <2>3. 1 \in 1 .. Len(line)
    BY <1>1, <1>2, <2>2
  <2>. QED  BY <1>1, <1>2, <2>1, <2>2, <2>3 DEF Comes
<1>. QED  BY <1>1, <1>3, <1>5, <1>6 DEF Paired, longer

(* The handler that comes after another is no stamp, and a restart only if *)
(* that was its reset.                                                     *)
LEMMA PairedTail ==
  ASSUME NEW line \in Seq(TimerTask), line # <<>>, Paired(line)
  PROVE  /\ Paired(Tail(line))
         /\ ~Comes("stamp", Tail(line))
         /\ Comes("restart", Tail(line)) => Head(line) \in Resets
<1>. DEFINE rest == Tail(line)
<1>1. /\ Len(line) \in Nat \ {0}
      /\ Len(rest) = Len(line) - 1
      /\ \A i \in 1 .. Len(line) - 1 : rest[i] = line[i + 1]
      /\ Head(line) = line[1]
      /\ rest \in Seq(TimerTask)
  BY TailFacts
<1>2. rest # <<>> => Head(rest) = rest[1] /\ Len(rest) \in Nat \ {0}
  BY <1>1, TailFacts
<1>. HIDE DEF rest
<1>3. ASSUME NEW i \in 2 .. Len(rest)
      PROVE  rest[i] # "stamp" /\ (rest[i] = "restart"
                                     => rest[i - 1] \in Resets)
  <2>1. /\ i + 1 \in 2 .. Len(line) /\ rest[i] = line[i + 1]
        /\ rest[i - 1] = line[i] /\ (i + 1) - 1 = i
    BY <1>1, <1>3
  <2>. QED  BY <2>1 DEF Paired
<1>4. ASSUME NEW first, Comes(first, rest)
      PROVE  2 \in 2 .. Len(line) /\ line[2] = first /\ line[2 - 1] = Head(line)
  BY <1>1, <1>2, <1>4 DEF Comes
<1>. QED  BY <1>3, <1>4 DEF Paired, rest

(* What steps outside the timer do to it: they post.  The stamp is posted  *)
(* by handleHandshake(), before which nothing was.                         *)
Postponed(line) ==
  \/ line = timerStrand
  \/ line = Append(timerStrand, "cancel")
  \/ line = Append(Append(timerStrand, "cancel"), "cancel")
  \/ line = Append(Append(timerStrand, "cancel"), "restart")
  \/ /\ timerStrand = <<>> /\ timerArmed = FALSE
     /\ line = Append(Append(timerStrand, "stamp"), "restart")

(* They start neither a ping nor a handleReadTimeOut(), keep the restarts  *)
(* with their resets and the timer at rest between the two.                *)
LEMMA PostponedFacts ==
  ASSUME TypeInv, Paired(timerStrand), AtRest, UNCHANGED timerVars,
         Postponed(timerStrand')
  PROVE  /\ Paired(timerStrand')
         /\ AtRest'
         /\ \A task \in {"again", "timeout"} :
              Waits({task}, timerStrand') => Waits({task}, timerStrand)
<1>1. timerStrand \in Seq(TimerTask)
  BY DEF TypeInv, TypeOK, DataTypes
<1>2. ASSUME NEW line \in Seq(TimerTask), NEW task \in {"cancel", "restart"},
             Paired(line),
             task # "restart" \/ (line # <<>> /\ line[Len(line)] \in Resets)
      PROVE  /\ Append(line, task) \in Seq(TimerTask)
             /\ Append(line, task) # <<>>
             /\ Append(line, task)[Len(Append(line, task))] = task
             /\ Paired(Append(line, task))
             /\ \A first \in {"stamp", "restart"} :
                  Comes(first, Append(line, task)) => Comes(first, line)
             /\ \A other \in {"again", "timeout"} :
                  Waits({other}, Append(line, task)) => Waits({other}, line)
  <2>1. /\ task \in TimerTask \ {"stamp"}
        /\ \A other \in {"again", "timeout"} : task \notin {other}
    BY DEF TimerTask
  <2>2. \A other \in {"again", "timeout"} :
          Waits({other}, Append(line, task)) => Waits({other}, line)
    BY <2>1, WaitsAppend
  <2>. QED  BY <1>2, <2>1, <2>2, PairedAppend
<1>3. AtRest' <=>
        /\ Comes("stamp", timerStrand') => timerArmed = FALSE
        /\ Comes("restart", timerStrand') => timerArmed = FALSE /\ idle = 0
  BY DEF AtRest, timerVars
<1>4. CASE timerStrand' = timerStrand
  BY <1>3, <1>4 DEF AtRest
<1>5. CASE timerStrand' = Append(timerStrand, "cancel")
  BY <1>1, <1>2, <1>3, <1>5 DEF AtRest
<1>6. CASE \/ timerStrand' = Append(Append(timerStrand, "cancel"), "cancel")
           \/ timerStrand' = Append(Append(timerStrand, "cancel"), "restart")
  <2>1. PICK line \in Seq(TimerTask) : line = Append(timerStrand, "cancel")
    BY <1>1, <1>2
  <2>2. /\ Paired(line) /\ line # <<>> /\ line[Len(line)] \in Resets
        /\ \A first \in {"stamp", "restart"} :
             Comes(first, line) => Comes(first, timerStrand)
        /\ \A other \in {"again", "timeout"} :
             Waits({other}, line) => Waits({other}, timerStrand)
    BY <1>1, <1>2, <2>1 DEF Resets
  <2>3. PICK task \in {"cancel", "restart"} : timerStrand' = Append(line, task)
    BY <1>6, <2>1
  <2>4. /\ Paired(timerStrand')
        /\ \A first \in {"stamp", "restart"} :
             Comes(first, timerStrand') => Comes(first, timerStrand)
        /\ \A other \in {"again", "timeout"} :
             Waits({other}, timerStrand') => Waits({other}, timerStrand)
    BY <1>2, <2>2, <2>3
  <2>. QED  BY <1>3, <2>4 DEF AtRest
<1>7. CASE /\ timerStrand = <<>> /\ timerArmed = FALSE
           /\ timerStrand' = Append(Append(timerStrand, "stamp"), "restart")
  <2>1. PICK line \in Seq(TimerTask) :
          line = <<"stamp">> /\ Len(line) = 1 /\ line[1] = "stamp"
    <3>1. <<"stamp">> \in Seq(TimerTask)
      BY DEF TimerTask
    <3>. QED  BY <3>1
  <2>2. timerStrand' = Append(line, "restart")
    BY <1>7, <2>1
  <2>3. "restart" \in TimerTask
    BY DEF TimerTask
  <2>4. /\ timerStrand' \in Seq(TimerTask) /\ Len(timerStrand') = 2
        /\ timerStrand'[1] = "stamp" /\ timerStrand'[2] = "restart"
    BY <2>1, <2>2, <2>3, AppendFacts
  <2>5. timerStrand' # <<>> => Head(timerStrand') = "stamp"
    BY <2>4, TailFacts
  <2>6. /\ Paired(timerStrand') /\ ~Comes("restart", timerStrand')
        /\ \A task \in {"again", "timeout"} : ~Waits({task}, timerStrand')
    BY <2>4, <2>5 DEF Paired, Comes, Waits, Resets
  <2>. QED  BY <1>3, <1>7, <2>6
<1>. QED  BY <1>4, <1>5, <1>6, <1>7 DEF Postponed

(* So do they all.                                                         *)
LEMMA OthersPostpone ==
  ASSUME TypeInv, OpeningInv, Next, ~TimerSteps
  PROVE  /\ UNCHANGED timerVars
         /\ Postponed(timerStrand')
         /\ "timer" \in closing' => "timer" \in closing
<1>1. CASE Open \/ OwnerCancel \/ AsyncHandshake \/ AsyncWrite
           \/ CancelSocket \/ \E error \in Error : CompleteRead(error)
  BY <1>1 DEF Open, OwnerCancel, AsyncHandshake, AsyncWrite, CancelSocket,
     CompleteRead, Postponed, objectVars
<1>2. CASE CloseSocket \/ \E error \in Error : CompleteWrite(error)
  BY <1>2 DEF CloseSocket, CompleteWrite, Postponed, objectVars
<1>3. CASE OwnerClose \/ Receive \/ HandleWrite
  BY <1>3 DEF OwnerClose, Receive, OnReceived, ReceivedHandle, HandleWrite,
     CallClose, Postponed
<1>4. CASE \E context \in Context : CommitClose(context)
  BY <1>4 DEF CommitClose, Postponed
<1>5. CASE HandleHandshake
  <2>1. UNCHANGED timerVars
    BY <1>5 DEF HandleHandshake
  <2>2. CASE HandshakeSucceeded
    <3>1. Head(socketStrand) \in HandshakeTasks
      BY <1>5, TurnFacts
      DEF HandleHandshake, TypeInv, TypeOK, DataTypes, HandshakeTasks
    <3>2. Waits(HandshakeTasks, socketStrand)
      BY <1>5, <3>1, WaitsTail
      DEF HandleHandshake, SocketTurn, TypeInv, TypeOK, DataTypes
    <3>3. timerStrand = <<>> /\ timerArmed = FALSE
      BY <3>2 DEF OpeningInv, Opening, Quiet
    <3>. QED  BY <2>1, <2>2, <3>3 DEF HandshakeSucceeded, Postponed
  <2>3. CASE HandshakeAborted \/ HandshakeFailed
    BY <2>1, <2>3 DEF HandshakeAborted, HandshakeFailed, CallClose, Postponed
  <2>. QED  BY <1>5, <2>2, <2>3 DEF HandleHandshake
<1>6. CASE HandleReadHeader \/ HandleReadBody
  <2>1. /\ UNCHANGED timerVars
        /\ ReadAbandoned \/ ReadFailed \/ MessageRead \/ BodyFollows
    BY <1>6 DEF HandleReadHeader, HandleReadBody
  <2>2. CASE ReadAbandoned \/ ReadFailed
    BY <2>1, <2>2 DEF ReadAbandoned, ReadFailed, CallClose, Postponed
  <2>3. CASE MessageRead \/ BodyFollows
    BY <2>1, <2>3 DEF MessageRead, BodyFollows, StartRead, Postponed
  <2>. QED  BY <2>1, <2>2, <2>3
<1>. QED  BY <1>1, <1>2, <1>3, <1>4, <1>5, <1>6
     DEF Next, OwnerStep, SocketStep, NetworkStep, TimerSteps

(* The steps of the timer: a reset forgets that the peer was asked only if *)
(* no ping came behind it, and the first expiry after it finds no more     *)
(* than one period gone.                                                   *)
LEMMA TimerAsks ==
  ASSUME TypeInv, AskedInv, TimerSteps, \A p \in Periods : p <= MaxTimeOut
  PROVE  AskedInv'
<1>1. /\ timerStrand \in Seq(TimerTask)
      /\ fired \in Nat /\ idle \in 0 .. MaxTimeOut + 1
      /\ MaxTimeOut \in Nat /\ Periods \subseteq Nat
      /\ Paired(timerStrand) /\ AtRest
  BY SessionAssumption DEF TypeInv, TypeOK, DataTypes, AskedInv
<1>2. asked \in BOOLEAN
  BY DEF TypeInv, TypeOK, FlagTypes
<1>. DEFINE rest == Tail(timerStrand)
<1>3. timerStrand # <<>> =>
        /\ rest \in Seq(TimerTask)
        /\ \A tasks :
             Waits(tasks, timerStrand)
               <=> Head(timerStrand) \in tasks \/ Waits(tasks, rest)
        /\ Paired(rest)
        /\ ~Comes("stamp", rest)
        /\ Comes("restart", rest) => Head(timerStrand) \in Resets
  BY <1>1, TailFacts, WaitsTail, PairedTail
<1>. HIDE DEF rest
<1>4. CASE StampLastTimeRead \/ CancelReadTimer
  <2>1. /\ timerStrand # <<>> /\ timerStrand' = rest
        /\ idle' = 0 /\ "timer" \notin closing'
        /\ asked' = \E i \in DOMAIN timerStrand : timerStrand[i] = "again"
    BY <1>4 DEF StampLastTimeRead, CancelReadTimer, SetLastTimeRead,
       RunTimerTask, TimerTurn, objectVars, rest
  <2>2. asked' = FALSE => ~Waits({"again"}, rest)
    <3>1. DOMAIN timerStrand = 1 .. Len(timerStrand)
      BY <1>1, ElementFacts
    <3>2. asked' = FALSE => ~Waits({"again"}, timerStrand)
      BY <2>1, <3>1 DEF Waits
    <3>. QED  BY <1>3, <2>1, <3>2
  <2>3. timerArmed' = FALSE
    <3>1. StampLastTimeRead => timerArmed' = FALSE
      BY <1>1 DEF StampLastTimeRead, RunTimerTask, TimerTurn, AtRest, Comes
    <3>. QED  BY <1>4, <3>1 DEF CancelReadTimer
  <2>. QED  BY <1>1, <1>3, <2>1, <2>2, <2>3 DEF AskedInv, AtRest, Unasked
<1>5. CASE RestartReadTimer
  <2>1. /\ timerStrand # <<>> /\ Head(timerStrand) \in {"restart", "again"}
        /\ timerStrand' = rest /\ fired' = fired
        /\ idle' = idle /\ asked' = asked /\ closing' = closing
    BY <1>5 DEF RestartReadTimer, RunTimerTask, TimerTurn, objectVars, rest
  <2>2. ~Comes("restart", rest) /\ ~Comes("stamp", rest)
    BY <1>3, <2>1 DEF Resets
  <2>3. asked = FALSE => Head(timerStrand) = "restart"
    BY <1>3, <2>1 DEF AskedInv, Unasked
  <2>4. asked = FALSE => idle = 0
    BY <1>1, <2>1, <2>3 DEF AtRest, Comes
  <2>. QED  BY <1>1, <1>3, <2>1, <2>2, <2>4 DEF AskedInv, AtRest, Unasked
<1>6. CASE TimerExpires
  <2>1. /\ timerArmed = TRUE /\ timerArmed' = FALSE
        /\ timerStrand' = timerStrand /\ asked' = asked /\ closing' = closing
        /\ \E p \in Periods :
             idle' = IF idle + p > MaxTimeOut THEN MaxTimeOut + 1 ELSE idle + p
    BY <1>6 DEF TimerExpires, objectVars, strandVars, TypeInv, TypeOK,
       FlagTypes
  <2>2. AtRest'
    BY <1>1, <2>1 DEF AtRest
  <2>3. asked = FALSE => idle = 0
    BY <2>1 DEF AskedInv, Unasked
  <2>4. asked = FALSE => ~(idle' > MaxTimeOut)
    BY <1>1, <2>1, <2>3
  <2>. QED  BY <1>1, <2>1, <2>2, <2>4 DEF AskedInv, Unasked
<1>7. CASE HandleReadTimeOut
  <2>1. /\ fired > 0 /\ timerStrand' = Append(timerStrand, "timeout")
        /\ UNCHANGED <<timerArmed, idle, asked, closing>>
    BY <1>7 DEF HandleReadTimeOut, objectVars
  <2>2. "timeout" \in TimerTask \ {"stamp"}
    BY DEF TimerTask
  <2>3. /\ Paired(timerStrand')
        /\ \A first \in {"stamp", "restart"} :
             Comes(first, timerStrand') => Comes(first, timerStrand)
    BY <1>1, <2>1, <2>2, PairedAppend
  <2>4. Waits({"again"}, timerStrand') => Waits({"again"}, timerStrand)
    BY <1>1, <2>1, <2>2, WaitsAppend
  <2>5. asked = FALSE => ~(idle > MaxTimeOut)
    BY <1>1, <2>1 DEF AskedInv, Unasked
  <2>. QED  BY <2>1, <2>3, <2>4, <2>5 DEF AskedInv, AtRest, Unasked
<1>8. CASE CheckReadTimeOut
  <2>1. timerStrand # <<>> /\ Head(timerStrand) = "timeout"
    BY <1>8 DEF CheckReadTimeOut, TimerTurn
  <2>2. asked = FALSE => ~(idle > MaxTimeOut)
    BY <1>3, <2>1 DEF AskedInv, Unasked
  <2>3. PICK task \in {"cancel", "again"} : timerStrand' = Append(rest, task)
    BY <1>8 DEF CheckReadTimeOut, CallClose, rest
  <2>4. /\ Paired(timerStrand')
        /\ \A first \in {"stamp", "restart"} :
             Comes(first, timerStrand') => Comes(first, rest)
    <3>1. task \in TimerTask \ {"stamp"} /\ task # "restart"
      BY DEF TimerTask
    <3>. QED  BY <1>3, <2>1, <2>3, <3>1, PairedAppend
  <2>5. AtRest'
    BY <1>3, <2>1, <2>4 DEF AtRest, Resets
  <2>6. asked' = TRUE
    BY <1>2, <1>8, <2>2 DEF CheckReadTimeOut
  <2>. QED  BY <2>4, <2>5, <2>6 DEF AskedInv
<1>. QED  BY <1>4, <1>5, <1>6, <1>7, <1>8 DEF TimerSteps, TimerStep

(* handleReadTimeOut() gives a peer up only after a ping that was sent     *)
(* when the session had last heard it, however far the pool is behind.     *)
THEOREM PeerIsAskedFirst ==
  ASSUME \A p \in Periods : p <= MaxTimeOut
  PROVE  Spec => []PingBeforeDrop
<1>1. Init => AskedInv
  <2>. SUFFICES ASSUME Init PROVE AskedInv
    OBVIOUS
  <2>1. timerArmed = FALSE /\ timerStrand = <<>> /\ fired = 0 /\ closing = {}
    BY DEF Init
  <2>2. /\ Paired(timerStrand)
        /\ \A first : ~Comes(first, timerStrand)
        /\ \A tasks : ~Waits(tasks, timerStrand)
    BY <2>1 DEF Paired, Comes, Waits
  <2>. QED  BY <2>1, <2>2 DEF AskedInv, AtRest, Unasked
<1>2. TypeInv /\ OpeningInv /\ AskedInv /\ [Next]_vars => AskedInv'
  <2>. SUFFICES ASSUME TypeInv, OpeningInv, AskedInv, [Next]_vars
                PROVE  AskedInv'
    OBVIOUS
  <2>1. CASE UNCHANGED vars
    BY <2>1 DEF vars, objectVars, strandVars, timerVars, AskedInv, AtRest,
       Unasked
  <2>2. CASE TimerSteps
    BY <2>2, TimerAsks
  <2>3. CASE Next /\ ~TimerSteps
    <3>1. /\ UNCHANGED timerVars
          /\ Postponed(timerStrand')
          /\ "timer" \in closing' => "timer" \in closing
      BY <2>3, OthersPostpone
    <3>2. /\ Paired(timerStrand') /\ AtRest'
          /\ \A task \in {"again", "timeout"} :
               Waits({task}, timerStrand') => Waits({task}, timerStrand)
      BY <3>1, PostponedFacts DEF AskedInv
    <3>3. asked' = FALSE => Unasked'
      BY <3>1, <3>2 DEF AskedInv, Unasked, timerVars
    <3>. QED  BY <3>1, <3>2, <3>3 DEF AskedInv, timerVars
  <2>. QED  BY <2>1, <2>2, <2>3
<1>3. AskedInv => PingBeforeDrop
  BY DEF AskedInv, PingBeforeDrop
<1>. QED  BY <1>1, <1>2, <1>3, TypeInvariant, OpeningInvariant, PTL DEF Spec

-----------------------------------------------------------------------------
(* closeHandler_ runs at most once for each strand that close() can run on *)
(* at one time.                                                            *)

(* The contexts that can be inside close() together: socketStrand_ runs    *)
(* one handler, only the server's owner closes, and only the client closes *)
(* a session whose answer it has.                                          *)
Closers ==
  {contexts \in SUBSET Context :
     /\ ~({"socket", "write"} \subseteq contexts)
     /\ "owner" \in contexts => Role = "server"
     /\ "read" \in contexts => Role = "client"}

(* Calls of closeHandler_, those that are posted, and those to come.       *)
Closes == closes + Count(CloseTasks, socketStrand) + Cardinality(closing)

(* No close() is committed while the session counts as connected.          *)
Unclosed == closes = 0 /\ Count(CloseTasks, socketStrand) = 0

CloseInv ==
  /\ closing \in Closers
  /\ isConnected = TRUE \/ Opening => Unclosed
  /\ Closes <= 3

(* There are at most three of them.                                        *)
LEMMA ThreeClosers ==
  ASSUME NEW contexts \in Closers
  PROVE  IsFiniteSet(contexts) /\ Cardinality(contexts) \in 0 .. 3
<1>1. ASSUME NEW x, NEW y, NEW z
      PROVE  IsFiniteSet({x, y, z}) /\ Cardinality({x, y, z}) <= 3
  <2>1. IsFiniteSet({x}) /\ Cardinality({x}) = 1
    BY FS_Singleton
  <2>2. IsFiniteSet({x} \cup {y}) /\ Cardinality({x} \cup {y}) \in {1, 2}
    BY <2>1, FS_AddElement
  <2>3. /\ IsFiniteSet({x} \cup {y} \cup {z})
        /\ Cardinality({x} \cup {y} \cup {z}) \in {1, 2, 3}
    BY <2>2, FS_AddElement
  <2>4. {x} \cup {y} \cup {z} = {x, y, z}
    OBVIOUS
  <2>. QED  BY <2>3, <2>4
<1>2. \E x \in {"socket", "write"}, y \in {"owner", "read"} :
        contexts \subseteq {x, "timer", y}
  BY SessionAssumption DEF Closers, Context
<1>3. PICK x, y, z : contexts \subseteq {x, y, z}
  BY <1>2
<1>4. IsFiniteSet({x, y, z}) /\ Cardinality({x, y, z}) <= 3
  BY <1>1
<1>5. IsFiniteSet(contexts) /\ Cardinality(contexts) <= Cardinality({x, y, z})
  BY <1>3, <1>4, FS_Subset
<1>6. Cardinality(contexts) \in Nat /\ Cardinality({x, y, z}) \in Nat
  BY <1>4, <1>5, FS_CardinalityType
<1>. QED  BY <1>4, <1>5, <1>6

(* A step leaves those inside close() alone, or another one enters that    *)
(* saw the session connected, or one commits.                              *)
LEMMA ClosingSteps ==
  ASSUME TypeInv, closing \in Closers, Next,
         \A context \in Context : ~CommitClose(context)
  PROVE  \/ closing' = closing
         \/ /\ closing' \in Closers
            /\ isConnected = TRUE \/ HandleHandshake
<1>1. closing \subseteq Context
  BY DEF Closers
<1>2. ASSUME NEW op, SocketTurn(op), NEW context \in {"socket", "write"}
      PROVE  closing \cup {context} \in Closers
  BY <1>1, <1>2 DEF SocketTurn, SocketStrandFree, Closers, Context
<1>3. /\ closing \cup {"timer"} \in Closers
      /\ Role = "server" => closing \cup {"owner"} \in Closers
      /\ Role = "client" => closing \cup {"read"} \in Closers
  BY SessionAssumption DEF Closers, Context
<1>4. ASSUME NEW context, NEW strand, NEW timers,
             CallClose(context, isConnected, strand, timers)
      PROVE  \/ closing' = closing
             \/ closing' = closing \cup {context} /\ isConnected = TRUE
  <2>1. isConnected \in BOOLEAN
    BY DEF TypeInv, TypeOK, FlagTypes
  <2>. QED  BY <1>4, <2>1 DEF CallClose
<1>5. CASE OwnerClose
  BY <1>3, <1>4, <1>5 DEF OwnerClose
<1>6. CASE HandleHandshake
  <2>1. \/ closing' = closing
        \/ closing' = closing \cup {"socket"}
    BY <1>6 DEF HandleHandshake, HandshakeSucceeded, HandshakeAborted,
       HandshakeFailed, CallClose
  <2>2. SocketTurn("handleHandshake")
    BY <1>6 DEF HandleHandshake
  <2>. QED  BY <1>2, <1>6, <2>1, <2>2
<1>7. CASE HandleReadHeader \/ HandleReadBody
  <2>1. PICK op : SocketTurn(op)
    BY <1>7 DEF HandleReadHeader, HandleReadBody
  <2>2. ReadAbandoned \/ ReadFailed \/ MessageRead \/ BodyFollows
    BY <1>7 DEF HandleReadHeader, HandleReadBody
  <2>3. CASE ReadFailed
    BY <1>2, <1>4, <2>1, <2>3 DEF ReadFailed
  <2>. QED  BY <2>2, <2>3 DEF ReadAbandoned, MessageRead, BodyFollows
<1>8. CASE Receive
  BY <1>3, <1>4, <1>8 DEF Receive, OnReceived, ReceivedHandle
<1>9. CASE HandleWrite
  <2>1. SocketTurn("handleWrite")
    BY <1>9 DEF HandleWrite
  <2>2. \/ closing' = closing
        \/ \E strand, timers :
             CallClose("write", isConnected, strand, timers)
    BY <1>9 DEF HandleWrite
  <2>. QED  BY <1>2, <1>4, <2>1, <2>2
<1>10. CASE CheckReadTimeOut
  BY <1>3, <1>4, <1>10 DEF CheckReadTimeOut
<1>11. CASE \/ Open \/ OwnerCancel \/ AsyncHandshake \/ AsyncWrite
            \/ CancelSocket \/ CloseSocket
            \/ StampLastTimeRead \/ RestartReadTimer \/ CancelReadTimer
            \/ TimerExpires \/ HandleReadTimeOut \/ NetworkStep
  BY <1>11 DEF Open, OwnerCancel, AsyncHandshake, AsyncWrite, CancelSocket,
     CloseSocket, StampLastTimeRead, RestartReadTimer, CancelReadTimer,
     RunTimerTask, TimerExpires, HandleReadTimeOut, NetworkStep, CompleteRead,
     CompleteWrite, objectVars
<1>. QED  BY <1>5, <1>6, <1>7, <1>8, <1>9, <1>10, <1>11
     DEF Next, OwnerStep, SocketStep, TimerStep

(* Only handleHandshake() and open() make a session connected.             *)
LEMMA ConnectedBefore ==
  ASSUME TypeInv, OpeningInv, Next, isConnected' = TRUE \/ Opening'
  PROVE  isConnected = TRUE \/ Opening
<1>1. Opening' => Opening
  BY OpeningEnds
<1>2. Open \/ HandleHandshake => Opening
  <2>1. socketStrand \in Seq(SocketTask)
    BY DEF TypeInv, TypeOK, DataTypes
  <2>2. SocketTurn("handleHandshake") => Waits(HandshakeTasks, socketStrand)
    BY <2>1, TurnFacts DEF HandshakeTasks
  <2>. QED  BY <2>2 DEF Open, HandleHandshake, Opening
<1>3. ~Open /\ ~HandleHandshake /\ isConnected' = TRUE => isConnected = TRUE
  BY DEF Next, OwnerStep, SocketStep, TimerStep, NetworkStep,
     OwnerClose, OwnerCancel, AsyncHandshake, HandleReadHeader,
     HandleReadBody, AsyncWrite, HandleWrite, CancelSocket, CloseSocket,
     Receive, OnReceived, ReceivedHandle, CommitClose, StampLastTimeRead,
     RestartReadTimer, CancelReadTimer, RunTimerTask, TimerExpires,
     HandleReadTimeOut, CheckReadTimeOut, CompleteRead, CompleteWrite,
     objectVars
<1>. QED  BY <1>1, <1>2, <1>3

(* The steps that neither commit a close() nor run its handler post none.  *)
LEMMA ClosesUnchanged ==
  ASSUME TypeInv, Next, ~CloseSocket,
         \A context \in Context : ~CommitClose(context)
  PROVE  /\ closes' = closes
         /\ NoMore(CloseTasks, socketStrand', socketStrand)
<1>1. closes' = closes
  BY DEF Next, OwnerStep, SocketStep, TimerStep, NetworkStep, Open,
     OwnerClose, OwnerCancel, AsyncHandshake, HandleHandshake,
     HandleReadHeader, HandleReadBody, AsyncWrite, HandleWrite, CancelSocket,
     Receive, OnReceived, ReceivedHandle, StampLastTimeRead,
     RestartReadTimer, CancelReadTimer, RunTimerTask, TimerExpires,
     HandleReadTimeOut, CheckReadTimeOut, CompleteRead, CompleteWrite,
     historyVars
<1>2. CASE ~StageStep
  BY <1>1, <1>2, OrdinaryStep, CloseTaskFacts DEF PostsNoMore
<1>3. CASE Open
  <2>1. Task("asyncHandshake") \in SocketTask \ CloseTasks
    BY TaskTypes DEF Task, CloseTasks
  <2>2. socketStrand \in Seq(SocketTask)
    BY DEF TypeInv, TypeOK, DataTypes
  <2>. QED  BY <1>1, <1>3, <2>1, <2>2, NoMoreFacts DEF Open
<1>4. CASE \E error \in Error : CompleteRead(error)
  BY <1>1, <1>4, CompleteReadPosts, CloseTaskFacts DEF PostsNoMore
<1>. QED  BY <1>2, <1>3, <1>4 DEF StageStep

(* CloseInv is inductive: whoever enters close() finds none committed, and *)
(* whoever commits passes the count on.                                    *)
LEMMA CloseInvInductive ==
  TypeInv /\ OpeningInv /\ CloseInv /\ [Next]_vars => CloseInv'
<1>. SUFFICES ASSUME TypeInv, OpeningInv, CloseInv, [Next]_vars
              PROVE  CloseInv'
  OBVIOUS
<1>1. /\ socketStrand \in Seq(SocketTask)
      /\ closes \in Nat
      /\ Count(CloseTasks, socketStrand) \in Nat
  BY CountFacts DEF TypeInv, TypeOK, DataTypes
<1>2. /\ socketStrand' \in Seq(SocketTask)
      /\ Count(CloseTasks, socketStrand') \in Nat
  <2>1. socketStrand' \in Seq(SocketTask)
    BY TypeInvInductive DEF TypeInv, TypeOK, DataTypes
  <2>. QED  BY <2>1, CountFacts
<1>3. IsFiniteSet(closing) /\ Cardinality(closing) \in 0 .. 3
  BY ThreeClosers DEF CloseInv
<1>4. CASE UNCHANGED vars
  BY <1>4 DEF vars, objectVars, strandVars, socketVars, historyVars, CloseInv,
     Opening, Unclosed, Closes
<1>5. CASE \E context \in Context : CommitClose(context)
  <2>1. PICK context \in Context : CommitClose(context)
    BY <1>5
  <2>2. /\ context \in closing /\ closing' = closing \ {context}
        /\ isConnected' = FALSE /\ closes' = closes
        /\ socketStrand' = Append(socketStrand, Task("close"))
    BY <2>1 DEF CommitClose, historyVars
  <2>3. Task("close") \in SocketTask /\ Task("close") \in CloseTasks
    BY TaskTypes DEF Task, CloseTasks
  <2>4. Count(CloseTasks, socketStrand') = Count(CloseTasks, socketStrand) + 1
    BY <1>1, <2>2, <2>3, CountAppend
  <2>5. Cardinality(closing') = Cardinality(closing) - 1
    BY <1>3, <2>2, FS_RemoveElement
  <2>6. ~Opening'
    <3>1. ~Opening
      BY <2>2 DEF OpeningInv, Quiet
    <3>. QED  BY <1>5, <3>1, OpeningEnds DEF Next
  <2>7. closing' \in Closers
    BY <2>2 DEF CloseInv, Closers
  <2>. QED  BY <1>1, <1>3, <2>2, <2>4, <2>5, <2>6, <2>7
       DEF CloseInv, Closes
<1>6. CASE CloseSocket
  <2>1. /\ socketStrand # <<>> /\ Head(socketStrand) \in CloseTasks
        /\ socketStrand' = Tail(socketStrand)
        /\ closes' = closes + 1 /\ closing' = closing
        /\ isConnected' = isConnected
    BY <1>1, <1>6, TurnFacts DEF CloseSocket, SocketTurn, CloseTasks
  <2>2. Count(CloseTasks, socketStrand) = Count(CloseTasks, socketStrand') + 1
    BY <1>1, <1>2, <2>1, CountTail
  <2>3. ~(isConnected = TRUE \/ Opening)
    BY <1>2, <2>2 DEF CloseInv, Unclosed
  <2>4. ~Opening'
    BY <1>6, <2>3, OpeningEnds DEF Next, SocketStep
  <2>. QED  BY <1>1, <1>2, <1>3, <2>1, <2>2, <2>3, <2>4 DEF CloseInv, Closes
<1>7. CASE /\ Next /\ ~CloseSocket
           /\ \A context \in Context : ~CommitClose(context)
  <2>1. /\ closes' = closes
        /\ Count(CloseTasks, socketStrand') <= Count(CloseTasks, socketStrand)
    BY <1>7, ClosesUnchanged DEF NoMore
  <2>2. isConnected' = TRUE \/ Opening' => isConnected = TRUE \/ Opening
    BY <1>7, ConnectedBefore
  <2>3. isConnected' = TRUE \/ Opening' => Unclosed'
    BY <1>1, <1>2, <2>1, <2>2 DEF CloseInv, Unclosed
  <2>4. CASE closing' = closing
    BY <1>1, <1>2, <1>3, <2>1, <2>3, <2>4 DEF CloseInv, Closes
  <2>5. CASE closing' \in Closers /\ (isConnected = TRUE \/ HandleHandshake)
    <3>1. HandleHandshake => Opening
      <4>1. SocketTurn("handleHandshake")
            => Waits(HandshakeTasks, socketStrand)
        BY <1>1, TurnFacts DEF HandshakeTasks
      <4>. QED  BY <4>1 DEF HandleHandshake, Opening
    <3>2. closes = 0 /\ Count(CloseTasks, socketStrand) = 0
      BY <2>5, <3>1 DEF CloseInv, Unclosed
    <3>3. Cardinality(closing') \in 0 .. 3
      BY <2>5, ThreeClosers
    <3>. QED  BY <1>2, <2>1, <2>3, <2>5, <3>2, <3>3 DEF CloseInv, Closes
  <2>. QED  BY <1>7, <2>4, <2>5, ClosingSteps DEF CloseInv
<1>. QED  BY <1>4, <1>5, <1>6, <1>7

(* close() may be called from several strands and by the owner, again and  *)
(* again: closeHandler_ runs at most three times.                          *)
THEOREM CloseHandlerRunsFew == Spec => []CloseHandlerBound
<1>1. Init => CloseInv
  <2>. SUFFICES ASSUME Init PROVE CloseInv
    OBVIOUS
  <2>1. closing = {} /\ closes = 0 /\ socketStrand = <<>>
    BY DEF Init
  <2>2. Count(CloseTasks, socketStrand) = 0 /\ Cardinality(closing) = 0
    <3>1. Places(CloseTasks, socketStrand) = {}
      BY <2>1 DEF Places
    <3>. QED  BY <2>1, <3>1, FS_EmptySet DEF Count
  <2>3. closing \in Closers
    BY <2>1 DEF Closers
  <2>. QED  BY <2>1, <2>2, <2>3 DEF CloseInv, Closes, Unclosed
<1>2. TypeInv /\ CloseInv => CloseHandlerBound
  <2>. SUFFICES ASSUME TypeInv, CloseInv PROVE CloseHandlerBound
    OBVIOUS
  <2>1. /\ DOMAIN socketStrand = 1 .. Len(socketStrand)
        /\ \A i \in 1 .. Len(socketStrand) : socketStrand[i] \in SocketTask
    BY ElementFacts DEF TypeInv, TypeOK, DataTypes
  <2>2. {i \in DOMAIN socketStrand : socketStrand[i].op = "close"}
        = Places(CloseTasks, socketStrand)
    BY <2>1 DEF Places, CloseTasks
  <2>. QED  BY <2>2 DEF CloseInv, Closes, Count, CloseHandlerBound
<1>. QED  BY <1>1, <1>2, CloseInvInductive, OpeningInvariant, TypeInvariant,
             PTL DEF Spec

-----------------------------------------------------------------------------
(* The payloads of a queue, in order.                                      *)

(* Sequences with the same elements are equal.                             *)
LEMMA SameElements ==
  ASSUME NEW S, NEW s \in Seq(S), NEW t \in Seq(S), Len(s) = Len(t),
         \A k \in 1 .. Len(s) : s[k] = t[k]
  PROVE  s = t
  OBVIOUS

(* A queue has as many payloads as Data messages: f lists the places of    *)
(* these, front first.                                                     *)
Lists(f, n, q) ==
  /\ f \in [1 .. n -> DataPlaces(q)]
  /\ \A k, l \in 1 .. n : k < l => f[k] < f[l]
  /\ \A i \in DataPlaces(q) : \E k \in 1 .. n : f[k] = i

Rank(i, q) == Cardinality(DataPlaces(q) \cap 1 .. i)

(* The places of a queue are finitely many natural numbers.                *)
LEMMA PlaceFacts ==
  ASSUME NEW q \in Seq(Message)
  PROVE  /\ Len(q) \in Nat
         /\ DataPlaces(q) = {i \in 1 .. Len(q) : q[i].type = "Data"}
         /\ DataPlaces(q) \subseteq 1 .. Len(q)
         /\ DataPlaces(q) \subseteq Nat \ {0}
         /\ IsFiniteSet(DataPlaces(q))
         /\ \A i \in DataPlaces(q) : q[i] \in Message /\ q[i].id \in Nat
<1>1. /\ Len(q) \in Nat
      /\ DOMAIN q = 1 .. Len(q)
      /\ \A i \in 1 .. Len(q) : q[i] \in Message
  BY ElementFacts
<1>2. DataPlaces(q) = {i \in 1 .. Len(q) : q[i].type = "Data"}
  BY <1>1 DEF DataPlaces
<1>3. IsFiniteSet(1 .. Len(q))
  BY <1>1, FS_Interval
<1>4. IsFiniteSet(DataPlaces(q))
  BY <1>2, <1>3, FS_Subset
<1>. QED  BY <1>1, <1>2, <1>4 DEF Message

(* The rank of a place: how many Data messages there are up to it.         *)
LEMMA RankFacts ==
  ASSUME NEW q \in Seq(Message)
  PROVE  /\ \A i \in DataPlaces(q) :
              Rank(i, q) \in 1 .. Cardinality(DataPlaces(q))
         /\ \A i, j \in DataPlaces(q) : i < j => Rank(i, q) < Rank(j, q)
<1>. DEFINE P == DataPlaces(q)
<1>1. P \subseteq Nat \ {0} /\ IsFiniteSet(P)
  BY PlaceFacts
<1>. HIDE DEF P
<1>2. \A i : /\ (P \cap 1 .. i) \in SUBSET P
            /\ Rank(i, q) = Cardinality(P \cap 1 .. i)
  BY DEF Rank, P
<1>3. \A i : /\ IsFiniteSet(P \cap 1 .. i)
            /\ Rank(i, q) \in Nat
            /\ Rank(i, q) <= Cardinality(P)
  BY <1>1, <1>2, FS_Subset, FS_CardinalityType
<1>4. Cardinality(P) \in Nat
  BY <1>1, FS_CardinalityType
<1>5. ASSUME NEW i \in P PROVE Rank(i, q) # 0
  <2>1. i \in P \cap 1 .. i
    BY <1>1
  <2>. QED  BY <1>2, <1>3, <2>1, FS_EmptySet
<1>6. ASSUME NEW i \in P, NEW j \in P, i < j
      PROVE  Rank(i, q) < Rank(j, q)
  <2>1. /\ (P \cap 1 .. i) \in SUBSET (P \cap 1 .. j)
        /\ j \in P \cap 1 .. j
        /\ j \notin P \cap 1 .. i
    BY <1>1, <1>6
  <2>2. IsFiniteSet(P \cap 1 .. j)
    BY <1>3
  <2>3. /\ Cardinality(P \cap 1 .. i) <= Cardinality(P \cap 1 .. j)
        /\ Cardinality(P \cap 1 .. j) = Cardinality(P \cap 1 .. i)
           => P \cap 1 .. j = P \cap 1 .. i
    BY <2>1, <2>2, FS_Subset, Zenon
  <2>4. Rank(i, q) <= Rank(j, q) /\ Rank(i, q) # Rank(j, q)
    BY <1>2, <2>1, <2>3, Zenon
  <2>5. Rank(i, q) \in Nat /\ Rank(j, q) \in Nat
    BY <1>3
  <2>. QED  BY <2>4, <2>5
<1>7. \A i \in P : Rank(i, q) \in 1 .. Cardinality(P)
  <2>. TAKE i \in P
  <2>1. Rank(i, q) \in Nat /\ Rank(i, q) <= Cardinality(P) /\ Rank(i, q) # 0
    BY <1>3, <1>5
  <2>. QED  BY <1>4, <2>1
<1>. QED  BY <1>6, <1>7 DEF P

(* The places of a queue can be listed: the kth is the one of rank k.      *)
LEMMA ListExists ==
  ASSUME NEW q \in Seq(Message)
  PROVE  \E n \in Nat : \E f : Lists(f, n, q)
<1>. DEFINE P == DataPlaces(q)
            n == Cardinality(P)
            rank == [i \in P |-> Rank(i, q)]
            f == [k \in 1 .. n |-> CHOOSE i \in P : Rank(i, q) = k]
<1>1. P \subseteq Nat /\ IsFiniteSet(P) /\ n \in Nat
  BY PlaceFacts, FS_CardinalityType
<1>2. /\ \A i \in P : Rank(i, q) \in 1 .. n
      /\ \A i, j \in P : i < j => Rank(i, q) < Rank(j, q)
  BY RankFacts
<1>3. \A i, j \in P : Rank(i, q) = Rank(j, q) => i = j
  <2>. TAKE i, j \in P
  <2>1. i < j \/ j < i \/ i = j
    BY <1>1
  <2>. QED  BY <1>2, <2>1
<1>4. IsFiniteSet(1 .. n) /\ Cardinality(1 .. n) = n
  BY <1>1, FS_Interval
<1>. HIDE DEF P, n
<1>5. rank \in [P -> 1 .. n] /\ \A i \in P : rank[i] = Rank(i, q)
  BY <1>2
<1>. HIDE DEF rank
<1>6. rank \in Injection(P, 1 .. n)
  BY <1>3, <1>5, Fun_IsInj
<1>7. rank \in Surjection(P, 1 .. n)
  BY <1>4, <1>6, FS_Injection DEF n
<1>8. \A k \in 1 .. n : \E i \in P : Rank(i, q) = k
  <2>1. \A k \in 1 .. n : \E i \in P : rank[i] = k
    BY <1>7, Fun_SurjectionProperties, Zenon
  <2>. QED  BY <1>5, <2>1
<1>9. \A k \in 1 .. n : f[k] \in P /\ Rank(f[k], q) = k
  BY <1>8
<1>10. f \in [1 .. n -> P]
  BY <1>9
<1>. HIDE DEF f
<1>11. \A k, l \in 1 .. n : k < l => f[k] < f[l]
  <2>. TAKE k, l \in 1 .. n
  <2>1. f[k] \in P /\ f[l] \in P /\ Rank(f[k], q) = k /\ Rank(f[l], q) = l
    BY <1>9
  <2>2. f[k] < f[l] \/ f[l] < f[k] \/ f[k] = f[l]
    <3>1. f[k] \in Nat /\ f[l] \in Nat
      BY <1>1, <2>1
    <3>. QED  BY <3>1
  <2>3. f[l] < f[k] => l < k
    BY <1>2, <2>1
  <2>. QED  BY <1>1, <2>1, <2>2, <2>3
<1>12. \A i \in P : \E k \in 1 .. n : f[k] = i
  <2>. TAKE i \in P
  <2>1. Rank(i, q) \in 1 .. n
    BY <1>2
  <2>2. f[Rank(i, q)] = i
    BY <1>3, <1>9, <2>1
  <2>. QED  BY <2>1, <2>2
<1>13. Lists(f, n, q)
  BY <1>10, <1>11, <1>12 DEF Lists, P
<1>. QED  BY <1>1, <1>13

(* A list gives the payloads.                                              *)
LEMMA ListPayloads ==
  ASSUME NEW q \in Seq(Message), NEW n \in Nat, NEW f, Lists(f, n, q)
  PROVE  /\ Payloads(q) = [k \in 1 .. n |-> q[f[k]].id]
         /\ Payloads(q) \in Seq(Nat)
         /\ Len(Payloads(q)) = n
         /\ \A k \in 1 .. n : Payloads(q)[k] = q[f[k]].id
<1>. DEFINE P == DataPlaces(q)
<1>1. P \subseteq Nat \ {0} /\ \A i \in P : q[i].id \in Nat
  BY PlaceFacts
<1>2. /\ f \in [1 .. n -> P]
      /\ \A k, l \in 1 .. n : k < l => f[k] < f[l]
      /\ \A i \in P : \E k \in 1 .. n : f[k] = i
  BY DEF Lists
<1>. HIDE DEF P
<1>3. \A k, l \in 1 .. n : f[k] = f[l] => k = l
  <2>. TAKE k, l \in 1 .. n
  <2>1. k < l \/ l < k \/ k = l
    OBVIOUS
  <2>2. f[k] \in Nat /\ f[l] \in Nat
    BY <1>1, <1>2
  <2>3. (k < l => f[k] < f[l]) /\ (l < k => f[l] < f[k])
    BY <1>2
  <2>. QED  BY <2>1, <2>2, <2>3
<1>4. Cardinality(P) = n
  <2>1. f \in Bijection(1 .. n, P)
    BY <1>2, <1>3, Fun_IsBij
  <2>2. ExistsBijection(1 .. n, P)
    BY <2>1, Fun_ExistsBij
  <2>. QED  BY <2>2, FS_CountingElements
<1>5. ASSUME NEW k \in 1 .. n
      PROVE  Cardinality(P \cap 1 .. f[k]) = k
  <2>. DEFINE g == [l \in 1 .. k |-> f[l]]
              S == P \cap 1 .. f[k]
  <2>1. \A l \in 1 .. k : l \in 1 .. n /\ (l < k \/ l = k)
    OBVIOUS
  <2>2. \A l \in 1 .. k : f[l] \in S
    <3>. TAKE l \in 1 .. k
    <3>1. l \in 1 .. n /\ (l < k \/ l = k)
      BY <2>1
    <3>2. f[l] \in P /\ f[l] \in Nat \ {0} /\ f[k] \in Nat
      BY <1>1, <1>2, <3>1
    <3>3. l < k => f[l] < f[k]
      BY <1>2, <3>1
    <3>4. f[l] \in 1 .. f[k]
      BY <3>1, <3>2, <3>3
    <3>. QED  BY <3>2, <3>4
  <2>3. g \in [1 .. k -> S]
    BY <2>2
  <2>4. \A l \in 1 .. k : g[l] = f[l]
    OBVIOUS
  <2>. HIDE DEF g
  <2>5. \A i, j \in 1 .. k : g[i] = g[j] => i = j
    BY <1>3, <2>1, <2>4
  <2>6. \A i \in S : \E l \in 1 .. k : g[l] = i
    <3>. TAKE i \in S
    <3>1. PICK l \in 1 .. n : f[l] = i
      BY <1>2
    <3>2. f[l] <= f[k]
      BY <3>1
    <3>3. l <= k
      <4>1. l <= k \/ k < l
        OBVIOUS
      <4>2. k < l => f[k] < f[l]
        BY <1>2
      <4>3. f[k] \in Nat /\ f[l] \in Nat
        BY <1>1, <1>2
      <4>. QED  BY <3>2, <4>1, <4>2, <4>3
    <3>4. l \in 1 .. k
      BY <3>3
    <3>. QED  BY <2>4, <3>1, <3>4
  <2>. HIDE DEF S
  <2>7. g \in Bijection(1 .. k, S)
    BY <2>3, <2>5, <2>6, Fun_IsBij
  <2>8. ExistsBijection(1 .. k, S)
    BY <2>7, Fun_ExistsBij
  <2>9. Cardinality(S) = k
    <3>1. k \in Nat
      OBVIOUS
    <3>. QED  BY <2>8, <3>1, FS_CountingElements
  <2>. QED  BY <2>9 DEF S
<1>6. ASSUME NEW k \in 1 .. n
      PROVE  (CHOOSE i \in P : Cardinality(P \cap 1 .. i) = k) = f[k]
  <2>1. f[k] \in P /\ Cardinality(P \cap 1 .. f[k]) = k
    BY <1>2, <1>5
  <2>2. \A i \in P : Cardinality(P \cap 1 .. i) = k => i = f[k]
    <3>. TAKE i \in P
    <3>1. PICK l \in 1 .. n : f[l] = i
      BY <1>2
    <3>2. Cardinality(P \cap 1 .. i) = l
      BY <1>5, <3>1
    <3>. QED  BY <3>1, <3>2
  <2>. QED  BY <2>1, <2>2
<1>7. Payloads(q) = [k \in 1 .. n |-> q[f[k]].id]
  <2>1. Payloads(q) =
          [k \in 1 .. Cardinality(P) |->
             q[CHOOSE i \in P : Cardinality(P \cap 1 .. i) = k].id]
    BY DEF Payloads, P
  <2>. QED  BY <1>4, <1>6, <2>1
<1>8. \A k \in 1 .. n : q[f[k]].id \in Nat
  BY <1>1, <1>2
<1>. QED  BY <1>7, <1>8

(* No payload in an empty queue.                                           *)
LEMMA PayloadsEmpty == Payloads(<<>>) = <<>>
<1>1. <<>> \in Seq(Message)
  OBVIOUS
<1>2. DataPlaces(<<>>) = {}
  BY DEF DataPlaces
<1>3. Lists(<<>>, 0, <<>>)
  <2>1. 1 .. 0 = {} /\ <<>> \in [{} -> {}]
    OBVIOUS
  <2>. QED  BY <1>2, <2>1 DEF Lists
<1>4. Len(Payloads(<<>>)) = 0 /\ Payloads(<<>>) \in Seq(Nat)
  BY <1>1, <1>3, ListPayloads
<1>. QED  BY <1>4

(* Every queue has its payloads.                                           *)
LEMMA PayloadsType ==
  ASSUME NEW q \in Seq(Message)
  PROVE  Payloads(q) \in Seq(Nat)
BY ListExists, ListPayloads

(* A message at the back adds its payload at the back, if it has one.      *)
LEMMA PayloadsAppend ==
  ASSUME NEW q \in Seq(Message), NEW m \in Message
  PROVE  Payloads(Append(q, m)) =
           IF m.type = "Data" THEN Append(Payloads(q), m.id) ELSE Payloads(q)
<1>1. PICK n \in Nat : \E f : Lists(f, n, q)
  BY ListExists
<1>2. PICK f : Lists(f, n, q)
  BY <1>1
<1>3. /\ Payloads(q) \in Seq(Nat)
      /\ Len(Payloads(q)) = n
      /\ \A k \in 1 .. n : Payloads(q)[k] = q[f[k]].id
  BY <1>2, ListPayloads
<1>4. PICK z \in Seq(Message) : z = Append(q, m)
  BY AppendFacts
<1>5. /\ Len(q) \in Nat
      /\ Len(z) = Len(q) + 1
      /\ \A i \in 1 .. Len(q) : z[i] = q[i]
      /\ z[Len(q) + 1] = m
  BY <1>4, AppendFacts
<1>6. /\ DataPlaces(q) = {i \in 1 .. Len(q) : q[i].type = "Data"}
      /\ DataPlaces(z) = {i \in 1 .. Len(z) : z[i].type = "Data"}
  BY PlaceFacts
<1>7. /\ f \in [1 .. n -> DataPlaces(q)]
      /\ \A k, l \in 1 .. n : k < l => f[k] < f[l]
      /\ \A i \in DataPlaces(q) : \E k \in 1 .. n : f[k] = i
  BY <1>2 DEF Lists
<1>8. \A i \in 1 .. Len(z) : i \in 1 .. Len(q) \/ i = Len(q) + 1
  BY <1>5
<1>9. \A k \in 1 .. n : f[k] \in 1 .. Len(q) /\ z[f[k]] = q[f[k]]
  BY <1>5, <1>6, <1>7
<1>10. CASE m.type # "Data"
  <2>1. DataPlaces(z) = DataPlaces(q)
    BY <1>5, <1>6, <1>8, <1>10
  <2>2. Lists(f, n, z)
    BY <1>7, <2>1 DEF Lists
  <2>3. /\ Payloads(z) \in Seq(Nat)
        /\ Len(Payloads(z)) = n
        /\ \A k \in 1 .. n : Payloads(z)[k] = q[f[k]].id
    BY <1>9, <2>2, ListPayloads
  <2>4. Payloads(z) = Payloads(q)
    <3>1. \A k \in 1 .. Len(Payloads(z)) : Payloads(z)[k] = Payloads(q)[k]
      BY <1>3, <2>3
    <3>. QED  BY <1>3, <2>3, <3>1, SameElements
  <2>. QED  BY <1>4, <1>10, <2>4
<1>11. CASE m.type = "Data"
  <2>. DEFINE g == [k \in 1 .. n + 1 |->
                     IF k = n + 1 THEN Len(q) + 1 ELSE f[k]]
  <2>1. DataPlaces(z) = DataPlaces(q) \cup {Len(q) + 1}
    BY <1>5, <1>6, <1>8, <1>11
  <2>2. \A k \in 1 .. n + 1 : k \in 1 .. n \/ k = n + 1
    OBVIOUS
  <2>3. /\ \A k \in 1 .. n : g[k] = f[k]
        /\ g[n + 1] = Len(q) + 1
        /\ g \in [1 .. n + 1 -> DataPlaces(z)]
    BY <1>7, <2>1, <2>2
  <2>. HIDE DEF g
  <2>4. \A k, l \in 1 .. n + 1 : k < l => g[k] < g[l]
    <3>. TAKE k, l \in 1 .. n + 1
    <3>1. k < l => k \in 1 .. n
      OBVIOUS
    <3>2. CASE l = n + 1
      <4>1. k < l => g[k] = f[k] /\ f[k] \in 1 .. Len(q)
        BY <1>9, <2>3, <3>1
      <4>2. g[l] = Len(q) + 1
        BY <2>3, <3>2
      <4>. QED  BY <1>5, <4>1, <4>2
    <3>3. CASE l \in 1 .. n
      BY <1>7, <2>3, <3>1, <3>3
    <3>. QED  BY <2>2, <3>2, <3>3
  <2>5. \A i \in DataPlaces(z) : \E k \in 1 .. n + 1 : g[k] = i
    <3>. TAKE i \in DataPlaces(z)
    <3>1. CASE i = Len(q) + 1
      BY <2>3, <3>1
    <3>2. CASE i \in DataPlaces(q)
      <4>1. PICK k \in 1 .. n : f[k] = i
        BY <1>7, <3>2
      <4>2. k \in 1 .. n + 1
        OBVIOUS
      <4>. QED  BY <2>3, <4>1, <4>2
    <3>. QED  BY <2>1, <3>1, <3>2
  <2>6. n + 1 \in Nat /\ Lists(g, n + 1, z)
    BY <2>3, <2>4, <2>5 DEF Lists
  <2>7. /\ Payloads(z) \in Seq(Nat)
        /\ Len(Payloads(z)) = n + 1
        /\ \A k \in 1 .. n + 1 : Payloads(z)[k] = z[g[k]].id
    BY <2>6, ListPayloads
  <2>8. /\ \A k \in 1 .. n : Payloads(z)[k] = Payloads(q)[k]
        /\ Payloads(z)[n + 1] = m.id
    <3>1. \A k \in 1 .. n : k \in 1 .. n + 1
      OBVIOUS
    <3>2. \A k \in 1 .. n : Payloads(z)[k] = z[f[k]].id
      BY <2>3, <2>7, <3>1
    <3>3. n + 1 \in 1 .. n + 1
      OBVIOUS
    <3>4. Payloads(z)[n + 1] = z[Len(q) + 1].id
      BY <2>3, <2>7, <3>3
    <3>. QED  BY <1>3, <1>5, <1>9, <3>2, <3>4
  <2>9. m.id \in Nat
    BY DEF Message
  <2>10. Payloads(z) = Append(Payloads(q), m.id)
    BY <1>3, <2>7, <2>8, <2>9
  <2>. QED  BY <1>4, <1>11, <2>10
<1>. QED  BY <1>10, <1>11

(* A message at the front adds its payload at the front, if it has one.    *)
LEMMA PayloadsFront ==
  ASSUME NEW q \in Seq(Message), NEW m \in Message
  PROVE  /\ <<m>> \o q \in Seq(Message)
         /\ Payloads(<<m>> \o q) =
              IF m.type = "Data" THEN <<m.id>> \o Payloads(q) ELSE Payloads(q)
<1>1. PICK n \in Nat : \E f : Lists(f, n, q)
  BY ListExists
<1>2. PICK f : Lists(f, n, q)
  BY <1>1
<1>3. /\ Payloads(q) \in Seq(Nat)
      /\ Len(Payloads(q)) = n
      /\ \A k \in 1 .. n : Payloads(q)[k] = q[f[k]].id
  BY <1>2, ListPayloads
<1>4. <<m>> \o q \in Seq(Message)
  OBVIOUS
<1>5. PICK z \in Seq(Message) : z = <<m>> \o q
  BY <1>4
<1>6. /\ Len(q) \in Nat
      /\ Len(z) = Len(q) + 1
      /\ z[1] = m
      /\ \A i \in 1 .. Len(q) : z[i + 1] = q[i]
  BY <1>5
<1>7. /\ DataPlaces(q) = {i \in 1 .. Len(q) : q[i].type = "Data"}
      /\ DataPlaces(z) = {i \in 1 .. Len(z) : z[i].type = "Data"}
  BY PlaceFacts
<1>8. /\ f \in [1 .. n -> DataPlaces(q)]
      /\ \A k, l \in 1 .. n : k < l => f[k] < f[l]
      /\ \A i \in DataPlaces(q) : \E k \in 1 .. n : f[k] = i
  BY <1>2 DEF Lists
<1>9. \A i \in 1 .. Len(z) :
        i = 1 \/ (i - 1 \in 1 .. Len(q) /\ z[i] = q[i - 1])
  <2>. TAKE i \in 1 .. Len(z)
  <2>1. i # 1 => i - 1 \in 1 .. Len(q) /\ (i - 1) + 1 = i
    BY <1>6
  <2>. QED  BY <1>6, <2>1
<1>10. \A i \in 1 .. Len(q) : i + 1 \in 1 .. Len(z)
  BY <1>6
<1>11. \A k \in 1 .. n : /\ f[k] \in 1 .. Len(q)
                         /\ z[f[k] + 1] = q[f[k]]
                         /\ f[k] + 1 \in DataPlaces(z)
  BY <1>6, <1>7, <1>8, <1>10
<1>12. \A i \in DataPlaces(z) : i = 1 \/ \E k \in 1 .. n : f[k] + 1 = i
  <2>. TAKE i \in DataPlaces(z)
  <2>1. i # 1 => i - 1 \in DataPlaces(q)
    BY <1>7, <1>9
  <2>2. ASSUME NEW k \in 1 .. n, f[k] = i - 1 PROVE f[k] + 1 = i
    BY <1>7, <2>2
  <2>. QED  BY <1>8, <2>1, <2>2
<1>13. CASE m.type # "Data"
  <2>. DEFINE g == [k \in 1 .. n |-> f[k] + 1]
  <2>1. g \in [1 .. n -> DataPlaces(z)] /\ \A k \in 1 .. n : g[k] = f[k] + 1
    BY <1>11
  <2>. HIDE DEF g
  <2>2. \A k, l \in 1 .. n : k < l => g[k] < g[l]
    BY <1>8, <1>11, <2>1
  <2>3. 1 \notin DataPlaces(z)
    BY <1>6, <1>7, <1>13
  <2>4. \A i \in DataPlaces(z) : \E k \in 1 .. n : g[k] = i
    BY <1>12, <2>1, <2>3
  <2>5. Lists(g, n, z)
    BY <2>1, <2>2, <2>4 DEF Lists
  <2>6. /\ Payloads(z) \in Seq(Nat)
        /\ Len(Payloads(z)) = n
        /\ \A k \in 1 .. n : Payloads(z)[k] = q[f[k]].id
    BY <1>11, <2>1, <2>5, ListPayloads
  <2>7. Payloads(z) = Payloads(q)
    <3>1. \A k \in 1 .. Len(Payloads(z)) : Payloads(z)[k] = Payloads(q)[k]
      BY <1>3, <2>6
    <3>. QED  BY <1>3, <2>6, <3>1, SameElements
  <2>. QED  BY <1>4, <1>5, <1>13, <2>7
<1>14. CASE m.type = "Data"
  <2>. DEFINE g == [k \in 1 .. n + 1 |-> IF k = 1 THEN 1 ELSE f[k - 1] + 1]
  <2>1. 1 \in DataPlaces(z)
    BY <1>6, <1>7, <1>14
  <2>2. \A k \in 1 .. n + 1 : k = 1 \/ k - 1 \in 1 .. n
    OBVIOUS
  <2>3. /\ g[1] = 1
        /\ \A k \in 1 .. n + 1 : k # 1 => g[k] = f[k - 1] + 1
        /\ g \in [1 .. n + 1 -> DataPlaces(z)]
    BY <1>11, <2>1, <2>2
  <2>. HIDE DEF g
  <2>4. \A k, l \in 1 .. n + 1 : k < l => g[k] < g[l]
    <3>. TAKE k, l \in 1 .. n + 1
    <3>1. k < l => l # 1 /\ l - 1 \in 1 .. n
      BY <2>2
    <3>2. CASE k = 1
      BY <1>11, <2>3, <3>1, <3>2
    <3>3. CASE k # 1
      <4>1. k < l => k - 1 < l - 1 /\ k - 1 \in 1 .. n
        BY <2>2, <3>3
      <4>2. k < l => f[k - 1] < f[l - 1]
        BY <1>8, <3>1, <4>1
      <4>3. k < l => f[k - 1] \in Nat /\ f[l - 1] \in Nat
        BY <1>11, <3>1, <4>1
      <4>. QED  BY <2>3, <3>1, <3>3, <4>2, <4>3
    <3>. QED  BY <3>2, <3>3
  <2>5. \A i \in DataPlaces(z) : \E k \in 1 .. n + 1 : g[k] = i
    <3>. TAKE i \in DataPlaces(z)
    <3>1. 1 \in 1 .. n + 1
      OBVIOUS
    <3>2. ASSUME NEW k \in 1 .. n, f[k] + 1 = i
          PROVE  k + 1 \in 1 .. n + 1 /\ g[k + 1] = i
      <4>1. k + 1 \in 1 .. n + 1 /\ k + 1 # 1 /\ (k + 1) - 1 = k
        OBVIOUS
      <4>. QED  BY <2>3, <3>2, <4>1
    <3>. QED  BY <1>12, <2>3, <3>1, <3>2
  <2>6. n + 1 \in Nat /\ Lists(g, n + 1, z)
    BY <2>3, <2>4, <2>5 DEF Lists
  <2>7. /\ Payloads(z) \in Seq(Nat)
        /\ Len(Payloads(z)) = n + 1
        /\ \A k \in 1 .. n + 1 : Payloads(z)[k] = z[g[k]].id
    BY <2>6, ListPayloads
  <2>8. m.id \in Nat
    BY DEF Message
  <2>9. PICK p \in Seq(Nat) : p = <<m.id>> \o Payloads(q)
    <3>1. <<m.id>> \in Seq(Nat)
      BY <2>8
    <3>2. <<m.id>> \o Payloads(q) \in Seq(Nat)
      BY <1>3, <3>1
    <3>. QED  BY <3>2
  <2>10. /\ Len(p) = n + 1
         /\ p[1] = m.id
         /\ \A k \in 1 .. n + 1 : k # 1 => p[k] = Payloads(q)[k - 1]
    BY <1>3, <2>8, <2>9
  <2>11. \A k \in 1 .. n + 1 : Payloads(z)[k] = p[k]
    <3>. TAKE k \in 1 .. n + 1
    <3>1. CASE k = 1
      BY <1>6, <2>3, <2>7, <2>10, <3>1
    <3>2. CASE k # 1
      <4>1. k - 1 \in 1 .. n
        BY <2>2, <3>2
      <4>2. g[k] = f[k - 1] + 1
        BY <2>3, <3>2
      <4>3. Payloads(z)[k] = q[f[k - 1]].id
        BY <1>11, <2>7, <4>1, <4>2
      <4>. QED  BY <1>3, <2>10, <3>2, <4>1, <4>3
    <3>. QED  BY <3>1, <3>2
  <2>12. Payloads(z) = p
    BY <2>7, <2>10, <2>11
  <2>. QED  BY <1>4, <1>5, <1>14, <2>9, <2>12
<1>. QED  BY <1>13, <1>14

(* What send() does to the payloads of the queue, and of what is left of   *)
(* it when its front is gone: a payload goes behind all others, a Ping or  *)
(* a Pong changes nothing.                                                 *)
LEMMA PayloadsEnqueue ==
  ASSUME NEW q \in Seq(Message), NEW m \in Message
  PROVE  /\ m.type # "Data" =>
              /\ Payloads(Enqueue(q, m)) = Payloads(q)
              /\ q # <<>> =>
                   Payloads(Dequeue(Enqueue(q, m))) = Payloads(Dequeue(q))
         /\ m.type = "Data" =>
              /\ Payloads(Enqueue(q, m)) = Append(Payloads(q), m.id)
              /\ q # <<>> =>
                   Payloads(Dequeue(Enqueue(q, m)))
                     = Append(Payloads(Dequeue(q)), m.id)
<1>1. CASE q # <<>> /\ IsControl(m)
  <2>1. PICK h \in Message, t \in Seq(Message) :
          h = Head(q) /\ t = Tail(q) /\ q = <<h>> \o t
    <3>1. /\ Head(q) \in Message
          /\ Tail(q) \in Seq(Message)
          /\ q = <<Head(q)>> \o Tail(q)
      BY <1>1
    <3>. QED  BY <3>1
  <2>2. PICK z \in Seq(Message) : z = <<m>> \o t
    BY <2>1, PayloadsFront
  <2>3. <<h, m>> \o t = <<h>> \o (<<m>> \o t)
    BY <2>1
  <2>4. Enqueue(q, m) = <<h>> \o z
    BY <1>1, <2>1, <2>2, <2>3 DEF Enqueue
  <2>5. <<h>> \o z # <<>> /\ Tail(<<h>> \o z) = z
    BY <2>1, <2>2
  <2>6. Dequeue(Enqueue(q, m)) = z /\ Dequeue(q) = t
    BY <1>1, <2>1, <2>4, <2>5 DEF Dequeue
  <2>7. m.type # "Data"
    BY <1>1 DEF IsControl
  <2>8. Payloads(z) = Payloads(t)
    BY <2>1, <2>2, <2>7, PayloadsFront
  <2>9. \A s \in Seq(Message) :
          Payloads(<<h>> \o s) = IF h.type = "Data"
                                 THEN <<h.id>> \o Payloads(s)
                                 ELSE Payloads(s)
    BY <2>1, PayloadsFront
  <2>10. Payloads(<<h>> \o z) = Payloads(<<h>> \o t)
    BY <2>1, <2>2, <2>8, <2>9, Zenon
  <2>. QED  BY <2>1, <2>4, <2>6, <2>7, <2>8, <2>10
<1>2. CASE ~(q # <<>> /\ IsControl(m))
  <2>1. Enqueue(q, m) = Append(q, m)
    BY <1>2 DEF Enqueue
  <2>2. q # <<>> => /\ Dequeue(q) = Tail(q)
                    /\ Dequeue(Append(q, m)) = Append(Tail(q), m)
                    /\ Tail(q) \in Seq(Message)
    BY DEF Dequeue
  <2>3. q # <<>> =>
          Payloads(Append(Tail(q), m)) = IF m.type = "Data"
                                         THEN Append(Payloads(Tail(q)), m.id)
                                         ELSE Payloads(Tail(q))
    BY <2>2, PayloadsAppend
  <2>4. Payloads(Append(q, m)) = IF m.type = "Data"
                                 THEN Append(Payloads(q), m.id)
                                 ELSE Payloads(q)
    BY PayloadsAppend
  <2>. QED  BY <2>1, <2>2, <2>3, <2>4
<1>. QED  BY <1>1, <1>2

(* send() always changes the queue.                                        *)
LEMMA EnqueueGrows ==
  ASSUME NEW q \in Seq(Message), NEW m \in Message
  PROVE  Enqueue(q, m) # q
<1>1. CASE q # <<>> /\ IsControl(m)
  <2>1. PICK h \in Message, t \in Seq(Message) :
          h = Head(q) /\ t = Tail(q) /\ Len(q) = Len(t) + 1
    <3>1. /\ Head(q) \in Message
          /\ Tail(q) \in Seq(Message)
          /\ Len(q) = Len(Tail(q)) + 1
      BY <1>1
    <3>. QED  BY <3>1
  <2>2. Len(<<h, m>> \o t) = Len(t) + 2 /\ Len(t) \in Nat
    BY <2>1
  <2>3. Enqueue(q, m) = <<h, m>> \o t
    BY <1>1, <2>1 DEF Enqueue
  <2>4. Len(t) + 1 # Len(t) + 2
    BY <2>2
  <2>. QED  BY <2>1, <2>2, <2>3, <2>4, Zenon
<1>2. CASE ~(q # <<>> /\ IsControl(m))
  <2>1. Enqueue(q, m) = Append(q, m)
    BY <1>2 DEF Enqueue
  <2>2. Len(Append(q, m)) = Len(q) + 1 /\ Len(q) \in Nat
    OBVIOUS
  <2>. QED  BY <2>1, <2>2
<1>. QED  BY <1>1, <1>2

-----------------------------------------------------------------------------
(* Payloads reach receiveHandler_ in the order they were received.         *)

FrameTasks ==
  {task \in SocketTask : task.op \in {"handleReadHeader", "handleReadBody"}}

(* Frames are read, and payloads wait, only once the session is open.      *)
HasRead ==
  \/ readStrand # <<>>
  \/ reading \in {"header", "body"}
  \/ Waits(FrameTasks, socketStrand)

ReadsOnlyOpen == HasRead => stage = "open"

(* The payload of the last frame is yet to be passed on.                   *)
FrameIsDue == reading = "body" \/ Waits(ReadSuccess, socketStrand)

(* The payloads wait for receiveHandler_ in the order they were received.  *)
OrderInv ==
  /\ \A i, j \in 1 .. Len(readStrand) : i < j => readStrand[i] < readStrand[j]
  /\ \A i \in 1 .. Len(readStrand) :
       delivered < readStrand[i] /\ readStrand[i] <= received
  /\ delivered <= received
  /\ FrameIsDue =>
       /\ delivered < received
       /\ \A i \in 1 .. Len(readStrand) : readStrand[i] < received

(* A read handler that comes to its end with a message.                    *)
PassesOn ==
  /\ HandleReadHeader \/ HandleReadBody
  /\ Head(socketStrand).error = "ok"
  /\ MessageRead

(* The end of a read posts a read handler; the end of the handshake does   *)
(* not.                                                                    *)
LEMMA CompleteReadFrames ==
  ASSUME TypeInv, NEW error \in Error, CompleteRead(error)
  PROVE  /\ reading' = "none"
         /\ Waits(FrameTasks, socketStrand') =>
              \/ Waits(FrameTasks, socketStrand)
              \/ reading \in {"header", "body"}
         /\ Waits(ReadSuccess, socketStrand') =>
              \/ Waits(ReadSuccess, socketStrand)
              \/ reading = "body"
              \/ received' = received + 1
<1>. DEFINE end == Completion(CompletionHandler[reading], error)
<1>1. /\ socketStrand \in Seq(SocketTask)
      /\ reading \in {"handshake", "header", "body"}
  BY DEF TypeInv, TypeOK, DataTypes, CompleteRead
<1>2. /\ end \in SocketTask
      /\ end \in FrameTasks => reading \in {"header", "body"}
      /\ end \in ReadSuccess =>
           reading \in {"header", "body"} /\ error = "ok"
  BY <1>1, TaskTypes DEF CompletionHandler, Completion, FrameTasks, ReadSuccess
<1>3. socketStrand' = Append(socketStrand, end) /\ reading' = "none"
  BY DEF CompleteRead
<1>4. reading = "header" /\ error = "ok" => received' = received + 1
  BY DEF CompleteRead
<1>. HIDE DEF end
<1>. QED  BY <1>1, <1>2, <1>3, <1>4, WaitsAppend

(* The steps that open the session or close it post no read handler.       *)
LEMMA StagePosts ==
  ASSUME TypeInv, Open \/ \E context \in Context : CommitClose(context)
  PROVE  /\ Waits(FrameTasks, socketStrand') => Waits(FrameTasks, socketStrand)
         /\ Waits(ReadSuccess, socketStrand')
              => Waits(ReadSuccess, socketStrand)
<1>1. /\ socketStrand \in Seq(SocketTask)
      /\ \A op \in {"asyncHandshake", "close"} :
           /\ Task(op) \in SocketTask
           /\ Task(op) \notin FrameTasks
           /\ Task(op) \notin ReadSuccess
  BY TaskTypes DEF TypeInv, TypeOK, DataTypes, Task, FrameTasks, ReadSuccess
<1>2. \E op \in {"asyncHandshake", "close"} :
        socketStrand' = Append(socketStrand, Task(op))
  BY DEF Open, CommitClose
<1>. QED  BY <1>1, <1>2, WaitsAppend

(* What the other steps do.                                                *)
LEMMA FramePosts ==
  ASSUME TypeInv, Next, ~StageStep
  PROVE  /\ Waits(FrameTasks, socketStrand') => Waits(FrameTasks, socketStrand)
         /\ Waits(ReadSuccess, socketStrand')
              => Waits(ReadSuccess, socketStrand)
<1>1. FrameTasks \cap Ordinary = {} /\ ReadSuccess \cap Ordinary = {}
  BY DEF FrameTasks, ReadSuccess, Ordinary
<1>. QED  BY <1>1, OrdinaryStep DEF PostsNoMore

(* A read handler runs on an open session only.                            *)
LEMMA ReadsOnlyOpenInductive ==
  TypeInv /\ ReadsOnlyOpen /\ [Next]_vars => ReadsOnlyOpen'
<1>. SUFFICES ASSUME TypeInv, ReadsOnlyOpen, [Next]_vars, HasRead'
              PROVE  stage' = "open"
  BY DEF ReadsOnlyOpen
<1>1. /\ socketStrand \in Seq(SocketTask)
      /\ readStrand \in Seq(1 .. MaxFrames)
  BY DEF TypeInv, TypeOK, DataTypes
<1>2. CASE UNCHANGED vars
  <2>1. HasRead' <=> HasRead
    BY <1>2 DEF vars, strandVars, socketVars, HasRead
  <2>. QED  BY <1>2, <2>1 DEF vars, objectVars, ReadsOnlyOpen
<1>3. stage = "open" /\ Next => stage' = "open"
  BY DEF Next, OwnerStep, SocketStep, TimerStep, NetworkStep,
     Open, OwnerClose, OwnerCancel, AsyncHandshake, HandleHandshake,
     HandshakeSucceeded, HandshakeAborted, HandshakeFailed,
     HandleReadHeader, HandleReadBody, Receive, AsyncWrite, HandleWrite,
     CancelSocket, CloseSocket, CommitClose,
     StampLastTimeRead, RestartReadTimer, CancelReadTimer, RunTimerTask,
     TimerExpires, HandleReadTimeOut, CheckReadTimeOut, CompleteRead,
     CompleteWrite, objectVars
<1>4. CASE Next /\ HandleHandshake /\ HandshakeSucceeded
  BY <1>4 DEF HandshakeSucceeded
<1>5. CASE \E error \in Error : CompleteRead(error)
  <2>1. PICK error \in Error : CompleteRead(error)
    BY <1>5
  <2>2. readStrand' = readStrand
    BY <2>1 DEF CompleteRead
  <2>3. HasRead
    BY <2>1, <2>2, CompleteReadFrames DEF HasRead
  <2>. QED  BY <1>3, <2>1, <2>3 DEF ReadsOnlyOpen, Next, NetworkStep
<1>6. CASE HandleReadHeader \/ HandleReadBody
  <2>1. Waits(FrameTasks, socketStrand)
    <3>1. PICK op \in {"handleReadHeader", "handleReadBody"} : SocketTurn(op)
      BY <1>6 DEF HandleReadHeader, HandleReadBody
    <3>2. Head(socketStrand) \in FrameTasks
      BY <1>1, <3>1, TurnFacts DEF FrameTasks
    <3>. QED  BY <1>1, <3>1, <3>2, TurnFacts
  <2>. QED  BY <1>3, <1>6, <2>1 DEF ReadsOnlyOpen, HasRead, Next, SocketStep
<1>7. CASE /\ Next
           /\ ~(HandleHandshake /\ HandshakeSucceeded)
           /\ ~(\E error \in Error : CompleteRead(error))
           /\ ~(HandleReadHeader \/ HandleReadBody)
  <2>1. Waits(FrameTasks, socketStrand') => Waits(FrameTasks, socketStrand)
    <3>1. CASE StageStep
      BY <1>7, <3>1, StagePosts DEF StageStep
    <3>2. CASE ~StageStep
      BY <1>7, <3>2, FramePosts
    <3>. QED  BY <3>1, <3>2
  <2>2. /\ readStrand' # <<>> => readStrand # <<>>
        /\ reading' \in {"header", "body"} => reading \in {"header", "body"}
    <3>1. /\ readStrand' = readStrand \/ Receive
          /\ reading' \in {"header", "body"} => reading \in {"header", "body"}
      BY <1>7 DEF Next, OwnerStep, SocketStep, TimerStep, NetworkStep,
         Open, OwnerClose, OwnerCancel, AsyncHandshake, HandleHandshake,
         HandshakeAborted, HandshakeFailed, Receive, AsyncWrite, HandleWrite,
         CancelSocket, CloseSocket, CommitClose,
         StampLastTimeRead, RestartReadTimer, CancelReadTimer, RunTimerTask,
         TimerExpires, HandleReadTimeOut, CheckReadTimeOut, CompleteWrite,
         strandVars, socketVars
    <3>2. Receive => readStrand # <<>>
      BY DEF Receive, ReadTurn
    <3>. QED  BY <3>1, <3>2
  <2>3. HasRead
    BY <2>1, <2>2 DEF HasRead
  <2>. QED  BY <1>3, <1>7, <2>3 DEF ReadsOnlyOpen
<1>. QED  BY <1>2, <1>4, <1>5, <1>6, <1>7

(* A frame becomes due when a header was read: it has the next number.     *)
LEMMA NewFrameIsDue ==
  ASSUME TypeInv, Next, FrameIsDue', ~FrameIsDue
  PROVE  received' = received + 1
<1>1. socketStrand \in Seq(SocketTask)
  BY DEF TypeInv, TypeOK, DataTypes
<1>2. HandleReadHeader \/ HandleReadBody => Head(socketStrand).error # "ok"
  <2>. SUFFICES ASSUME HandleReadHeader \/ HandleReadBody,
                       Head(socketStrand).error = "ok"
                PROVE  FALSE
    OBVIOUS
  <2>1. PICK op \in {"handleReadHeader", "handleReadBody"} : SocketTurn(op)
    BY DEF HandleReadHeader, HandleReadBody
  <2>2. Head(socketStrand) \in ReadSuccess
    BY <1>1, <2>1, TurnFacts DEF ReadSuccess
  <2>. QED  BY <1>1, <2>1, <2>2, TurnFacts DEF FrameIsDue
<1>3. CASE \E error \in Error : CompleteRead(error)
  BY <1>3, CompleteReadFrames DEF FrameIsDue
<1>4. CASE ~(\E error \in Error : CompleteRead(error))
  <2>1. Waits(ReadSuccess, socketStrand') => Waits(ReadSuccess, socketStrand)
    <3>1. CASE StageStep
      BY <1>4, <3>1, StagePosts DEF StageStep
    <3>2. CASE ~StageStep
      BY <3>2, FramePosts
    <3>. QED  BY <3>1, <3>2
  <2>2. reading' = "body" => reading = "body"
    <3>1. CASE HandleReadHeader \/ HandleReadBody
      BY <1>2, <3>1 DEF HandleReadHeader, HandleReadBody, ReadAbandoned,
         ReadFailed
    <3>2. CASE ~(HandleReadHeader \/ HandleReadBody)
      BY <1>4, <3>2 DEF Next, OwnerStep, SocketStep, TimerStep, NetworkStep,
         Open, OwnerClose, OwnerCancel, AsyncHandshake, HandleHandshake,
         HandshakeSucceeded, HandshakeAborted, HandshakeFailed, Receive,
         AsyncWrite, HandleWrite, CancelSocket, CloseSocket, CommitClose,
         StampLastTimeRead, RestartReadTimer, CancelReadTimer, RunTimerTask,
         TimerExpires, HandleReadTimeOut, CheckReadTimeOut, CompleteWrite,
         socketVars
    <3>. QED  BY <3>1, <3>2
  <2>. QED  BY <2>1, <2>2 DEF FrameIsDue
<1>. QED  BY <1>3, <1>4

(* A frame that is passed on was due, and is so no more.                   *)
LEMMA PassedOn ==
  ASSUME TypeInv, OneRead, PassesOn
  PROVE  FrameIsDue /\ ~FrameIsDue'
<1>1. socketStrand \in Seq(SocketTask)
  BY DEF TypeInv, TypeOK, DataTypes
<1>2. PICK op \in {"handleReadHeader", "handleReadBody"} : SocketTurn(op)
  BY DEF PassesOn, HandleReadHeader, HandleReadBody
<1>3. FrameIsDue
  <2>1. Head(socketStrand) \in ReadSuccess
    BY <1>1, <1>2, TurnFacts DEF PassesOn, ReadSuccess
  <2>. QED  BY <1>1, <1>2, <2>1, TurnFacts DEF FrameIsDue
<1>4. ~Waits(ReadSuccess, socketStrand')
  <2>1. ~Waits(ReadTasks, socketStrand')
    BY ReadTurnPosts DEF PassesOn, ReadTurns
  <2>2. ReadSuccess \subseteq ReadTasks
    BY DEF ReadSuccess, ReadTasks
  <2>. QED  BY <2>1, <2>2 DEF Waits
<1>5. reading' = "header"
  BY DEF PassesOn, MessageRead, StartRead
<1>. QED  BY <1>3, <1>4, <1>5 DEF FrameIsDue

(* OrderInv is inductive.                                                  *)
LEMMA OrderInvInductive ==
  TypeInv /\ OneRead /\ OrderInv /\ [Next]_vars /\ TypeInv' => OrderInv'
<1>. SUFFICES ASSUME TypeInv, OneRead, OrderInv, [Next]_vars, TypeInv'
              PROVE  OrderInv'
  OBVIOUS
<1>1. /\ readStrand \in Seq(1 .. MaxFrames)
      /\ delivered \in Nat
      /\ received \in Nat
      /\ received' \in Nat
      /\ Len(readStrand) \in Nat
      /\ \A i \in 1 .. Len(readStrand) : readStrand[i] \in Nat
  <2>1. /\ readStrand \in Seq(1 .. MaxFrames)
        /\ delivered \in 0 .. MaxFrames
        /\ received \in 0 .. MaxFrames
        /\ received' \in 0 .. MaxFrames
    BY DEF TypeInv, TypeOK, DataTypes
  <2>2. /\ Len(readStrand) \in Nat
        /\ \A i \in 1 .. Len(readStrand) : readStrand[i] \in 1 .. MaxFrames
    BY <2>1, ElementFacts
  <2>. QED  BY <2>1, <2>2, SessionAssumption
<1>2. CASE UNCHANGED vars
  <2>1. FrameIsDue' <=> FrameIsDue
    BY <1>2 DEF vars, strandVars, socketVars, FrameIsDue
  <2>. QED  BY <1>2, <2>1 DEF OrderInv, vars, strandVars, historyVars
<1>3. CASE PassesOn
  <2>1. FrameIsDue /\ ~FrameIsDue'
    BY <1>3, PassedOn
  <2>2. /\ readStrand' \in {readStrand, Append(readStrand, received)}
        /\ received' = received
        /\ delivered' = delivered
    BY <1>3 DEF PassesOn, HandleReadHeader, HandleReadBody, MessageRead,
       OnMessageReceived, historyVars
  <2>3. /\ delivered < received
        /\ \A i \in 1 .. Len(readStrand) : readStrand[i] < received
    BY <2>1 DEF OrderInv
  <2>4. CASE readStrand' = readStrand
    BY <2>1, <2>2, <2>4 DEF OrderInv
  <2>5. CASE readStrand' = Append(readStrand, received)
    <3>1. received \in 1 .. MaxFrames
      BY <2>1 DEF TypeInv, TypeOK, DataTypes, FrameWasRead, FrameIsDue
    <3>2. /\ Len(readStrand') = Len(readStrand) + 1
          /\ \A i \in 1 .. Len(readStrand) : readStrand'[i] = readStrand[i]
          /\ readStrand'[Len(readStrand) + 1] = received
      BY <1>1, <2>5, <3>1, AppendFacts
    <3>3. \A i \in 1 .. Len(readStrand') :
            i \in 1 .. Len(readStrand) \/ i = Len(readStrand) + 1
      BY <1>1, <3>2
    <3>4. \A i, j \in 1 .. Len(readStrand') :
            i < j => readStrand'[i] < readStrand'[j]
      BY <1>1, <2>3, <3>2, <3>3 DEF OrderInv
    <3>5. \A i \in 1 .. Len(readStrand') :
            delivered < readStrand'[i] /\ readStrand'[i] <= received
      BY <1>1, <2>3, <3>2, <3>3 DEF OrderInv
    <3>. QED  BY <2>1, <2>2, <2>3, <3>4, <3>5 DEF OrderInv
  <2>. QED  BY <2>2, <2>4, <2>5
<1>4. CASE Receive
  <2>1. /\ readStrand # <<>>
        /\ readStrand' = Tail(readStrand)
        /\ delivered' = Head(readStrand)
        /\ received' = received
    BY <1>4 DEF Receive, ReadTurn
  <2>2. /\ Len(readStrand') = Len(readStrand) - 1
        /\ \A i \in 1 .. Len(readStrand') : readStrand'[i] = readStrand[i + 1]
        /\ delivered' = readStrand[1]
        /\ Len(readStrand) > 0
    BY <1>1, <2>1, TailFacts
  <2>3. \A i \in 1 .. Len(readStrand') : i + 1 \in 1 .. Len(readStrand)
    BY <1>1, <2>2
  <2>4. FrameIsDue' => FrameIsDue
    BY <1>1, <1>4, <2>1, NewFrameIsDue DEF Next
  <2>5. \A i, j \in 1 .. Len(readStrand') :
          i < j => readStrand'[i] < readStrand'[j]
    <3>. TAKE i, j \in 1 .. Len(readStrand')
    <3>1. i < j => i + 1 < j + 1
      BY <1>1, <2>2
    <3>. QED  BY <2>2, <2>3, <3>1 DEF OrderInv
  <2>6. 1 \in 1 .. Len(readStrand)
    BY <1>1, <2>2
  <2>7. \A i \in 1 .. Len(readStrand') :
          delivered' < readStrand'[i] /\ readStrand'[i] <= received
    <3>. TAKE i \in 1 .. Len(readStrand')
    <3>1. 1 < i + 1 /\ readStrand'[i] = readStrand[i + 1]
      BY <1>1, <2>2
    <3>. QED  BY <1>1, <2>2, <2>3, <2>6, <3>1 DEF OrderInv
  <2>8. delivered' <= received
    BY <2>2, <2>6 DEF OrderInv
  <2>9. FrameIsDue =>
          /\ delivered' < received
          /\ \A i \in 1 .. Len(readStrand') : readStrand'[i] < received
    BY <2>2, <2>3, <2>6 DEF OrderInv
  <2>. QED  BY <2>1, <2>4, <2>5, <2>7, <2>8, <2>9 DEF OrderInv
<1>5. CASE Next /\ ~PassesOn /\ ~Receive
  <2>1. readStrand' = readStrand /\ delivered' = delivered
    <3>1. CASE HandleReadHeader \/ HandleReadBody
      BY <1>5, <3>1 DEF PassesOn, HandleReadHeader, HandleReadBody,
         ReadAbandoned, ReadFailed, BodyFollows, historyVars
    <3>2. CASE ~(HandleReadHeader \/ HandleReadBody)
      BY <1>5, <3>2 DEF Next, OwnerStep, SocketStep, TimerStep, NetworkStep,
         Open, OwnerClose, OwnerCancel, AsyncHandshake, HandleHandshake,
         AsyncWrite, HandleWrite, CancelSocket, CloseSocket, CommitClose,
         StampLastTimeRead, RestartReadTimer, CancelReadTimer, RunTimerTask,
         TimerExpires, HandleReadTimeOut, CheckReadTimeOut, CompleteRead,
         CompleteWrite, strandVars, historyVars
    <3>. QED  BY <3>1, <3>2
  <2>2. received' \in {received, received + 1}
    BY <1>5 DEF Next, OwnerStep, SocketStep, TimerStep, NetworkStep,
       Open, OwnerClose, OwnerCancel, AsyncHandshake, HandleHandshake,
       HandleReadHeader, HandleReadBody,
       AsyncWrite, HandleWrite, CancelSocket, CloseSocket, CommitClose,
       StampLastTimeRead, RestartReadTimer, CancelReadTimer, RunTimerTask,
       TimerExpires, HandleReadTimeOut, CheckReadTimeOut, CompleteRead,
       CompleteWrite, historyVars
  <2>3. FrameIsDue' => FrameIsDue \/ received' = received + 1
    BY <1>5, NewFrameIsDue
  <2>4. /\ \A i \in 1 .. Len(readStrand) :
             delivered < readStrand[i] /\ readStrand[i] <= received'
        /\ delivered <= received'
    BY <1>1, <2>2 DEF OrderInv
  <2>5. FrameIsDue' =>
          /\ delivered < received'
          /\ \A i \in 1 .. Len(readStrand) : readStrand[i] < received'
    <3>1. CASE FrameIsDue
      BY <1>1, <2>2, <3>1 DEF OrderInv
    <3>2. CASE received' = received + 1
      BY <1>1, <3>2 DEF OrderInv
    <3>. QED  BY <2>3, <3>1, <3>2
  <2>. QED  BY <2>1, <2>4, <2>5 DEF OrderInv
<1>. QED  BY <1>2, <1>3, <1>4, <1>5

(* Every reachable state satisfies them.                                   *)
LEMMA OrderInvariant == Spec => [](ReadsOnlyOpen /\ OrderInv)
<1>1. Init => ReadsOnlyOpen /\ OrderInv
  BY NoneWaits DEF Init, ReadsOnlyOpen, HasRead, OrderInv, FrameIsDue
<1>. QED  BY <1>1, TypeInvariant, OneReadInvariant, ReadsOnlyOpenInductive,
     OrderInvInductive, PTL DEF Spec

-----------------------------------------------------------------------------
(* Refinement of SessionPromise: what each step does to the outbox.        *)

EndTasks == {task \in SocketTask : task.op = "handleWrite"}

(* What the outbox is made of while the socket is open, and from then on.  *)
Unsent(q, strand) == IF Waits(EndTasks, strand) THEN Dequeue(q) ELSE q

InFlight(w) == IF w # NoMessage THEN <<w>> ELSE <<>>

Box(q, strand, w) ==
  InFlight(w) \o
    (IF w # NoMessage \/ Waits(EndTasks, strand) THEN Dequeue(q) ELSE q)

(* Where completion handlers of writes wait.                               *)
LEMMA EndFacts ==
  /\ EndTasks \subseteq WriteTasks
  /\ \A m \in Message : WriteTask(m) \notin EndTasks
  /\ \A error \in Error : Completion("handleWrite", error) \in EndTasks
  /\ \A strand \in Seq(SocketTask) :
       Waits(EndTasks, strand)
       <=> \E i \in DOMAIN strand : strand[i].op = "handleWrite"
<1>1. EndTasks \subseteq WriteTasks
  BY DEF EndTasks, WriteTasks
<1>2. \A m \in Message : WriteTask(m) \notin EndTasks
  BY DEF EndTasks, WriteTask
<1>3. \A error \in Error : Completion("handleWrite", error) \in EndTasks
  <2>. TAKE error \in Error
  <2>1. Completion("handleWrite", error) \in SocketTask
    BY TaskTypes
  <2>. QED  BY <2>1 DEF EndTasks, Completion
<1>4. ASSUME NEW strand \in Seq(SocketTask)
      PROVE  Waits(EndTasks, strand)
             <=> \E i \in DOMAIN strand : strand[i].op = "handleWrite"
  <2>1. /\ DOMAIN strand = 1 .. Len(strand)
        /\ \A i \in 1 .. Len(strand) : strand[i] \in SocketTask
    BY ElementFacts
  <2>. QED  BY <2>1 DEF Waits, EndTasks
<1>. QED  BY <1>1, <1>2, <1>3, <1>4

(* While the socket is open, the message being written is the front of the *)
(* queue, and so the outbox is the queue, or what handleWrite() will leave *)
(* of it.                                                                  *)
LEMMA OpenBox ==
  ASSUME NEW q \in Seq(Message), NEW strand,
         NEW w \in Message \cup {NoMessage}, Consistent(q, strand, w)
  PROVE  Box(q, strand, w) = Unsent(q, strand)
<1>1. Waits(EndTasks, strand) => Waits(WriteTasks, strand)
  BY DEF Waits, EndTasks, WriteTasks
<1>2. Dequeue(q) \in Seq(Message)
  BY DequeueFacts
<1>3. CASE w = NoMessage
  <2>1. \A s \in Seq(Message) : <<>> \o s = s
    OBVIOUS
  <2>. QED  BY <1>2, <1>3, <2>1 DEF Box, Unsent, InFlight
<1>4. CASE w # NoMessage
  <2>1. ~Waits(EndTasks, strand) /\ q # <<>> /\ Head(q) = w
    BY <1>1, <1>4 DEF Consistent
  <2>2. <<w>> \o Tail(q) = q
    BY <2>1
  <2>. QED  BY <1>4, <2>1, <2>2 DEF Box, Unsent, InFlight, Dequeue
<1>. QED  BY <1>3, <1>4

(* What the outbox is before and after a step.                             *)
LEMMA OutboxFacts ==
  ASSUME TypeInv, WriteInv, TypeInv', WriteInv'
  PROVE  /\ socketOpen = TRUE =>
              Outbox = Payloads(Unsent(writeQueue, socketStrand))
         /\ socketOpen # TRUE => Outbox = Payloads(InFlight(writing))
         /\ socketOpen' = TRUE =>
              Outbox' = Payloads(Unsent(writeQueue', socketStrand'))
         /\ socketOpen' # TRUE => Outbox' = Payloads(InFlight(writing'))
<1>1. \A w \in Message \cup {NoMessage} :
        InFlight(w) \o <<>> = InFlight(w)
  BY DEF InFlight
<1>2. /\ writeQueue \in Seq(Message)
      /\ socketStrand \in Seq(SocketTask)
      /\ writing \in Message \cup {NoMessage}
  BY DEF TypeInv, TypeOK, DataTypes
<1>3. /\ writeQueue' \in Seq(Message)
      /\ socketStrand' \in Seq(SocketTask)
      /\ writing' \in Message \cup {NoMessage}
  BY DEF TypeInv, TypeOK, DataTypes
<1>4. Outbox = Payloads(IF socketOpen
                        THEN Box(writeQueue, socketStrand, writing)
                        ELSE InFlight(writing) \o <<>>)
  BY <1>2, EndFacts DEF Outbox, Box, InFlight
<1>5. Outbox' = Payloads(IF socketOpen'
                         THEN Box(writeQueue', socketStrand', writing')
                         ELSE InFlight(writing') \o <<>>)
  BY <1>3, EndFacts DEF Outbox, Box, InFlight
<1>6. socketOpen \in BOOLEAN /\ socketOpen' \in BOOLEAN
  BY Zenon DEF TypeInv, TypeOK, FlagTypes
<1>7. socketOpen = TRUE => Outbox = Payloads(Unsent(writeQueue, socketStrand))
  BY <1>2, <1>4, OpenBox DEF WriteInv
<1>8. socketOpen # TRUE => Outbox = Payloads(InFlight(writing))
  BY <1>1, <1>2, <1>4, <1>6
<1>9. socketOpen' = TRUE =>
        Outbox' = Payloads(Unsent(writeQueue', socketStrand'))
  BY <1>3, <1>5, OpenBox DEF WriteInv
<1>10. socketOpen' # TRUE => Outbox' = Payloads(InFlight(writing'))
  BY <1>1, <1>3, <1>5, <1>6
<1>. QED  BY <1>7, <1>8, <1>9, <1>10

(* send() appends a payload to the outbox, unless the socket is closed. A  *)
(* Ping or a Pong is not in the outbox.                                    *)
LEMMA SendOutbox ==
  ASSUME TypeInv, WriteInv, TypeInv', WriteInv',
         NEW strand \in Seq(SocketTask), Taken(strand),
         NEW m \in Message, Send(m, strand),
         writing' = writing, socketOpen' = socketOpen
  PROVE  /\ socketOpen = TRUE /\ m.type = "Data" =>
              Outbox' = Append(Outbox, m.id)
         /\ socketOpen # TRUE \/ m.type # "Data" => Outbox' = Outbox
<1>1. /\ writeQueue \in Seq(Message)
      /\ socketStrand \in Seq(SocketTask)
  BY DEF TypeInv, TypeOK, DataTypes
<1>2. Waits(EndTasks, strand) <=> Waits(EndTasks, socketStrand)
  BY <1>1, EndFacts, WaitsTail DEF Taken
<1>3. Waits(EndTasks, socketStrand') <=> Waits(EndTasks, socketStrand)
  BY <1>1, <1>2, EndFacts, WaitsPost DEF Send
<1>4. writeQueue' = Enqueue(writeQueue, m)
  BY DEF Send
<1>5. socketOpen = TRUE /\ Waits(EndTasks, socketStrand)
        => writeQueue # <<>>
  <2>1. Waits(EndTasks, socketStrand) => Waits(WriteTasks, socketStrand)
    BY EndFacts DEF Waits
  <2>. QED  BY <2>1 DEF WriteInv, Consistent
<1>6. CASE socketOpen # TRUE
  BY <1>6, OutboxFacts
<1>7. CASE socketOpen = TRUE /\ Waits(EndTasks, socketStrand)
  <2>1. /\ Outbox = Payloads(Dequeue(writeQueue))
        /\ Outbox' = Payloads(Dequeue(Enqueue(writeQueue, m)))
    BY <1>3, <1>4, <1>7, OutboxFacts DEF Unsent
  <2>. QED  BY <1>1, <1>5, <1>7, <2>1, PayloadsEnqueue
<1>8. CASE socketOpen = TRUE /\ ~Waits(EndTasks, socketStrand)
  <2>1. /\ Outbox = Payloads(writeQueue)
        /\ Outbox' = Payloads(Enqueue(writeQueue, m))
    BY <1>3, <1>4, <1>8, OutboxFacts DEF Unsent
  <2>. QED  BY <1>1, <1>8, <2>1, PayloadsEnqueue
<1>. QED  BY <1>6, <1>7, <1>8

(* Steps that neither call send() nor end a write leave it alone.          *)
LEMMA QuietOutbox ==
  ASSUME TypeInv, WriteInv, TypeInv', WriteInv',
         QueueStep, writeQueue' = writeQueue
  PROVE  Outbox' = Outbox
<1>1. /\ writeQueue \in Seq(Message)
      /\ socketStrand \in Seq(SocketTask)
  BY DEF TypeInv, TypeOK, DataTypes
<1>2. PICK strand \in Seq(SocketTask) : Taken(strand) /\ Posted(strand)
  BY DEF QueueStep
<1>3. Waits(EndTasks, strand) <=> Waits(EndTasks, socketStrand)
  BY <1>1, <1>2, EndFacts, WaitsTail DEF Taken
<1>4. \A m \in Message : ~Send(m, strand)
  BY <1>1, EnqueueGrows DEF Send
<1>5. ASSUME NEW task \in SocketTask \ WriteTasks,
             socketStrand' = Append(strand, task)
      PROVE  Waits(EndTasks, socketStrand') <=> Waits(EndTasks, strand)
  <2>1. task \in SocketTask /\ task \notin EndTasks
    BY EndFacts
  <2>. QED  BY <1>5, <2>1, WaitsAppend
<1>6. Waits(EndTasks, socketStrand') <=> Waits(EndTasks, socketStrand)
  BY <1>2, <1>3, <1>4, <1>5 DEF Posted
<1>7. writing' = writing /\ socketOpen' = socketOpen
  BY DEF QueueStep
<1>8. Unsent(writeQueue', socketStrand') = Unsent(writeQueue, socketStrand)
  BY <1>6 DEF Unsent
<1>9. CASE socketOpen = TRUE
  BY <1>7, <1>8, <1>9, OutboxFacts
<1>10. CASE socketOpen # TRUE
  BY <1>7, <1>10, OutboxFacts
<1>. QED  BY <1>9, <1>10

(* The handlers of a write, too: the message is in the outbox until the    *)
(* write has ended.                                                        *)
LEMMA WriteOutbox ==
  ASSUME TypeInv, WriteInv, TypeInv', WriteInv', AsyncWrite \/ HandleWrite
  PROVE  Outbox' = Outbox
<1>1. /\ writeQueue \in Seq(Message)
      /\ socketStrand \in Seq(SocketTask)
      /\ socketStrand # <<>>
      /\ Tail(socketStrand) \in Seq(SocketTask)
      /\ Head(socketStrand) \in WriteTasks
  BY TurnFacts DEF TypeInv, TypeOK, DataTypes, AsyncWrite, HandleWrite,
     SocketTurn, WriteTasks
<1>2. socketOpen = TRUE => /\ ~Waits(WriteTasks, Tail(socketStrand))
                           /\ writing = NoMessage
  <2>1. Waits(WriteTasks, socketStrand)
    BY <1>1, WaitsTail
  <2>. QED  BY <1>1, <2>1, WaitsTail DEF WriteInv, Consistent
<1>3. socketOpen = TRUE => ~Waits(EndTasks, Tail(socketStrand))
  BY <1>2, EndFacts DEF Waits
<1>4. CASE AsyncWrite /\ socketOpen = TRUE
  <2>1. Head(socketStrand) \notin EndTasks
    BY <1>4 DEF AsyncWrite, SocketTurn, EndTasks
  <2>2. ~Waits(EndTasks, socketStrand)
    BY <1>1, <1>3, <1>4, <2>1, WaitsTail
  <2>3. /\ writeQueue' = writeQueue
        /\ socketStrand' = Tail(socketStrand)
        /\ socketOpen' = TRUE
    BY <1>4 DEF AsyncWrite, objectVars
  <2>4. Unsent(writeQueue', socketStrand') = Unsent(writeQueue, socketStrand)
    BY <1>3, <1>4, <2>2, <2>3 DEF Unsent
  <2>. QED  BY <1>4, <2>3, <2>4, OutboxFacts
<1>5. CASE HandleWrite /\ socketOpen = TRUE
  <2>1. Waits(EndTasks, socketStrand)
    <3>1. Head(socketStrand) \in EndTasks
      BY <1>1, <1>5 DEF HandleWrite, SocketTurn, EndTasks, WriteTasks
    <3>. QED  BY <1>1, <3>1, WaitsTail
  <2>2. PICK rest \in Seq(SocketTask), queue \in Seq(Message) :
          /\ rest = Tail(socketStrand)
          /\ queue = Dequeue(writeQueue)
    BY <1>1, DequeueFacts
  <2>3. /\ writeQueue' = queue
        /\ socketOpen' = TRUE
        /\ socketStrand' \in {WriteNext(queue, rest), rest,
                              Append(rest, Task("cancel"))}
    BY <1>5, <2>2 DEF HandleWrite, CallClose, socketVars
  <2>4. ~Waits(EndTasks, socketStrand')
    <3>1. ~Waits(EndTasks, rest)
      BY <1>3, <1>5, <2>2
    <3>2. Task("cancel") \in SocketTask /\ Task("cancel") \notin EndTasks
      BY EndFacts, OtherTasks
    <3>3. ~Waits(EndTasks, WriteNext(queue, rest))
      BY <3>1, EndFacts, WaitsPost, TaskTypes
    <3>4. ~Waits(EndTasks, Append(rest, Task("cancel")))
      BY <3>1, <3>2, WaitsAppend
    <3>. QED  BY <2>3, <3>1, <3>3, <3>4
  <2>5. Unsent(writeQueue', socketStrand') = Unsent(writeQueue, socketStrand)
    BY <2>1, <2>2, <2>3, <2>4 DEF Unsent
  <2>. QED  BY <1>5, <2>3, <2>5, OutboxFacts
<1>6. CASE socketOpen # TRUE
  <2>1. socketOpen' = socketOpen /\ writing' = writing
    BY <1>6 DEF AsyncWrite, HandleWrite, socketVars
  <2>. QED  BY <1>6, <2>1, OutboxFacts
<1>. QED  BY <1>4, <1>5, <1>6

(* A message and what is behind it, as payloads.                           *)
LEMMA FrontFacts ==
  ASSUME NEW q \in Seq(Message), q # <<>>
  PROVE  /\ Head(q) \in Message
         /\ Tail(q) \in Seq(Message)
         /\ Payloads(Tail(q)) \in Seq(Nat)
         /\ Payloads(q) = IF Head(q).type = "Data"
                          THEN <<Head(q).id>> \o Payloads(Tail(q))
                          ELSE Payloads(Tail(q))
<1>1. PICK h \in Message, t \in Seq(Message) :
        h = Head(q) /\ t = Tail(q) /\ q = <<h>> \o t
  <2>1. /\ Head(q) \in Message
        /\ Tail(q) \in Seq(Message)
        /\ q = <<Head(q)>> \o Tail(q)
    OBVIOUS
  <2>. QED  BY <2>1
<1>2. Payloads(<<h>> \o t) = IF h.type = "Data"
                             THEN <<h.id>> \o Payloads(t)
                             ELSE Payloads(t)
  BY PayloadsFront
<1>3. Payloads(q) = Payloads(<<h>> \o t)
  BY <1>1
<1>. QED  BY <1>1, <1>2, <1>3, PayloadsType, Zenon

(* The message being written is at the front of the outbox, if it carries  *)
(* a payload.                                                              *)
LEMMA WritingOutbox ==
  ASSUME TypeInv, WriteInv, TypeInv', WriteInv', writing # NoMessage
  PROVE  \E t \in Seq(Message) :
           /\ socketOpen = TRUE => t = Tail(writeQueue)
           /\ socketOpen # TRUE => t = <<>>
           /\ Payloads(t) \in Seq(Nat)
           /\ writing.id \in Nat
           /\ Outbox = IF writing.type = "Data"
                       THEN <<writing.id>> \o Payloads(t)
                       ELSE Payloads(t)
<1>1. /\ writeQueue \in Seq(Message)
      /\ writing \in Message
      /\ writing.id \in Nat
  BY DEF TypeInv, TypeOK, DataTypes, Message
<1>2. CASE socketOpen = TRUE
  <2>1. /\ ~Waits(WriteTasks, socketStrand)
        /\ writeQueue # <<>>
        /\ Head(writeQueue) = writing
    BY <1>2 DEF WriteInv, Consistent
  <2>2. ~Waits(EndTasks, socketStrand)
    BY <2>1, EndFacts DEF Waits
  <2>3. Outbox = Payloads(writeQueue)
    BY <1>2, <2>2, OutboxFacts DEF Unsent
  <2>4. /\ Tail(writeQueue) \in Seq(Message)
        /\ Payloads(Tail(writeQueue)) \in Seq(Nat)
        /\ Payloads(writeQueue) =
             IF writing.type = "Data"
             THEN <<writing.id>> \o Payloads(Tail(writeQueue))
             ELSE Payloads(Tail(writeQueue))
    BY <1>1, <2>1, FrontFacts
  <2>. QED  BY <1>1, <1>2, <2>3, <2>4, Zenon
<1>3. CASE socketOpen # TRUE
  <2>1. PICK t \in Seq(Message) : t = <<>>
    <3>1. <<>> \in Seq(Message)
      OBVIOUS
    <3>. QED  BY <3>1
  <2>2. <<writing>> \o t = <<writing>> /\ Payloads(t) \in Seq(Nat)
    <3>1. <<writing>> \o <<>> = <<writing>>
      BY <1>1
    <3>. QED  BY <2>1, <3>1, PayloadsType
  <2>3. Outbox = Payloads(<<writing>> \o t)
    BY <1>3, <2>2, OutboxFacts DEF InFlight
  <2>4. Payloads(<<writing>> \o t) = IF writing.type = "Data"
                                     THEN <<writing.id>> \o Payloads(t)
                                     ELSE Payloads(t)
    BY <1>1, <2>1, PayloadsFront
  <2>. QED  BY <1>1, <1>3, <2>1, <2>2, <2>3, <2>4, Zenon
<1>. QED  BY <1>2, <1>3

(* The end of a write takes the front of the outbox, if what was written   *)
(* carries a payload.                                                      *)
LEMMA CompleteOutbox ==
  ASSUME TypeInv, WriteInv, TypeInv', WriteInv',
         NEW error \in Error, CompleteWrite(error)
  PROVE  /\ writing.type = "Data" =>
              /\ Outbox # <<>>
              /\ Head(Outbox) = writing.id
              /\ Outbox' = Tail(Outbox)
         /\ writing.type # "Data" => Outbox' = Outbox
<1>1. /\ socketStrand \in Seq(SocketTask)
      /\ writing # NoMessage
      /\ writing' = NoMessage
      /\ writeQueue' = writeQueue
      /\ socketOpen' = socketOpen
      /\ socketStrand' = Append(socketStrand, Completion("handleWrite", error))
  BY DEF TypeInv, TypeOK, DataTypes, CompleteWrite, objectVars
<1>2. PICK t \in Seq(Message) :
        /\ socketOpen = TRUE => t = Tail(writeQueue)
        /\ socketOpen # TRUE => t = <<>>
        /\ Payloads(t) \in Seq(Nat)
        /\ writing.id \in Nat
        /\ Outbox = IF writing.type = "Data"
                    THEN <<writing.id>> \o Payloads(t)
                    ELSE Payloads(t)
  BY <1>1, WritingOutbox
<1>3. Outbox' = Payloads(t)
  <2>1. CASE socketOpen = TRUE
    <3>1. Waits(EndTasks, socketStrand')
      BY <1>1, EndFacts, TaskTypes, WaitsAppend
    <3>2. Dequeue(writeQueue) = t
      BY <1>1, <1>2, <2>1 DEF WriteInv, Consistent, Dequeue
    <3>. QED  BY <1>1, <2>1, <3>1, <3>2, OutboxFacts DEF Unsent
  <2>2. CASE socketOpen # TRUE
    BY <1>1, <1>2, <2>2, OutboxFacts DEF InFlight
  <2>. QED  BY <2>1, <2>2
<1>4. \A p \in Seq(Nat), n \in Nat :
        /\ <<n>> \o p # <<>>
        /\ Head(<<n>> \o p) = n
        /\ Tail(<<n>> \o p) = p
  OBVIOUS
<1>. QED  BY <1>2, <1>3, <1>4

(* The first close of the socket leaves the message being written, if any. *)
LEMMA CloseOutbox ==
  ASSUME TypeInv, WriteInv, TypeInv', WriteInv', CloseSocket
  PROVE  /\ socketOpen # TRUE => Outbox' = Outbox
         /\ socketOpen = TRUE =>
              \/ Outbox' = <<>>
              \/ Outbox # <<>> /\ Outbox' = <<Head(Outbox)>>
<1>1. writing' = writing /\ socketOpen' = FALSE
  BY DEF CloseSocket
<1>2. Outbox' = Payloads(InFlight(writing))
  BY <1>1, OutboxFacts
<1>3. CASE socketOpen # TRUE
  BY <1>2, <1>3, OutboxFacts
<1>4. CASE socketOpen = TRUE /\ writing = NoMessage
  BY <1>2, <1>4, PayloadsEmpty DEF InFlight
<1>5. CASE socketOpen = TRUE /\ writing # NoMessage
  <2>1. PICK t \in Seq(Message) :
          /\ Payloads(t) \in Seq(Nat)
          /\ writing.id \in Nat
          /\ Outbox = IF writing.type = "Data"
                      THEN <<writing.id>> \o Payloads(t)
                      ELSE Payloads(t)
    BY <1>5, WritingOutbox
  <2>2. PICK e \in Seq(Message) : e = <<>>
    <3>1. <<>> \in Seq(Message)
      OBVIOUS
    <3>. QED  BY <3>1
  <2>3. writing \in Message
    BY <1>5 DEF TypeInv, TypeOK, DataTypes
  <2>4. <<writing>> \o e = <<writing>> /\ Payloads(e) = <<>>
    BY <2>2, <2>3, PayloadsEmpty
  <2>5. Payloads(<<writing>> \o e) = IF writing.type = "Data"
                                     THEN <<writing.id>> \o Payloads(e)
                                     ELSE Payloads(e)
    BY <2>2, <2>3, PayloadsFront
  <2>6. Outbox' = IF writing.type = "Data" THEN <<writing.id>> ELSE <<>>
    <3>1. <<writing.id>> \o <<>> = <<writing.id>>
      BY <2>1
    <3>2. Outbox' = Payloads(<<writing>> \o e)
      BY <1>2, <1>5, <2>4 DEF InFlight
    <3>. QED  BY <2>4, <2>5, <3>1, <3>2, Zenon
  <2>7. \A p \in Seq(Nat), n \in Nat :
          /\ <<n>> \o p # <<>>
          /\ Head(<<n>> \o p) = n
    OBVIOUS
  <2>. QED  BY <1>5, <2>1, <2>6, <2>7
<1>. QED  BY <1>3, <1>4, <1>5

-----------------------------------------------------------------------------
(* Refinement of SessionPromise: a session that has failed stays failed.   *)

(* While the handshake is under way the session counts as connected.       *)
ConnectedInv == Opening /\ stage # "new" => isConnected = TRUE

(* ConnectedInv is inductive.                                              *)
LEMMA ConnectedInvInductive ==
  TypeInv /\ OpeningInv /\ ConnectedInv /\ [Next]_vars => ConnectedInv'
<1>. SUFFICES ASSUME TypeInv, OpeningInv, ConnectedInv, [Next]_vars,
                     Opening', stage' # "new"
              PROVE  isConnected' = TRUE
  BY DEF ConnectedInv
<1>1. CASE UNCHANGED vars
  BY <1>1 DEF ConnectedInv, Opening, vars, objectVars, strandVars, socketVars
<1>2. CASE Next
  <2>1. Opening /\ OpeningStep
    BY <1>2, OpeningEnds, OnlyOpeningSteps DEF OpeningInv
  <2>2. CASE Open \/ HandleHandshake
    BY <2>2 DEF Open, HandleHandshake
  <2>3. CASE \/ AsyncHandshake \/ CancelSocket \/ OwnerCancel
             \/ \E error \in Error : CompleteRead(error)
    <3>1. stage' = stage /\ isConnected' = isConnected
      BY <2>3 DEF AsyncHandshake, CancelSocket, OwnerCancel, CompleteRead,
         objectVars
    <3>. QED  BY <2>1, <3>1 DEF ConnectedInv
  <2>. QED  BY <2>1, <2>2, <2>3 DEF OpeningStep
<1>. QED  BY <1>1, <1>2

(* Every reachable state satisfies it.                                     *)
LEMMA ConnectedInvariant == Spec => []ConnectedInv
<1>1. Init => ConnectedInv
  BY DEF Init, ConnectedInv
<1>. QED  BY <1>1, TypeInvariant, OpeningInvariant, ConnectedInvInductive,
     PTL DEF Spec

(* The handlers of writes that failed.                                     *)
BadEnds ==
  {task \in SocketTask : task.op = "handleWrite" /\ task.error # "ok"}

(* How a session can have failed without one of them.                      *)
Failed ==
  \/ closing # {}
  \/ stage # "new" /\ ~isConnected
  \/ Role = "client" /\ ownerActed

(* Where the handlers of failed writes wait.                               *)
LEMMA BadEndFacts ==
  ASSUME NEW strand \in Seq(SocketTask)
  PROVE  Waits(BadEnds, strand)
         <=> \E i \in DOMAIN strand :
               strand[i].op = "handleWrite" /\ strand[i].error # "ok"
<1>1. /\ DOMAIN strand = 1 .. Len(strand)
      /\ \A i \in 1 .. Len(strand) : strand[i] \in SocketTask
  BY ElementFacts
<1>. QED  BY <1>1 DEF Waits, BadEnds

(* The handler that runs is not one of them; or it is, and its session has *)
(* failed: an aborted write means that close() or cancel() was called.     *)
LEMMA BadEndFailed ==
  ASSUME TypeInv, OpeningInv, DisconnectInv, AwakeInv,
         Waits(BadEnds, socketStrand)
  PROVE  /\ ~Opening
         /\ Waits(Aborting, socketStrand) => Failed
<1>1. ~Opening
  BY DEF OpeningInv, Quiet, Waits, BadEnds, BusyTasks
<1>2. ASSUME Waits(Aborting, socketStrand)
      PROVE  Failed
  <2>1. ~Live
    BY <1>2 DEF AwakeInv, Undisturbed
  <2>2. Role \in {"server", "client"} /\ stage # "new"
    BY <1>1, SessionAssumption DEF Opening
  <2>. QED  BY <1>1, <2>1, <2>2 DEF Live, Failed, DisconnectInv
<1>. QED  BY <1>1, <1>2

(* close() and cancel() are not taken back.                                *)
LEMMA FailedStays ==
  ASSUME TypeInv, OpeningInv, ConnectedInv, Next, Failed
  PROVE  Failed'
<1>1. CASE closing # {}
  <2>1. ~Opening
    BY <1>1 DEF OpeningInv, Quiet
  <2>2. CASE \E context \in Context : CommitClose(context)
    BY <2>1, <2>2 DEF CommitClose, Failed, Opening
  <2>3. CASE \A context \in Context : ~CommitClose(context)
    <3>1. closing \subseteq closing'
      BY <2>3 DEF Next, OwnerStep, SocketStep, TimerStep, NetworkStep,
         Open, OwnerClose, OwnerCancel, AsyncHandshake, HandleHandshake,
         HandshakeSucceeded, HandshakeAborted, HandshakeFailed,
         HandleReadHeader, HandleReadBody, ReadAbandoned, ReadFailed,
         MessageRead, BodyFollows, AsyncWrite, HandleWrite, CancelSocket,
         CloseSocket, Receive, OnReceived, ReceivedHandle, StampLastTimeRead,
         RestartReadTimer, CancelReadTimer, RunTimerTask, TimerExpires,
         HandleReadTimeOut, CheckReadTimeOut, CompleteRead, CompleteWrite,
         CallClose, objectVars
    <3>. QED  BY <1>1, <3>1 DEF Failed
  <2>. QED  BY <2>2, <2>3
<1>2. CASE stage # "new" /\ ~isConnected
  <2>1. ~Opening
    BY <1>2 DEF ConnectedInv
  <2>2. ~Open /\ ~HandleHandshake
    <3>1. socketStrand \in Seq(SocketTask)
      BY DEF TypeInv, TypeOK, DataTypes
    <3>2. SocketTurn("handleHandshake") => Waits(HandshakeTasks, socketStrand)
      BY <3>1, TurnFacts DEF HandshakeTasks
    <3>. QED  BY <2>1, <3>2 DEF Open, HandleHandshake, Opening
  <2>3. stage' = stage /\ (isConnected' = isConnected \/ isConnected' = FALSE)
    BY <2>2 DEF Next, OwnerStep, SocketStep, TimerStep, NetworkStep,
       OwnerClose, OwnerCancel, AsyncHandshake, HandleReadHeader,
       HandleReadBody, AsyncWrite, HandleWrite, CancelSocket, CloseSocket,
       Receive, OnReceived, ReceivedHandle, CommitClose, StampLastTimeRead,
       RestartReadTimer, CancelReadTimer, RunTimerTask, TimerExpires,
       HandleReadTimeOut, CheckReadTimeOut, CompleteRead, CompleteWrite,
       objectVars
  <2>. QED  BY <1>2, <2>3 DEF Failed
<1>3. CASE Role = "client" /\ ownerActed
  <2>1. ownerActed' = ownerActed \/ ownerActed' = TRUE
    BY DEF Next, OwnerStep, SocketStep, TimerStep, NetworkStep,
       Open, OwnerClose, OwnerCancel, AsyncHandshake, HandleHandshake,
       HandleReadHeader, HandleReadBody, AsyncWrite, HandleWrite,
       CancelSocket, CloseSocket, Receive, OnReceived, ReceivedHandle,
       CommitClose, StampLastTimeRead, RestartReadTimer, CancelReadTimer,
       RunTimerTask, TimerExpires, HandleReadTimeOut, CheckReadTimeOut,
       CompleteRead, CompleteWrite, objectVars
  <2>. QED  BY <1>3, <2>1 DEF Failed
<1>. QED  BY <1>1, <1>2, <1>3 DEF Failed

(* The handler of a failed write waits until handleWrite() takes it, which *)
(* calls close().                                                          *)
LEMMA BadEndStays ==
  ASSUME TypeInv, OpeningInv, DisconnectInv, AwakeInv, ConnectedInv, Next,
         Waits(BadEnds, socketStrand)
  PROVE  Failed' \/ Waits(BadEnds, socketStrand')
<1>1. socketStrand \in Seq(SocketTask)
  BY DEF TypeInv, TypeOK, DataTypes
<1>2. ASSUME NEW strand \in Seq(SocketTask), NEW task \in SocketTask,
             socketStrand' \in {strand, Append(strand, task)},
             Waits(BadEnds, strand)
      PROVE  Waits(BadEnds, socketStrand')
  <2>1. Waits(BadEnds, Append(strand, task))
    BY <1>2, WaitsAppend
  <2>. QED  BY <1>2, <2>1
<1>3. ASSUME NEW op, SocketTurn(op), Head(socketStrand) \notin BadEnds
      PROVE  /\ Tail(socketStrand) \in Seq(SocketTask)
             /\ Waits(BadEnds, Tail(socketStrand))
  BY <1>1, <1>3, TurnFacts, WaitsTail DEF SocketTurn
<1>4. CASE QueueStep
  <2>1. PICK strand \in Seq(SocketTask) : Taken(strand) /\ Posted(strand)
    BY <1>4 DEF QueueStep
  <2>2. Waits(BadEnds, strand)
    <3>1. BadEnds \subseteq WriteTasks
      BY DEF BadEnds, WriteTasks
    <3>. QED  BY <1>1, <2>1, <3>1, WaitsTail DEF Taken
  <2>3. ASSUME NEW m \in Message, Send(m, strand)
        PROVE  Waits(BadEnds, socketStrand')
    <3>1. WriteTask(m) \in SocketTask
      BY TaskTypes
    <3>. QED  BY <1>2, <2>2, <2>3, <3>1 DEF Send, PostIfIdle
  <2>4. Task("cancel") \in SocketTask
    BY TaskTypes
  <2>. QED  BY <1>2, <2>1, <2>2, <2>3, <2>4 DEF Posted
<1>5. CASE AsyncWrite \/ CloseSocket
  <2>1. PICK op \in {"asyncWrite", "close"} : SocketTurn(op)
    BY <1>5 DEF AsyncWrite, CloseSocket
  <2>2. Head(socketStrand) \notin BadEnds
    BY <1>1, <2>1, TurnFacts DEF BadEnds
  <2>3. PICK fail \in SocketTask : fail = Completion("handleWrite", "error")
    BY TaskTypes DEF Error
  <2>4. socketStrand' \in {Tail(socketStrand),
                           Append(Tail(socketStrand), fail)}
    BY <1>5, <2>3 DEF AsyncWrite, CloseSocket
  <2>. QED  BY <1>2, <1>3, <2>1, <2>2, <2>4
<1>6. CASE HandleWrite /\ Head(socketStrand) \notin BadEnds
  <2>1. /\ Tail(socketStrand) \in Seq(SocketTask)
        /\ Waits(BadEnds, Tail(socketStrand))
    BY <1>3, <1>6 DEF HandleWrite
  <2>2. PICK rest \in Seq(SocketTask), queue \in Seq(Message) :
          rest = Tail(socketStrand) /\ queue = Dequeue(writeQueue)
    BY <2>1, DequeueFacts DEF TypeInv, TypeOK, DataTypes
  <2>3. /\ Task("cancel") \in SocketTask
        /\ queue # <<>> => WriteTask(Head(queue)) \in SocketTask
    BY TaskTypes
  <2>4. \/ socketStrand' = rest
        \/ socketStrand' = WriteNext(queue, rest)
        \/ socketStrand' = Append(rest, Task("cancel"))
    BY <1>6, <2>2 DEF HandleWrite, CallClose
  <2>. QED  BY <1>2, <2>1, <2>2, <2>3, <2>4 DEF WriteNext
<1>7. CASE HandleWrite /\ Head(socketStrand) \in BadEnds
  <2>1. CASE Head(socketStrand).error = "aborted"
    <3>1. Waits(Aborting, socketStrand)
      <4>1. Head(socketStrand) \in Aborting
        BY <1>7, <2>1 DEF BadEnds, Aborting
      <4>. QED  BY <1>1, <1>7, <4>1, TurnFacts DEF HandleWrite
    <3>. QED  BY <3>1, BadEndFailed, FailedStays
  <2>2. CASE Head(socketStrand).error # "aborted"
    <3>1. /\ CallClose("write", isConnected, Tail(socketStrand), timerStrand)
          /\ UNCHANGED <<stage, isConnected>>
      BY <1>7, <2>2 DEF HandleWrite, BadEnds
    <3>2. stage # "new"
      BY BadEndFailed DEF Opening
    <3>. QED  BY <3>1, <3>2 DEF CallClose, Failed
  <2>. QED  BY <2>1, <2>2
<1>8. CASE \E error \in Error : CompleteWrite(error)
  <2>1. PICK error \in Error : CompleteWrite(error)
    BY <1>8
  <2>2. PICK end \in SocketTask : end = Completion("handleWrite", error)
    BY TaskTypes
  <2>3. socketStrand' = Append(socketStrand, end)
    BY <2>1, <2>2 DEF CompleteWrite
  <2>. QED  BY <1>1, <1>2, <2>3
<1>. QED  BY <1>4, <1>5, <1>6, <1>7, <1>8, OnlyQueueSteps DEF WriteStep

-----------------------------------------------------------------------------
(* Refinement of SessionPromise: every step is one of the promise.         *)

(* What a step finds, and leaves.                                          *)
Inv ==
  /\ TypeInv /\ OpeningInv /\ WriteInv /\ DisconnectInv /\ AwakeInv
  /\ ConnectedInv /\ ReadsOnlyOpen /\ OrderInv

(* Failing before and after a step.                                        *)
LEMMA FailingIs ==
  ASSUME Inv, Inv'
  PROVE  /\ Failing \in BOOLEAN
         /\ Failing <=> Failed \/ Waits(BadEnds, socketStrand)
         /\ Failing' \in BOOLEAN
         /\ Failing' <=> Failed' \/ Waits(BadEnds, socketStrand')
<1>1. socketStrand \in Seq(SocketTask) /\ socketStrand' \in Seq(SocketTask)
  BY DEF Inv, TypeInv, TypeOK, DataTypes
<1>2. Failing <=> Failed \/ Waits(BadEnds, socketStrand)
  BY <1>1, BadEndFacts DEF Failing, Failed
<1>3. Failing' <=> Failed' \/ Waits(BadEnds, socketStrand')
  BY <1>1, BadEndFacts DEF Failing, Failed
<1>4. Failing \in BOOLEAN /\ Failing' \in BOOLEAN
  BY DEF Failing
<1>. QED  BY <1>2, <1>3, <1>4

(* The failure of a session is never taken back.                           *)
LEMMA FailingStays ==
  ASSUME Inv, Inv', Next
  PROVE  Failing' = Failing \/ Failing' = TRUE
<1>1. Failed => Failed'
  BY FailedStays DEF Inv
<1>2. Waits(BadEnds, socketStrand)
      => Failed' \/ Waits(BadEnds, socketStrand')
  BY BadEndStays DEF Inv
<1>. QED  BY <1>1, <1>2, FailingIs

(* A step that changes nothing else that the owner sees is a stutter, or   *)
(* the session fails.                                                      *)
LEMMA Stutters ==
  ASSUME Inv, Inv', [Next]_vars,
         UNCHANGED <<stage = "open", socketOpen, delivered, Outbox, wire>>
  PROVE  Promise!Fail \/ UNCHANGED Promise!vars
<1>1. CASE Next
  <2>1. Failing' = Failing \/ Failing' = TRUE
    BY <1>1, FailingStays
  <2>. QED  BY <2>1 DEF Promise!Fail, Promise!vars
<1>2. CASE UNCHANGED vars
  <2>1. Failing' = Failing
    BY <1>2 DEF vars, objectVars, strandVars, Failing
  <2>. QED  BY <2>1 DEF Promise!vars
<1>. QED  BY <1>1, <1>2

(* The steps that the promise does not know of.                            *)
HiddenStep ==
  /\ Next
  /\ ~WriteStep /\ ~CloseSocket /\ ~Receive
  /\ ~(HandleHandshake /\ HandshakeSucceeded)

(* They send nothing, or a Ping or a Pong.                                 *)
LEMMA HiddenSends ==
  ASSUME TypeInv, HiddenStep
  PROVE  \/ writeQueue' = writeQueue
         \/ \E m \in {Ping, Pong}, strand \in Seq(SocketTask) :
              Taken(strand) /\ Send(m, strand)
<1>1. socketStrand \in Seq(SocketTask)
  BY DEF TypeInv, TypeOK, DataTypes
<1>2. CASE HandleReadHeader \/ HandleReadBody
  <2>1. PICK op \in {"handleReadHeader", "handleReadBody"} : SocketTurn(op)
    BY <1>2 DEF HandleReadHeader, HandleReadBody
  <2>2. Tail(socketStrand) \in Seq(SocketTask) /\ Taken(Tail(socketStrand))
    BY <1>1, <2>1, TurnFacts DEF SocketTurn, Taken, WriteTasks
  <2>3. ReadAbandoned \/ ReadFailed \/ MessageRead \/ BodyFollows
    BY <1>2 DEF HandleReadHeader, HandleReadBody
  <2>. QED  BY <2>2, <2>3 DEF ReadAbandoned, ReadFailed, BodyFollows,
       MessageRead, OnMessageReceived
<1>3. CASE CheckReadTimeOut
  <2>1. Taken(socketStrand)
    BY DEF Taken
  <2>. QED  BY <1>1, <1>3, <2>1 DEF CheckReadTimeOut
<1>4. CASE ~(HandleReadHeader \/ HandleReadBody) /\ ~CheckReadTimeOut
  <2>1. HandleHandshake => writeQueue' = writeQueue
    BY DEF HiddenStep, HandleHandshake, HandshakeAborted, HandshakeFailed
  <2>. QED  BY <1>4, <2>1 DEF HiddenStep, WriteStep, Next, OwnerStep,
       SocketStep, TimerStep, NetworkStep, Open, OwnerClose, OwnerCancel,
       AsyncHandshake, CancelSocket, CommitClose, StampLastTimeRead,
       RestartReadTimer, CancelReadTimer, RunTimerTask, TimerExpires,
       HandleReadTimeOut, CompleteRead, objectVars
<1>. QED  BY <1>2, <1>3, <1>4

(* They change nothing that the owner sees, unless the session fails.      *)
LEMMA HiddenStutters ==
  ASSUME Inv, Inv', HiddenStep
  PROVE  Promise!Fail \/ UNCHANGED Promise!vars
<1>1. TypeInv /\ WriteInv /\ TypeInv' /\ WriteInv'
  BY DEF Inv
<1>2. UNCHANGED <<socketOpen, writing, delivered, wire>>
  BY DEF HiddenStep, WriteStep, Next, OwnerStep,
     SocketStep, TimerStep, NetworkStep, Open, OwnerClose, OwnerCancel,
     AsyncHandshake, HandleHandshake, HandleReadHeader, HandleReadBody,
     CancelSocket, CommitClose, StampLastTimeRead, RestartReadTimer,
     CancelReadTimer, RunTimerTask, TimerExpires, HandleReadTimeOut,
     CheckReadTimeOut, CompleteRead, socketVars, historyVars
<1>3. (stage' = "open") = (stage = "open")
  BY DEF HiddenStep, WriteStep, Next, OwnerStep,
     SocketStep, TimerStep, NetworkStep, Open, OwnerClose, OwnerCancel,
     AsyncHandshake, HandleHandshake, HandshakeAborted, HandshakeFailed,
     HandleReadHeader, HandleReadBody,
     CancelSocket, CommitClose, StampLastTimeRead, RestartReadTimer,
     CancelReadTimer, RunTimerTask, TimerExpires, HandleReadTimeOut,
     CheckReadTimeOut, CompleteRead, objectVars
<1>4. Outbox' = Outbox
  <2>1. CASE writeQueue' = writeQueue
    BY <1>1, <2>1, OnlyQueueSteps, QuietOutbox DEF HiddenStep
  <2>2. CASE \E m \in {Ping, Pong}, strand \in Seq(SocketTask) :
               Taken(strand) /\ Send(m, strand)
    <3>1. PICK m \in {Ping, Pong}, strand \in Seq(SocketTask) :
            Taken(strand) /\ Send(m, strand)
      BY <2>2
    <3>2. m \in Message /\ m.type # "Data"
      BY TaskTypes DEF Ping, Pong
    <3>. QED  BY <1>1, <1>2, <3>1, <3>2, SendOutbox
  <2>. QED  BY <1>1, <2>1, <2>2, HiddenSends
<1>. QED  BY <1>2, <1>3, <1>4, Stutters DEF HiddenStep

(* The handshake that succeeds opens the session.                          *)
LEMMA HandshakeOpens ==
  ASSUME Inv, Inv', HandleHandshake, HandshakeSucceeded, ~WriteStep,
         ~CloseSocket, Next
  PROVE  Promise!Open
<1>1. /\ TypeInv /\ WriteInv /\ TypeInv' /\ WriteInv'
      /\ socketStrand \in Seq(SocketTask)
  BY DEF Inv, TypeInv, TypeOK, DataTypes
<1>2. /\ stage \notin {"new", "open"} /\ socketOpen = TRUE
      /\ isConnected = TRUE /\ closing = {}
      /\ ~Waits(BadEnds, socketStrand)
  <2>1. Head(socketStrand) \in HandshakeTasks
    BY <1>1, TurnFacts DEF HandleHandshake, HandshakeTasks
  <2>2. Waits(HandshakeTasks, socketStrand)
    BY <1>1, <2>1, TurnFacts DEF HandleHandshake
  <2>3. Quiet /\ OneHandshake /\ Opening
    BY <2>2 DEF Inv, OpeningInv, Opening
  <2>4. ~Waits(BadEnds, socketStrand)
    BY <2>3 DEF Quiet, Waits, BadEnds, BusyTasks
  <2>5. stage # "new" /\ isConnected = TRUE
    BY <2>2, <2>3 DEF OneHandshake, Inv, ConnectedInv
  <2>. QED  BY <2>3, <2>4, <2>5 DEF Quiet
<1>3. /\ stage' = "open"
      /\ UNCHANGED <<socketOpen, writing, delivered, wire>>
      /\ OpenHandler(Tail(socketStrand))
  BY DEF HandleHandshake, HandshakeSucceeded, historyVars
<1>4. /\ Tail(socketStrand) \in Seq(SocketTask)
      /\ Taken(Tail(socketStrand))
  BY <1>1, TurnFacts DEF HandleHandshake, SocketTurn, Taken, WriteTasks
<1>f. Failing' = Failing
  <2>1. /\ isConnected' = TRUE /\ UNCHANGED <<closing, ownerActed>>
    BY DEF HandleHandshake, HandshakeSucceeded
  <2>2. ~Waits(BadEnds, Tail(socketStrand))
    BY <1>1, <1>2, TurnFacts DEF HandleHandshake
  <2>3. ~Waits(BadEnds, socketStrand')
    <3>1. \A m \in Message : WriteTask(m) \notin BadEnds
      BY DEF WriteTask, BadEnds
    <3>2. Data(1) \in Message /\ writeQueue \in Seq(Message)
      BY <1>1, TaskTypes DEF TypeInv, TypeOK, DataTypes
    <3>3. Send(Data(1), Tail(socketStrand)) => ~Waits(BadEnds, socketStrand')
      BY <1>4, <2>2, <3>1, <3>2, WaitsPost DEF Send
    <3>. QED  BY <1>3, <2>2, <3>3 DEF OpenHandler
  <2>4. Failed' <=> Failed
    BY <1>2, <1>3, <2>1 DEF Failed
  <2>. QED  BY <1>2, <2>3, <2>4, FailingIs
<1>5. CASE Role = "client"
  <2>1. /\ Send(Data(1), Tail(socketStrand))
        /\ Data(1) \in Message
        /\ Data(1).type = "Data"
        /\ Data(1).id = 1
    BY <1>3, <1>5, TaskTypes DEF OpenHandler, Data
  <2>2. Outbox' = Append(Outbox, 1)
    BY <1>1, <1>2, <1>3, <1>4, <2>1, SendOutbox
  <2>. QED  BY <1>2, <1>3, <1>5, <1>f, <2>2 DEF Promise!Open
<1>6. CASE Role # "client"
  <2>1. writeQueue' = writeQueue
    BY <1>3, <1>6 DEF OpenHandler
  <2>2. Outbox' = Outbox
    BY <1>1, <2>1, OnlyQueueSteps, QuietOutbox
  <2>. QED  BY <1>2, <1>3, <1>6, <1>f, <2>2 DEF Promise!Open
<1>. QED  BY <1>5, <1>6

(* receiveHandler_ gets the next payload.                                  *)
LEMMA ReceiveDelivers ==
  ASSUME Inv, Inv', Receive, ~WriteStep, ~CloseSocket
  PROVE  \E n \in 1 .. MaxFrames : Promise!Deliver(n)
<1>1. /\ TypeInv /\ WriteInv /\ TypeInv' /\ WriteInv'
      /\ socketStrand \in Seq(SocketTask)
      /\ readStrand \in Seq(1 .. MaxFrames)
      /\ delivered \in 0 .. MaxFrames
  BY DEF Inv, TypeInv, TypeOK, DataTypes
<1>2. readStrand # <<>>
  BY DEF Receive, ReadTurn
<1>3. PICK n \in 1 .. MaxFrames : n = Head(readStrand) /\ n = readStrand[1]
  BY <1>1, <1>2, TailFacts
<1>4. n > delivered
  <2>1. 1 \in 1 .. Len(readStrand)
    BY <1>1, <1>2, TailFacts
  <2>2. delivered < readStrand[1]
    BY <2>1 DEF Inv, OrderInv
  <2>. QED  BY <1>1, <1>3, <2>2, SessionAssumption
<1>5. stage = "open"
  BY <1>2 DEF Inv, ReadsOnlyOpen, HasRead
<1>6. /\ delivered' = n
      /\ UNCHANGED <<stage, socketOpen, writing, wire>>
      /\ OnReceived(n) \/ ReceivedHandle
  BY <1>3 DEF Receive, socketVars
<1>f. Failing' \in {Failing, TRUE}
  <2>1. Next
    BY DEF Next
  <2>. QED  BY <2>1, FailingStays
<1>7. CASE OnReceived(n)
  <2>1. /\ Send(Data(n), socketStrand)
        /\ Data(n) \in Message
        /\ Data(n).type = "Data"
        /\ Data(n).id = n
        /\ Taken(socketStrand)
    BY <1>7, TaskTypes, SessionAssumption DEF OnReceived, Data, Taken
  <2>2. /\ socketOpen = TRUE => Outbox' = Append(Outbox, n)
        /\ socketOpen # TRUE => Outbox' = Outbox
    BY <1>1, <1>6, <2>1, SendOutbox
  <2>3. socketOpen \in BOOLEAN
    BY <1>1, Zenon DEF TypeInv, TypeOK, FlagTypes
  <2>4. Role = "server"
    BY <1>7 DEF OnReceived
  <2>5. \E answers \in {Role = "server"} :
          Outbox' = IF answers /\ socketOpen THEN Append(Outbox, n) ELSE Outbox
    BY <2>2, <2>3, <2>4
  <2>. QED  BY <1>4, <1>5, <1>6, <1>f, <2>5 DEF Promise!Deliver
<1>8. CASE ReceivedHandle
  <2>1. writeQueue' = writeQueue /\ Next
    BY <1>8 DEF ReceivedHandle, Next
  <2>2. Outbox' = Outbox
    BY <1>1, <2>1, OnlyQueueSteps, QuietOutbox
  <2>3. \E answers \in {Role = "server"} :
          Outbox' = IF answers /\ socketOpen THEN Append(Outbox, n) ELSE Outbox
    BY <1>8, <2>2 DEF ReceivedHandle
  <2>. QED  BY <1>4, <1>5, <1>6, <1>f, <2>3 DEF Promise!Deliver
<1>. QED  BY <1>6, <1>7, <1>8

(* A write that ends well is no failure.                                   *)
LEMMA EndsWell ==
  ASSUME Inv, Inv', CompleteWrite("ok")
  PROVE  Failing' = Failing
<1>1. socketStrand \in Seq(SocketTask)
  BY DEF Inv, TypeInv, TypeOK, DataTypes
<1>2. PICK end \in SocketTask : end = Completion("handleWrite", "ok")
  BY TaskTypes DEF Error
<1>3. end \notin BadEnds
  BY <1>2 DEF Completion, BadEnds
<1>4. /\ socketStrand' = Append(socketStrand, end)
      /\ UNCHANGED <<closing, stage, isConnected, ownerActed>>
  BY <1>2 DEF CompleteWrite, objectVars
<1>5. Waits(BadEnds, socketStrand') <=> Waits(BadEnds, socketStrand)
  BY <1>1, <1>3, <1>4, WaitsAppend
<1>6. Failed' <=> Failed
  BY <1>4 DEF Failed
<1>. QED  BY <1>5, <1>6, FailingIs

(* One that does not is.                                                   *)
LEMMA EndsBadly ==
  ASSUME Inv, Inv', NEW error \in Error, error # "ok", CompleteWrite(error)
  PROVE  Failing' = TRUE
<1>1. socketStrand \in Seq(SocketTask)
  BY DEF Inv, TypeInv, TypeOK, DataTypes
<1>2. PICK end \in SocketTask : end = Completion("handleWrite", error)
  BY TaskTypes
<1>3. end \in BadEnds
  BY <1>2 DEF Completion, BadEnds
<1>4. socketStrand' = Append(socketStrand, end)
  BY <1>2 DEF CompleteWrite
<1>5. Waits(BadEnds, socketStrand')
  BY <1>1, <1>3, <1>4, WaitsAppend
<1>. QED  BY <1>5, FailingIs

(* The socket is only closed after close() set isConnected_ to FALSE.      *)
LEMMA ClosesFailed ==
  ASSUME Inv, Inv', CloseSocket
  PROVE  Failing = TRUE /\ Failing' = Failing
<1>1. socketStrand \in Seq(SocketTask)
  BY DEF Inv, TypeInv, TypeOK, DataTypes
<1>2. Head(socketStrand) \in CloseTasks
  BY <1>1, TurnFacts DEF CloseSocket, CloseTasks
<1>3. Waits(CloseTasks, socketStrand)
  BY <1>1, <1>2, TurnFacts DEF CloseSocket
<1>4. ~Opening
  BY <1>3 DEF Inv, OpeningInv, Quiet, Waits, CloseTasks, BusyTasks
<1>5. Failed
  BY <1>3, <1>4 DEF Inv, DisconnectInv, Failed, Opening
<1>6. Next
  BY DEF Next, SocketStep
<1>. QED  BY <1>5, <1>6, FailingIs, FailingStays

(* Every step of the session is a step of its promise, or a stutter.       *)
LEMMA StepRefines ==
  ASSUME Inv, Inv', [Next]_vars
  PROVE  [Promise!Next]_(Promise!vars)
<1>1. /\ TypeInv /\ WriteInv
      /\ TypeInv' /\ WriteInv'
      /\ socketOpen \in BOOLEAN
  <2>1. socketOpen \in BOOLEAN
    BY Zenon DEF Inv, TypeInv, TypeOK, FlagTypes
  <2>. QED  BY <2>1 DEF Inv
<1>s. ASSUME UNCHANGED <<stage = "open", socketOpen, delivered, Outbox, wire>>
      PROVE  [Promise!Next]_(Promise!vars)
  BY <1>s, Stutters DEF Promise!Next
<1>2. CASE UNCHANGED vars
  <2>1. Outbox' = Outbox
    BY <1>2 DEF vars, objectVars, strandVars, socketVars, Outbox
  <2>. QED  BY <1>2, <1>s, <2>1 DEF vars, objectVars, socketVars, historyVars
<1>3. CASE AsyncWrite \/ HandleWrite
  <2>1. Outbox' = Outbox
    BY <1>1, <1>3, WriteOutbox
  <2>2. UNCHANGED <<stage, socketOpen, delivered, wire>>
    BY <1>3 DEF AsyncWrite, HandleWrite, objectVars, socketVars, historyVars
  <2>. QED  BY <1>s, <2>1, <2>2
<1>4. CASE \E error \in Error : CompleteWrite(error)
  <2>1. PICK error \in Error : CompleteWrite(error)
    BY <1>4
  <2>2. UNCHANGED <<stage, socketOpen, delivered>>
    BY <2>1 DEF CompleteWrite, objectVars
  <2>3. CASE writing.type = "Data"
    <3>1. /\ Outbox # <<>>
          /\ Head(Outbox) = writing.id
          /\ Outbox' = Tail(Outbox)
      BY <1>1, <2>1, <2>3, CompleteOutbox
    <3>2. CASE error = "ok"
      <4>1. wire' = Append(wire, writing.id) /\ Failing' = Failing
        BY <2>1, <2>3, <3>2, EndsWell DEF CompleteWrite
      <4>2. Promise!Transmit
        BY <2>2, <3>1, <4>1 DEF Promise!Transmit
      <4>. QED  BY <4>2 DEF Promise!Next
    <3>3. CASE error # "ok"
      <4>1. wire' = wire /\ Failing' = TRUE
        BY <2>1, <3>3, EndsBadly DEF CompleteWrite
      <4>2. Promise!Lose
        BY <2>2, <3>1, <4>1 DEF Promise!Lose
      <4>. QED  BY <4>2 DEF Promise!Next
    <3>. QED  BY <3>2, <3>3
  <2>4. CASE writing.type # "Data"
    <3>1. Outbox' = Outbox
      BY <1>1, <2>1, <2>4, CompleteOutbox
    <3>2. wire' = wire
      BY <2>1, <2>4 DEF CompleteWrite
    <3>. QED  BY <1>s, <2>2, <3>1, <3>2
  <2>. QED  BY <2>3, <2>4
<1>5. CASE CloseSocket
  <2>1. UNCHANGED <<stage, delivered, wire>> /\ socketOpen' = FALSE
    BY <1>5 DEF CloseSocket
  <2>2. CASE socketOpen = TRUE
    <3>1. Promise!Close
      BY <1>1, <1>5, <2>1, <2>2, ClosesFailed, CloseOutbox DEF Promise!Close
    <3>. QED  BY <3>1 DEF Promise!Next
  <2>3. CASE socketOpen = FALSE
    <3>1. Outbox' = Outbox
      BY <1>1, <1>5, <2>3, CloseOutbox
    <3>. QED  BY <1>s, <2>1, <2>3, <3>1
  <2>. QED  BY <1>1, <2>2, <2>3
<1>6. CASE /\ Next /\ ~WriteStep /\ ~CloseSocket
           /\ HandleHandshake /\ HandshakeSucceeded
  BY <1>6, HandshakeOpens DEF Promise!Next
<1>7. CASE Receive /\ ~WriteStep /\ ~CloseSocket
  BY <1>7, ReceiveDelivers DEF Promise!Next
<1>8. CASE HiddenStep
  BY <1>8, HiddenStutters DEF Promise!Next
<1>. QED  BY <1>2, <1>3, <1>4, <1>5, <1>6, <1>7, <1>8
     DEF HiddenStep, WriteStep

(* The session implements SessionPromise: it opens once and closes once;   *)
(* payloads reach receiveHandler_ in the order they were received, none    *)
(* twice; and those it was given to send leave in that order, none twice   *)
(* and none left out unless the session has failed, whatever Ping, Pong,   *)
(* time-out, cancel or close() comes in between.                           *)
THEOREM Refinement == Spec => KeepsPromise
<1>1. Init => Promise!Init
  <2>1. <<>> \o <<>> = <<>> /\ Dequeue(<<>>) = <<>>
    BY DEF Dequeue
  <2>2. Init => Outbox = <<>>
    BY <2>1, PayloadsEmpty DEF Init, Outbox
  <2>3. Init => Failing = FALSE
    BY DEF Init, Failing
  <2>. QED  BY <2>2, <2>3 DEF Init, Promise!Init
<1>2. Inv /\ Inv' /\ [Next]_vars => [Promise!Next]_(Promise!vars)
  BY StepRefines
<1>3. Spec => []Inv
  BY TypeInvariant, OpeningInvariant, WriteInvariant, DisconnectInvariant,
     AwakeInvariant, ConnectedInvariant, OrderInvariant, PTL
  DEF Inv
<1>. QED  BY <1>1, <1>2, <1>3, PTL DEF Spec, KeepsPromise, Promise!Spec

=============================================================================
