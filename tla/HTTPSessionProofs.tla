-------------------------- MODULE HTTPSessionProofs --------------------------
(***************************************************************************)
(* Safety of HTTPSession, for any number of reads, any backlog and         *)
(* whatever receiveHandler_ may do.                                        *)
(***************************************************************************)
EXTENDS HTTPSession, StrandLemmas, SequenceTheorems

(* A handler that was given a message belongs to a read that succeeded.    *)
MessageReads ==
  {task \in SocketTask : task.op = "handleRead" /\ task.result = "ok"}

FlagTypes == isConnected \in BOOLEAN /\ socketOpen \in BOOLEAN

DataTypes ==
  /\ stage \in {"new", "resolving", "connecting", "opening", "open",
                "abandoned"}
  /\ writeQueue \in Seq(Outgoing)
  /\ socketStrand \in Seq(SocketTask)
  /\ readStrand \in Seq(1 .. MaxReads)
  /\ closing \subseteq Context
  /\ reading \in {"none", "handshake", "read"}
  /\ writing \in Outgoing \cup {NoMessage}
  /\ doomed \subseteq {"read", "write"}
  /\ received \in 0 .. MaxReads
  /\ delivered \in 0 .. MaxReads
  /\ wire \in Seq(Outgoing)
  /\ closes \in Nat

MessageWasRead == Waits(MessageReads, socketStrand) => received > 0

TypeInv == FlagTypes /\ DataTypes /\ MessageWasRead

(* TypeInv says what TypeOK does, and MessageWasRead.                      *)
LEMMA TypeInvParts == TypeInv <=> TypeOK /\ MessageWasRead
BY Zenon DEF TypeInv, TypeOK, FlagTypes, DataTypes

-----------------------------------------------------------------------------
(* What the handlers post.                                                 *)

(* The tasks are tasks of socketStrand_, and the request is a message.     *)
LEMMA TaskTypes ==
  /\ \A op \in {"asyncHandshake", "cancel", "close"} : Task(op) \in SocketTask
  /\ \A op \in {"handleHandshake", "handleRead", "handleWrite"},
        result \in Result : Completion(op, result) \in SocketTask
  /\ \A m \in Outgoing : WriteTask(m) \in SocketTask
  /\ \A m \in 1 .. MaxReads : m \in Outgoing
  /\ 1 \in Outgoing
  /\ NoMessage \notin Outgoing
BY HTTPSessionAssumption DEF Task, Completion, WriteTask, SocketTask, Result,
   Outgoing, NoMessage

(* What they are.                                                          *)
LEMMA TaskNames ==
  /\ \A op : Task(op).op = op /\ Task(op).result = "ok"
  /\ \A op, result :
       Completion(op, result).op = op /\ Completion(op, result).result = result
  /\ \A m : /\ WriteTask(m).op = "asyncWrite"
            /\ WriteTask(m).result = "ok"
            /\ WriteTask(m).message = m
BY DEF Task, Completion, WriteTask

(* What a handler finds when its turn has come.                            *)
LEMMA TurnFacts ==
  ASSUME socketStrand \in Seq(SocketTask), NEW op, SocketTurn(op)
  PROVE  /\ socketStrand # <<>>
         /\ Head(socketStrand) \in SocketTask
         /\ Head(socketStrand).op = op
         /\ Tail(socketStrand) \in Seq(SocketTask)
         /\ \A tasks :
              Waits(tasks, Tail(socketStrand)) => Waits(tasks, socketStrand)
         /\ \A tasks :
              Head(socketStrand) \in tasks => Waits(tasks, socketStrand)
BY TailFacts, WaitsTail DEF SocketTurn

(* writeNext() posts the write of the front, if there is one.              *)
LEMMA WriteNextFacts ==
  ASSUME NEW q \in Seq(Outgoing), NEW line \in Seq(SocketTask)
  PROVE  /\ WriteNext(q, line) \in Seq(SocketTask)
         /\ \A tasks : (\A m \in Outgoing : WriteTask(m) \notin tasks) =>
              (Waits(tasks, WriteNext(q, line)) <=> Waits(tasks, line))
<1>1. CASE q = <<>>
  BY <1>1 DEF WriteNext
<1>2. CASE q # <<>>
  <2>1. Head(q) \in Outgoing
    BY <1>2
  <2>2. WriteTask(Head(q)) \in SocketTask
    BY <2>1, TaskTypes
  <2>3. WriteNext(q, line) = Append(line, WriteTask(Head(q)))
    BY <1>2 DEF WriteNext
  <2>. QED  BY <2>1, <2>2, <2>3, WaitsAppend, AppendFacts
<1>. QED  BY <1>1, <1>2

(* send() posts nothing but that, and only if the queue was empty.         *)
LEMMA SendFacts ==
  ASSUME writeQueue \in Seq(Outgoing), NEW m \in Outgoing,
         NEW line \in Seq(SocketTask), Send(m, line)
  PROVE  /\ writeQueue' \in Seq(Outgoing)
         /\ writeQueue' # <<>>
         /\ Head(writeQueue')
              = IF writeQueue = <<>> THEN m ELSE Head(writeQueue)
         /\ socketStrand' = IF writeQueue = <<>>
                            THEN Append(line, WriteTask(m)) ELSE line
         /\ socketStrand' \in Seq(SocketTask)
         /\ \A tasks : (\A n \in Outgoing : WriteTask(n) \notin tasks) =>
              (Waits(tasks, socketStrand') <=> Waits(tasks, line))
<1>1. /\ writeQueue' = Append(writeQueue, m)
      /\ writeQueue' \in Seq(Outgoing)
      /\ writeQueue' # <<>>
      /\ Head(writeQueue') = IF writeQueue = <<>> THEN m ELSE Head(writeQueue)
  BY DEF Send
<1>2. socketStrand' = IF writeQueue = <<>>
                      THEN WriteNext(writeQueue', line) ELSE line
  BY DEF Send
<1>3. writeQueue = <<>>
      => WriteNext(writeQueue', line) = Append(line, WriteTask(m))
  BY <1>1 DEF WriteNext
<1>4. /\ WriteNext(writeQueue', line) \in Seq(SocketTask)
      /\ \A tasks : (\A n \in Outgoing : WriteTask(n) \notin tasks) =>
           (Waits(tasks, WriteNext(writeQueue', line)) <=> Waits(tasks, line))
  BY <1>1, WriteNextFacts
<1>. QED  BY <1>1, <1>2, <1>3, <1>4

(* close() posts the handler that cancels.                                 *)
LEMMA CallCloseFacts ==
  ASSUME closing \subseteq Context, NEW context \in Context,
         NEW line \in Seq(SocketTask), CallClose(context, line)
  PROVE  /\ closing' \subseteq Context
         /\ socketStrand' = Append(line, Task("cancel"))
         /\ socketStrand' \in Seq(SocketTask)
         /\ \A tasks : Task("cancel") \notin tasks =>
              (Waits(tasks, socketStrand') <=> Waits(tasks, line))
<1>1. Task("cancel") \in SocketTask
  BY TaskTypes
<1>2. socketStrand' = Append(line, Task("cancel"))
  BY DEF CallClose
<1>3. closing' \subseteq Context
  BY DEF CallClose
<1>. QED  BY <1>1, <1>2, <1>3, WaitsAppend, AppendFacts

(* Neither posts a read.                                                   *)
LEMMA NoMessageReads ==
  /\ \A m \in Outgoing : WriteTask(m) \notin MessageReads
  /\ \A op \in {"asyncHandshake", "cancel", "close"} :
       Task(op) \notin MessageReads
  /\ \A op \in {"handleHandshake", "handleWrite"}, result \in Result :
       Completion(op, result) \notin MessageReads
BY TaskNames DEF MessageReads

-----------------------------------------------------------------------------
(* TypeInv is inductive, one step of the program after the other.          *)

(* Everything but the two queues and what becomes of a read.               *)
LEMMA OtherTypes ==
  ASSUME TypeInv, Next
  PROVE  /\ FlagTypes'
         /\ stage' \in {"new", "resolving", "connecting", "opening", "open",
                        "abandoned"}
         /\ reading' \in {"none", "handshake", "read"}
         /\ doomed' \subseteq {"read", "write"}
         /\ closing' \subseteq Context
         /\ closes' \in Nat
<1>. USE DEF Next, SocketStep, Resolve, HandleResolve, HandleConnect, Open,
         OpenThrows, AsyncHandshake, HandleHandshake, HandleRead, AsyncWrite,
         HandleWrite, CancelSocket, CloseSocket, Receive, CommitClose,
         CompleteRead, CompleteWrite, objectVars, socketVars, historyVars
<1>1. isConnected' \in BOOLEAN
  BY Zenon DEF TypeInv, FlagTypes
<1>2. socketOpen' \in BOOLEAN
  BY Zenon DEF TypeInv, FlagTypes
<1>3. stage' \in {"new", "resolving", "connecting", "opening", "open",
                  "abandoned"}
  BY DEF TypeInv, DataTypes, HandshakeSucceeded, MessageRead, Abandoned,
     Failed
<1>4. reading' \in {"none", "handshake", "read"}
  BY DEF TypeInv, DataTypes, HandshakeSucceeded, MessageRead, Abandoned,
     Failed
<1>5. doomed' \subseteq {"read", "write"}
  BY DEF TypeInv, DataTypes, AbortSome, Pending
<1>6. closing' \subseteq Context
  BY DEF TypeInv, DataTypes, HandshakeSucceeded, MessageRead, Abandoned,
     Failed, CallClose, Context
<1>7. closes' \in Nat
  BY DEF TypeInv, DataTypes
<1>. QED  BY <1>1, <1>2, <1>3, <1>4, <1>5, <1>6, <1>7 DEF FlagTypes

(* The two queues, and the message being written.                          *)
LEMMA QueueTypes ==
  ASSUME TypeInv, Next
  PROVE  /\ writeQueue' \in Seq(Outgoing)
         /\ socketStrand' \in Seq(SocketTask)
         /\ writing' \in Outgoing \cup {NoMessage}
<1>1. /\ writeQueue \in Seq(Outgoing)
      /\ socketStrand \in Seq(SocketTask)
      /\ readStrand \in Seq(1 .. MaxReads)
      /\ writing \in Outgoing \cup {NoMessage}
      /\ closing \subseteq Context
  BY DEF TypeInv, DataTypes
<1>. DEFINE rest == Tail(socketStrand)
<1>2. ASSUME NEW op, SocketTurn(op)
      PROVE  /\ rest \in Seq(SocketTask)
             /\ Head(socketStrand) \in SocketTask
  BY <1>1, <1>2, TurnFacts
<1>3. <<>> \in Seq(Outgoing)
  OBVIOUS
<1>. HIDE DEF rest
<1>4. CASE Resolve \/ HandleResolve
  BY <1>1, <1>4 DEF Resolve, HandleResolve, socketVars
<1>5. CASE HandleConnect
  BY <1>1, <1>5, TaskTypes, AppendFacts
  DEF HandleConnect, Open, OpenThrows, socketVars
<1>6. CASE AsyncHandshake
  BY <1>1, <1>2, <1>6 DEF AsyncHandshake, objectVars, rest
<1>7. CASE HandleHandshake
  <2>1. rest \in Seq(SocketTask) /\ writing' = writing
    BY <1>2, <1>7 DEF HandleHandshake
  <2>2. CASE HandshakeSucceeded
    BY <1>1, <2>1, <2>2, SendFacts, TaskTypes
    DEF HandshakeSucceeded, OpenedHandle, rest
  <2>3. CASE Abandoned
    BY <1>1, <2>1, <2>3 DEF Abandoned, rest
  <2>4. CASE Failed({"error"})
    BY <1>1, <2>1, <2>4, CallCloseFacts DEF Failed, rest, Context
  <2>. QED  BY <1>7, <2>2, <2>3, <2>4 DEF HandleHandshake
<1>8. CASE HandleRead
  <2>1. rest \in Seq(SocketTask) /\ writing' = writing
    BY <1>2, <1>8 DEF HandleRead
  <2>2. CASE MessageRead \/ Abandoned
    BY <1>1, <2>1, <2>2 DEF MessageRead, Abandoned, rest
  <2>3. CASE Failed({"empty", "error"})
    BY <1>1, <2>1, <2>3, CallCloseFacts DEF Failed, rest, Context
  <2>. QED  BY <1>8, <2>2, <2>3 DEF HandleRead
<1>9. CASE Receive
  <2>1. Head(readStrand) \in Outgoing /\ writing' = writing
    BY <1>1, <1>9, TailFacts, TaskTypes DEF Receive, socketVars
  <2>2. CASE UNCHANGED <<writeQueue, socketStrand, closing>>
    BY <1>1, <2>1, <2>2
  <2>3. CASE Send(Head(readStrand), socketStrand)
    BY <1>1, <2>1, <2>3, SendFacts
  <2>4. CASE CallClose("read", socketStrand) /\ UNCHANGED writeQueue
    BY <1>1, <2>1, <2>4, CallCloseFacts DEF Context
  <2>. QED  BY <1>9, <2>2, <2>3, <2>4 DEF Receive
<1>10. CASE AsyncWrite
  <2>1. /\ rest \in Seq(SocketTask)
        /\ Head(socketStrand) \in SocketTask
    BY <1>2, <1>10 DEF AsyncWrite
  <2>2. Head(socketStrand).message \in Outgoing \cup {NoMessage}
    BY <2>1 DEF SocketTask
  <2>3. Completion("handleWrite", "error") \in SocketTask
    BY TaskTypes DEF Result
  <2>. QED  BY <1>1, <1>10, <2>1, <2>2, <2>3, AppendFacts
       DEF AsyncWrite, objectVars, rest
<1>11. CASE HandleWrite
  <2>. DEFINE queue == Dequeue(writeQueue)
  <2>1. rest \in Seq(SocketTask) /\ writing' = writing
    BY <1>2, <1>11 DEF HandleWrite, socketVars
  <2>2. queue \in Seq(Outgoing)
    BY <1>1 DEF Dequeue
  <2>3. /\ writeQueue' = queue
        /\ \/ socketStrand' \in {rest, WriteNext(queue, rest)}
           \/ CallClose("write", rest)
    BY <1>11 DEF HandleWrite, rest
  <2>. HIDE DEF queue
  <2>4. WriteNext(queue, rest) \in Seq(SocketTask)
    BY <2>1, <2>2, WriteNextFacts
  <2>5. CallClose("write", rest) => socketStrand' \in Seq(SocketTask)
    BY <1>1, <2>1, CallCloseFacts DEF Context
  <2>. QED  BY <1>1, <2>1, <2>2, <2>3, <2>4, <2>5
<1>12. CASE CancelSocket \/ CloseSocket
  BY <1>1, <1>2, <1>3, <1>12 DEF CancelSocket, CloseSocket, objectVars, rest
<1>13. CASE \E context \in Context : CommitClose(context)
  BY <1>1, <1>13, TaskTypes, AppendFacts DEF CommitClose, socketVars
<1>14. CASE \E result \in Result : CompleteRead(result)
  <2>1. PICK result \in Result : CompleteRead(result)
    BY <1>14
  <2>2. PICK op \in {"handleRead", "handleHandshake"} :
          socketStrand' = Append(socketStrand, Completion(op, result))
    BY <2>1 DEF CompleteRead
  <2>3. Completion(op, result) \in SocketTask
    BY TaskTypes
  <2>. QED  BY <1>1, <2>1, <2>2, <2>3, AppendFacts
       DEF CompleteRead, objectVars
<1>15. CASE \E result \in Result : CompleteWrite(result)
  <2>1. PICK result \in Result : CompleteWrite(result)
    BY <1>15
  <2>2. Completion("handleWrite", result) \in SocketTask
    BY TaskTypes
  <2>. QED  BY <1>1, <2>1, <2>2, AppendFacts DEF CompleteWrite, objectVars
<1>. QED
  BY <1>4, <1>5, <1>6, <1>7, <1>8, <1>9, <1>10, <1>11, <1>12, <1>13, <1>14,
     <1>15
  DEF Next, SocketStep

-----------------------------------------------------------------------------
(* Most handlers take nothing but themselves from the strand, and then     *)
(* call send() once or post one handler that does not write, or neither.   *)

WriteTasks == {task \in SocketTask : task.op \in {"asyncWrite", "handleWrite"}}

Taken(line) ==
  \/ line = socketStrand
  \/ /\ SocketStep
     /\ socketStrand # <<>>
     /\ Head(socketStrand) \notin WriteTasks
     /\ line = Tail(socketStrand)

(* The handlers posted by anything but send() and its successors, and what *)
(* is then the case.                                                       *)
Other(task) ==
  /\ task \in SocketTask \ WriteTasks
  /\ \/ task = Task("asyncHandshake") /\ HandleConnect
     \/ task = Task("cancel") /\ (isConnected => closing' # {})
     \/ task = Task("close") /\ isConnected' = FALSE
     \/ \E result \in Result :
          /\ CompleteRead(result)
          /\ task = Completion(IF reading = "read" THEN "handleRead"
                               ELSE "handleHandshake", result)

Posted(line) ==
  \/ \E m \in Outgoing : Send(m, line)
  \/ writeQueue' = writeQueue /\ socketStrand' = line
  \/ /\ writeQueue' = writeQueue
     /\ \E task : Other(task) /\ socketStrand' = Append(line, task)

QueueStep ==
  /\ \E line \in Seq(SocketTask) : Taken(line) /\ Posted(line)
  /\ writing' = writing
  /\ socketOpen' = socketOpen

(* The handlers that take a write, and its completion.                     *)
WriteStep ==
  \/ AsyncWrite \/ HandleWrite
  \/ \E result \in Result : CompleteWrite(result)

(* None of those handlers writes.                                          *)
LEMMA OtherTasks ==
  /\ \A op \in {"asyncHandshake", "cancel", "close"} :
       Task(op) \in SocketTask \ WriteTasks
  /\ \A op \in {"handleHandshake", "handleRead"}, result \in Result :
       Completion(op, result) \in SocketTask \ WriteTasks
  /\ \A m \in Outgoing : WriteTask(m) \in WriteTasks
  /\ \A result \in Result : Completion("handleWrite", result) \in WriteTasks
BY TaskTypes, TaskNames DEF WriteTasks

(* close() posts such a handler.                                           *)
LEMMA CallClosePosted ==
  ASSUME NEW context, NEW line, CallClose(context, line),
         writeQueue' = writeQueue
  PROVE  Posted(line)
<1>1. socketStrand' = Append(line, Task("cancel"))
  BY DEF CallClose
<1>2. isConnected => closing' # {}
  BY DEF CallClose
<1>3. Other(Task("cancel"))
  BY <1>2, OtherTasks DEF Other
<1>. QED  BY <1>1, <1>3 DEF Posted

(* Every step but those is such a step, as long as the socket is open.     *)
LEMMA OnlyQueueSteps ==
  ASSUME TypeInv, Next, ~WriteStep, ~CloseSocket
  PROVE  QueueStep
<1>1. /\ socketStrand \in Seq(SocketTask)
      /\ readStrand \in Seq(1 .. MaxReads)
  BY DEF TypeInv, DataTypes
<1>. DEFINE rest == Tail(socketStrand)
<1>2. writing' = writing /\ socketOpen' = socketOpen
  BY DEF Next, SocketStep, WriteStep, Resolve, HandleResolve, HandleConnect,
     AsyncHandshake, HandleHandshake, HandleRead, CancelSocket, Receive,
     CommitClose, CompleteRead, socketVars
<1>3. SUFFICES \E line \in Seq(SocketTask) : Taken(line) /\ Posted(line)
  BY <1>2 DEF QueueStep
<1>4. ASSUME SocketStep, NEW op, SocketTurn(op),
             op \notin {"asyncWrite", "handleWrite"}
      PROVE  rest \in Seq(SocketTask) /\ Taken(rest)
  BY <1>1, <1>4, TurnFacts DEF SocketTurn, Taken, WriteTasks
<1>5. Taken(socketStrand)
  BY DEF Taken
<1>. HIDE DEF rest
<1>6. CASE Resolve \/ HandleResolve
  <2>1. Posted(socketStrand)
    BY <1>6 DEF Resolve, HandleResolve, Posted
  <2>. QED  BY <1>1, <1>5, <2>1
<1>7. CASE HandleConnect
  <2>1. Other(Task("asyncHandshake"))
    BY <1>7, OtherTasks DEF Other
  <2>2. Posted(socketStrand)
    BY <1>7, <2>1 DEF HandleConnect, Open, OpenThrows, Posted
  <2>. QED  BY <1>1, <1>5, <2>2
<1>8. CASE AsyncHandshake \/ CancelSocket
  <2>1. Posted(rest)
    BY <1>8 DEF AsyncHandshake, CancelSocket, objectVars, Posted, rest
  <2>. QED  BY <1>4, <1>8, <2>1 DEF AsyncHandshake, CancelSocket, SocketStep
<1>9. CASE HandleHandshake \/ HandleRead
  <2>1. SUFFICES Posted(rest)
    BY <1>4, <1>9 DEF HandleHandshake, HandleRead, SocketStep
  <2>2. CASE HandshakeSucceeded
    <3>1. Send(1, rest)
      BY <2>2 DEF HandshakeSucceeded, OpenedHandle, rest
    <3>. QED  BY <3>1, TaskTypes DEF Posted
  <2>3. CASE Abandoned \/ MessageRead
    BY <2>3 DEF Abandoned, MessageRead, Posted, rest
  <2>4. ASSUME NEW results, Failed(results)
        PROVE  Posted(rest)
    BY <2>4, CallClosePosted DEF Failed, rest
  <2>. QED  BY <1>9, <2>2, <2>3, <2>4 DEF HandleHandshake, HandleRead
<1>10. CASE Receive
  <2>1. Head(readStrand) \in Outgoing
    BY <1>1, <1>10, TailFacts, TaskTypes DEF Receive
  <2>2. Posted(socketStrand)
    BY <1>10, <2>1, CallClosePosted DEF Receive, Posted
  <2>. QED  BY <1>1, <1>5, <2>2
<1>11. CASE \E context \in Context : CommitClose(context)
  <2>1. Other(Task("close"))
    BY <1>11, OtherTasks DEF Other, CommitClose
  <2>2. Posted(socketStrand)
    BY <1>11, <2>1 DEF CommitClose, Posted
  <2>. QED  BY <1>1, <1>5, <2>2
<1>12. CASE \E result \in Result : CompleteRead(result)
  <2>1. PICK result \in Result : CompleteRead(result)
    BY <1>12
  <2>. DEFINE end == Completion(IF reading = "read" THEN "handleRead"
                                ELSE "handleHandshake", result)
  <2>2. Other(end)
    BY <2>1, OtherTasks DEF Other
  <2>3. Posted(socketStrand)
    BY <2>1, <2>2 DEF CompleteRead, objectVars, Posted
  <2>. QED  BY <1>1, <1>5, <2>3
<1>. QED
  BY <1>6, <1>7, <1>8, <1>9, <1>10, <1>11, <1>12
  DEF Next, SocketStep, WriteStep

(* The last handler of a write pops the queue, and posts the next write or *)
(* what close() does or nothing.                                           *)
LEMMA HandleWriteFacts ==
  ASSUME TypeInv, HandleWrite
  PROVE  \E rest \in Seq(SocketTask), queue \in Seq(Outgoing) :
           /\ rest = Tail(socketStrand)
           /\ queue = Dequeue(writeQueue)
           /\ writeQueue' = queue
           /\ writing' = writing
           /\ \/ socketStrand' = WriteNext(queue, rest)
              \/ socketStrand' = rest /\ Head(socketStrand).result = "aborted"
              \/ /\ socketStrand' = Append(rest, Task("cancel"))
                 /\ isConnected => closing' # {}
<1>. DEFINE tail == Tail(socketStrand)
            popped == Dequeue(writeQueue)
<1>1. tail \in Seq(SocketTask)
  BY TurnFacts DEF HandleWrite, TypeInv, DataTypes
<1>2. popped \in Seq(Outgoing)
  BY DEF Dequeue, TypeInv, DataTypes
<1>3. /\ writeQueue' = popped
      /\ writing' = writing
      /\ \/ socketStrand' = WriteNext(popped, tail)
         \/ socketStrand' = tail /\ Head(socketStrand).result = "aborted"
         \/ /\ socketStrand' = Append(tail, Task("cancel"))
            /\ isConnected => closing' # {}
  BY DEF HandleWrite, CallClose, socketVars
<1>. HIDE DEF tail, popped
<1>. QED  BY <1>1, <1>2, <1>3 DEF tail, popped

(* A handler that was not there before is one of those.                    *)
LEMMA NewTasks ==
  ASSUME TypeInv, Next, NEW tasks,
         \A m \in Outgoing : WriteTask(m) \notin tasks,
         Completion("handleWrite", "error") \notin tasks,
         Waits(tasks, socketStrand')
  PROVE  \/ Waits(tasks, socketStrand)
         \/ Task("cancel") \in tasks /\ (isConnected => closing' # {})
         \/ \E task \in tasks : Other(task)
         \/ \E result \in Result :
              /\ CompleteWrite(result)
              /\ Completion("handleWrite", result) \in tasks
<1>1. socketStrand \in Seq(SocketTask)
  BY DEF TypeInv, DataTypes
<1>. DEFINE rest == Tail(socketStrand)
<1>2. ASSUME NEW op, SocketTurn(op)
      PROVE  /\ rest \in Seq(SocketTask)
             /\ Waits(tasks, rest) => Waits(tasks, socketStrand)
  BY <1>1, <1>2, TurnFacts
<1>3. \A m \in Outgoing : WriteTask(m) \notin tasks
  OBVIOUS
<1>4. \A result \in Result : Completion("handleWrite", result) \in SocketTask
  BY TaskTypes
<1>5. "error" \in Result
  BY DEF Result
<1>. HIDE DEF rest
<1>6. CASE QueueStep
  <2>1. PICK line \in Seq(SocketTask) : Taken(line) /\ Posted(line)
    BY <1>6 DEF QueueStep
  <2>2. Waits(tasks, line) => Waits(tasks, socketStrand)
    BY <1>1, <2>1, WaitsTail DEF Taken
  <2>3. ASSUME NEW m \in Outgoing, Send(m, line)
        PROVE  Waits(tasks, line)
    BY <1>3, <2>3, SendFacts DEF TypeInv, DataTypes
  <2>4. ASSUME NEW task, Other(task), socketStrand' = Append(line, task)
        PROVE  Waits(tasks, line) \/ task \in tasks
    <3>1. task \in SocketTask
      BY <2>4 DEF Other
    <3>. QED  BY <2>4, <3>1, WaitsAppend
  <2>. QED  BY <2>1, <2>2, <2>3, <2>4 DEF Posted
<1>7. CASE AsyncWrite
  <2>1. rest \in Seq(SocketTask)
    BY <1>2, <1>7 DEF AsyncWrite
  <2>2. Waits(tasks, rest)
    BY <1>4, <1>5, <1>7, <2>1, WaitsAppend DEF AsyncWrite, rest
  <2>. QED  BY <1>2, <1>7, <2>2 DEF AsyncWrite
<1>8. CASE HandleWrite
  <2>1. PICK line \in Seq(SocketTask), queue \in Seq(Outgoing) :
           /\ line = rest
           /\ \/ socketStrand' = WriteNext(queue, line)
              \/ socketStrand' = line
              \/ /\ socketStrand' = Append(line, Task("cancel"))
                 /\ isConnected => closing' # {}
    BY <1>8, HandleWriteFacts DEF rest
  <2>2. Waits(tasks, WriteNext(queue, line)) <=> Waits(tasks, line)
    BY <1>3, WriteNextFacts
  <2>3. Waits(tasks, Append(line, Task("cancel")))
        => Waits(tasks, line) \/ Task("cancel") \in tasks
    BY TaskTypes, WaitsAppend
  <2>. QED  BY <1>2, <1>8, <2>1, <2>2, <2>3 DEF HandleWrite
<1>9. CASE \E result \in Result : CompleteWrite(result)
  BY <1>1, <1>4, <1>9, WaitsAppend DEF CompleteWrite
<1>10. CASE CloseSocket
  BY <1>2, <1>10 DEF CloseSocket, rest
<1>. QED
  BY <1>6, <1>7, <1>8, <1>9, <1>10, OnlyQueueSteps DEF WriteStep

(* A read is numbered once it has succeeded, and received only grows.      *)
LEMMA ReadTypes ==
  ASSUME TypeInv, Next
  PROVE  /\ received' \in 0 .. MaxReads
         /\ received' >= received
         /\ delivered' \in 0 .. MaxReads
         /\ readStrand' \in Seq(1 .. MaxReads)
         /\ wire' \in Seq(Outgoing)
<1>1. /\ received \in 0 .. MaxReads
      /\ delivered \in 0 .. MaxReads
      /\ readStrand \in Seq(1 .. MaxReads)
      /\ socketStrand \in Seq(SocketTask)
      /\ wire \in Seq(Outgoing)
      /\ writing \in Outgoing \cup {NoMessage}
      /\ MaxReads \in Nat
  BY HTTPSessionAssumption DEF TypeInv, DataTypes
<1>2. CASE \E result \in Result : CompleteRead(result) \/ CompleteWrite(result)
  <2>1. received' \in 0 .. MaxReads /\ received' >= received
    BY <1>1, <1>2 DEF CompleteRead, CompleteWrite
  <2>2. wire' \in Seq(Outgoing)
    <3>1. \/ wire' = wire
          \/ wire' = Append(wire, writing) /\ writing # NoMessage
      BY <1>2 DEF CompleteRead, CompleteWrite
    <3>. QED  BY <1>1, <3>1, AppendFacts
  <2>3. delivered' = delivered /\ readStrand' = readStrand
    BY <1>2 DEF CompleteRead, CompleteWrite
  <2>. QED  BY <1>1, <2>1, <2>2, <2>3
<1>3. CASE Receive
  <2>1. /\ Head(readStrand) \in 1 .. MaxReads
        /\ Tail(readStrand) \in Seq(1 .. MaxReads)
    BY <1>1, <1>3, TailFacts DEF Receive
  <2>2. /\ received' = received
        /\ wire' = wire
        /\ delivered' = Head(readStrand)
        /\ readStrand' = Tail(readStrand)
    BY <1>3 DEF Receive
  <2>. QED  BY <1>1, <2>1, <2>2
<1>4. CASE HandleRead
  <2>1. UNCHANGED historyVars
    BY <1>4 DEF HandleRead
  <2>2. readStrand' \in Seq(1 .. MaxReads)
    <3>1. CASE MessageRead
      <4>1. Head(socketStrand) \in MessageReads
        BY <1>1, <1>4, <3>1, TurnFacts DEF HandleRead, MessageRead, MessageReads
      <4>2. Waits(MessageReads, socketStrand)
        BY <1>1, <1>4, <4>1, TurnFacts DEF HandleRead
      <4>3. received \in 1 .. MaxReads
        BY <1>1, <4>2 DEF TypeInv, MessageWasRead
      <4>. QED  BY <1>1, <3>1, <4>3, AppendFacts DEF MessageRead
    <3>2. CASE ~MessageRead
      BY <1>1, <1>4, <3>2 DEF HandleRead, Abandoned, Failed
    <3>. QED  BY <3>1, <3>2
  <2>. QED  BY <1>1, <2>1, <2>2 DEF historyVars
<1>5. CASE Next /\ ~HandleRead /\ ~Receive
           /\ ~\E result \in Result :
                 CompleteRead(result) \/ CompleteWrite(result)
  <2>1. /\ received' = received /\ delivered' = delivered
        /\ readStrand' = readStrand /\ wire' = wire
    BY <1>5 DEF Next, SocketStep, Resolve, HandleResolve, HandleConnect,
       AsyncHandshake, HandleHandshake, HandshakeSucceeded, Abandoned, Failed,
       AsyncWrite, HandleWrite, CancelSocket, CloseSocket, CommitClose,
       historyVars
  <2>. QED  BY <1>1, <2>1
<1>. QED  BY <1>2, <1>3, <1>4, <1>5

(* A read that is waiting to be handled succeeded.                         *)
LEMMA MessageWasReadKept ==
  ASSUME TypeInv, Next, Waits(MessageReads, socketStrand')
  PROVE  received' > 0
<1>1. received \in Nat /\ received' \in Nat /\ received' >= received
  <2>1. received \in 0 .. MaxReads
    BY DEF TypeInv, DataTypes
  <2>. QED  BY <2>1, ReadTypes
<1>2. /\ \A m \in Outgoing : WriteTask(m) \notin MessageReads
      /\ \A result \in Result :
           Completion("handleWrite", result) \notin MessageReads
      /\ "error" \in Result
  BY NoMessageReads DEF Result
<1>3. Task("cancel") \notin MessageReads
  BY TaskNames DEF MessageReads
<1>4. CASE Waits(MessageReads, socketStrand)
  BY <1>1, <1>4 DEF TypeInv, MessageWasRead
<1>5. CASE \E task \in MessageReads : Other(task)
  <2>1. PICK task \in MessageReads : Other(task)
    BY <1>5
  <2>2. task.op = "handleRead" /\ task.result = "ok"
    BY DEF MessageReads
  <2>3. PICK result \in Result :
          /\ CompleteRead(result)
          /\ task = Completion(IF reading = "read" THEN "handleRead"
                               ELSE "handleHandshake", result)
    BY <2>1, <2>2, TaskNames DEF Other
  <2>4. reading = "read" /\ result = "ok"
    BY <2>2, <2>3, TaskNames
  <2>. QED  BY <1>1, <2>3, <2>4 DEF CompleteRead
<1>. QED  BY <1>2, <1>3, <1>4, <1>5, NewTasks

(* TypeInv is inductive.                                                   *)
LEMMA TypeInvInductive == TypeInv /\ [Next]_vars => TypeInv'
<1>1. ASSUME TypeInv, Next PROVE TypeInv'
  <2>1. FlagTypes'
    BY <1>1, OtherTypes
  <2>2. DataTypes'
    BY <1>1, OtherTypes, QueueTypes, ReadTypes DEF DataTypes
  <2>3. MessageWasRead'
    BY <1>1, MessageWasReadKept DEF MessageWasRead
  <2>. QED  BY <2>1, <2>2, <2>3 DEF TypeInv
<1>2. ASSUME TypeInv, UNCHANGED vars PROVE TypeInv'
  BY <1>2 DEF TypeInv, FlagTypes, DataTypes, MessageWasRead, vars, objectVars,
     socketVars, historyVars
<1>. QED  BY <1>1, <1>2

(* Every reachable state satisfies it.                                     *)
LEMMA TypeInvariant == Spec => []TypeInv
<1>1. Init => TypeInv
  <2>. SUFFICES ASSUME Init PROVE TypeInv
    OBVIOUS
  <2>1. FlagTypes
    BY DEF Init, FlagTypes
  <2>2. DataTypes
    BY HTTPSessionAssumption DEF Init, DataTypes, NoMessage, Context
  <2>3. MessageWasRead
    BY NoneWaits DEF Init, MessageWasRead
  <2>. QED  BY <2>1, <2>2, <2>3 DEF TypeInv
<1>. QED  BY <1>1, TypeInvInductive, PTL DEF Spec

(* Type correctness: among it that receiveHandler_ is only given a message *)
(* that was read, whatever is posted before and after it.                  *)
THEOREM TypeCorrect == Spec => []TypeOK
BY TypeInvariant, TypeInvParts, PTL

-----------------------------------------------------------------------------
(* The write queue.                                                        *)

(* Writes of a message that is not the front of the queue.                 *)
StaleWrites(q) ==
  {task \in SocketTask :
     task.op = "asyncWrite" /\ (q = <<>> \/ task.message # Head(q))}

(* The queue, the strand and the message being written fit together.       *)
Consistent(q, line, w) ==
  /\ AtMostOneWaits(WriteTasks, line)
  /\ w # NoMessage =>
       ~Waits(WriteTasks, line) /\ q # <<>> /\ Head(q) = w
  /\ Waits(WriteTasks, line) => q # <<>>
  /\ ~Waits(StaleWrites(q), line)

WriteInv == socketOpen => Consistent(writeQueue, socketStrand, writing)

(* Stale writes are writes, and an asyncWrite() is stale unless it writes  *)
(* the front.                                                              *)
LEMMA StaleFacts ==
  /\ \A q : StaleWrites(q) \subseteq WriteTasks
  /\ \A q, line :
       ~Waits(WriteTasks, line) => ~Waits(StaleWrites(q), line)
  /\ \A q : \A m \in Outgoing :
       q # <<>> /\ Head(q) = m => WriteTask(m) \notin StaleWrites(q)
  /\ \A q : \A result \in Result :
       Completion("handleWrite", result) \notin StaleWrites(q)
<1>1. \A q : StaleWrites(q) \subseteq WriteTasks
  BY DEF StaleWrites, WriteTasks
<1>2. \A q : \A m \in Outgoing :
        q # <<>> /\ Head(q) = m => WriteTask(m) \notin StaleWrites(q)
  BY TaskNames DEF StaleWrites
<1>3. \A q : \A result \in Result :
        Completion("handleWrite", result) \notin StaleWrites(q)
  BY TaskNames DEF StaleWrites
<1>. QED  BY <1>1, <1>2, <1>3 DEF Waits

(* Nothing is written and no write waits: any queue will do.               *)
LEMMA ConsistentIdle ==
  ASSUME NEW q, NEW line, ~Waits(WriteTasks, line)
  PROVE  Consistent(q, line, NoMessage)
BY StaleFacts, NoneWaits DEF Consistent

(* A handler that leaves the strand disturbs nothing.                      *)
LEMMA ConsistentTail ==
  ASSUME NEW q, NEW line \in Seq(SocketTask), NEW w, line # <<>>,
         Consistent(q, line, w)
  PROVE  Consistent(q, Tail(line), w)
<1>1. \A tasks : Waits(tasks, Tail(line)) => Waits(tasks, line)
  BY WaitsTail
<1>. QED  BY <1>1, WaitsTail DEF Consistent

(* Nor does a handler that is posted and writes nothing.                   *)
LEMMA ConsistentAppend ==
  ASSUME NEW q, NEW line \in Seq(SocketTask), NEW w,
         NEW task \in SocketTask \ WriteTasks, Consistent(q, line, w)
  PROVE  Consistent(q, Append(line, task), w)
<1>1. /\ Waits(WriteTasks, Append(line, task)) <=> Waits(WriteTasks, line)
      /\ AtMostOneWaits(WriteTasks, Append(line, task))
  BY WaitsAppend DEF Consistent
<1>2. task \notin StaleWrites(q)
  BY StaleFacts
<1>3. ~Waits(StaleWrites(q), Append(line, task))
  BY <1>2, WaitsAppend DEF Consistent
<1>. QED  BY <1>1, <1>3 DEF Consistent

(* A handler of a write is posted while no write is under way: the write   *)
(* of the front, or the end of the one that was.                           *)
LEMMA ConsistentPost ==
  ASSUME NEW q \in Seq(Outgoing), q # <<>>, NEW line \in Seq(SocketTask),
         NEW task \in SocketTask, task \notin StaleWrites(q),
         ~Waits(WriteTasks, line)
  PROVE  Consistent(q, Append(line, task), NoMessage)
<1>1. AtMostOneWaits(WriteTasks, line) /\ ~Waits(StaleWrites(q), line)
  BY StaleFacts, NoneWaits
<1>2. AtMostOneWaits(WriteTasks, Append(line, task))
  BY <1>1, WaitsAppend
<1>3. ~Waits(StaleWrites(q), Append(line, task))
  BY <1>1, WaitsAppend
<1>. QED  BY <1>2, <1>3 DEF Consistent

(* writeNext() posts the write of the front.                               *)
LEMMA ConsistentNext ==
  ASSUME NEW q \in Seq(Outgoing), NEW line \in Seq(SocketTask),
         ~Waits(WriteTasks, line)
  PROVE  Consistent(q, WriteNext(q, line), NoMessage)
<1>1. CASE q = <<>>
  BY <1>1, ConsistentIdle DEF WriteNext
<1>2. CASE q # <<>>
  <2>1. Head(q) \in Outgoing
    BY <1>2
  <2>2. /\ WriteTask(Head(q)) \in SocketTask
        /\ WriteTask(Head(q)) \notin StaleWrites(q)
    BY <1>2, <2>1, TaskTypes, StaleFacts
  <2>. QED  BY <1>2, <2>2, ConsistentPost DEF WriteNext
<1>. QED  BY <1>1, <1>2

(* send() as a whole.                                                      *)
LEMMA ConsistentSend ==
  ASSUME TypeInv, NEW line \in Seq(SocketTask), NEW m \in Outgoing,
         Consistent(writeQueue, line, writing), Send(m, line)
  PROVE  Consistent(writeQueue', socketStrand', writing)
<1>1. writeQueue \in Seq(Outgoing)
  BY DEF TypeInv, DataTypes
<1>2. /\ writeQueue' \in Seq(Outgoing)
      /\ writeQueue' # <<>>
      /\ Head(writeQueue') = IF writeQueue = <<>> THEN m ELSE Head(writeQueue)
      /\ socketStrand' = IF writeQueue = <<>>
                         THEN Append(line, WriteTask(m)) ELSE line
  BY <1>1, SendFacts
<1>3. CASE writeQueue = <<>>
  <2>1. ~Waits(WriteTasks, line) /\ writing = NoMessage
    BY <1>3 DEF Consistent
  <2>2. /\ WriteTask(m) \in SocketTask
        /\ WriteTask(m) \notin StaleWrites(writeQueue')
    BY <1>2, <1>3, TaskTypes, StaleFacts
  <2>. QED  BY <1>2, <1>3, <2>1, <2>2, ConsistentPost
<1>4. CASE writeQueue # <<>>
  <2>1. StaleWrites(writeQueue') = StaleWrites(writeQueue)
    BY <1>2, <1>4 DEF StaleWrites
  <2>. QED  BY <1>2, <1>4, <2>1 DEF Consistent
<1>. QED  BY <1>3, <1>4

(* WriteInv is inductive.                                                  *)
LEMMA WriteInvInductive ==
  TypeInv /\ WriteInv /\ [Next]_vars => WriteInv'
<1>. SUFFICES ASSUME TypeInv, WriteInv, [Next]_vars, socketOpen'
              PROVE  Consistent(writeQueue', socketStrand', writing')
  BY DEF WriteInv
<1>1. /\ socketStrand \in Seq(SocketTask)
      /\ writeQueue \in Seq(Outgoing)
      /\ writing \in Outgoing \cup {NoMessage}
  BY DEF TypeInv, DataTypes
<1>. DEFINE rest == Tail(socketStrand)
<1>2. CASE UNCHANGED vars
  BY <1>2 DEF WriteInv, vars, objectVars, socketVars
<1>3. CASE QueueStep
  <2>1. Consistent(writeQueue, socketStrand, writing)
    BY <1>3 DEF QueueStep, WriteInv
  <2>2. PICK line \in Seq(SocketTask) : Taken(line) /\ Posted(line)
    BY <1>3 DEF QueueStep
  <2>3. Consistent(writeQueue, line, writing)
    BY <1>1, <2>1, <2>2, ConsistentTail DEF Taken
  <2>4. ASSUME NEW m \in Outgoing, Send(m, line)
        PROVE  Consistent(writeQueue', socketStrand', writing)
    BY <2>3, <2>4, ConsistentSend
  <2>5. ASSUME NEW task, Other(task),
               socketStrand' = Append(line, task), writeQueue' = writeQueue
        PROVE  Consistent(writeQueue', socketStrand', writing)
    <3>1. task \in SocketTask \ WriteTasks
      BY <2>5 DEF Other
    <3>. QED  BY <1>1, <2>3, <2>5, <3>1, ConsistentAppend
  <2>6. Consistent(writeQueue', socketStrand', writing)
    BY <2>2, <2>3, <2>4, <2>5 DEF Posted
  <2>. QED  BY <1>3, <2>6 DEF QueueStep
<1>4. CASE AsyncWrite
  <2>1. /\ Head(socketStrand) \in WriteTasks
        /\ rest \in Seq(SocketTask)
        /\ Waits(WriteTasks, socketStrand)
        /\ Head(socketStrand) \in StaleWrites(writeQueue)
           => Waits(StaleWrites(writeQueue), socketStrand)
        /\ Head(socketStrand).op = "asyncWrite"
        /\ Head(socketStrand) \in SocketTask
        /\ socketStrand # <<>>
    BY <1>1, <1>4, TurnFacts DEF AsyncWrite, WriteTasks
  <2>2. socketOpen /\ Consistent(writeQueue, socketStrand, writing)
    BY <1>4 DEF AsyncWrite, WriteInv
  <2>3. /\ writeQueue # <<>>
        /\ Head(socketStrand).message = Head(writeQueue)
    BY <2>1, <2>2 DEF Consistent, StaleWrites
  <2>4. ~Waits(WriteTasks, rest)
    BY <1>1, <2>1, <2>2, WaitsTail DEF Consistent
  <2>5. /\ writing' = Head(writeQueue)
        /\ socketStrand' = rest
        /\ writeQueue' = writeQueue
    BY <1>4, <2>2, <2>3 DEF AsyncWrite, objectVars
  <2>6. /\ ~Waits(StaleWrites(writeQueue), rest)
        /\ AtMostOneWaits(WriteTasks, rest)
    BY <2>4, StaleFacts, NoneWaits
  <2>. QED  BY <2>3, <2>4, <2>5, <2>6 DEF Consistent
<1>5. CASE HandleWrite
  <2>1. /\ Head(socketStrand) \in WriteTasks
        /\ Waits(WriteTasks, socketStrand)
        /\ socketStrand # <<>>
    BY <1>1, <1>5, TurnFacts DEF HandleWrite, WriteTasks
  <2>2. Consistent(writeQueue, socketStrand, writing)
    BY <1>5 DEF HandleWrite, socketVars, WriteInv
  <2>3. writing = NoMessage /\ ~Waits(WriteTasks, rest)
    BY <1>1, <2>1, <2>2, WaitsTail DEF Consistent
  <2>4. PICK line \in Seq(SocketTask), queue \in Seq(Outgoing) :
          /\ line = rest
          /\ writeQueue' = queue
          /\ writing' = writing
          /\ socketStrand' \in {line, WriteNext(queue, line),
                                Append(line, Task("cancel"))}
    BY <1>5, HandleWriteFacts
  <2>5. /\ Consistent(queue, line, NoMessage)
        /\ Consistent(queue, WriteNext(queue, line), NoMessage)
    BY <2>3, <2>4, ConsistentIdle, ConsistentNext
  <2>6. Consistent(queue, Append(line, Task("cancel")), NoMessage)
    BY <2>4, <2>5, ConsistentAppend, OtherTasks
  <2>. QED  BY <2>3, <2>4, <2>5, <2>6
<1>6. CASE \E result \in Result : CompleteWrite(result)
  <2>1. PICK result \in Result : CompleteWrite(result)
    BY <1>6
  <2>2. Consistent(writeQueue, socketStrand, writing)
    BY <2>1 DEF CompleteWrite, WriteInv
  <2>3. ~Waits(WriteTasks, socketStrand) /\ writeQueue # <<>>
    BY <2>1, <2>2 DEF CompleteWrite, Consistent
  <2>4. /\ Completion("handleWrite", result) \in SocketTask
        /\ Completion("handleWrite", result) \notin StaleWrites(writeQueue)
    BY TaskTypes, StaleFacts
  <2>5. /\ writing' = NoMessage
        /\ writeQueue' = writeQueue
        /\ socketStrand'
             = Append(socketStrand, Completion("handleWrite", result))
    BY <2>1 DEF CompleteWrite, objectVars
  <2>. QED  BY <1>1, <2>3, <2>4, <2>5, ConsistentPost
<1>7. ~CloseSocket
  BY DEF CloseSocket
<1>. QED
  BY <1>2, <1>3, <1>4, <1>5, <1>6, <1>7, OnlyQueueSteps DEF WriteStep

(* Every reachable state satisfies it.                                     *)
LEMMA WriteInvariant == Spec => []WriteInv
<1>1. Init => WriteInv
  BY NoneWaits DEF Init, WriteInv, Consistent
<1>. QED  BY <1>1, TypeInvariant, WriteInvInductive, PTL DEF Spec

(* The writes under way, and how many the queue accounts for.              *)
Writes(line, w) == Count(WriteTasks, line) + IF w = NoMessage THEN 0 ELSE 1

Served(q) == IF q = <<>> THEN 0 ELSE 1

FewWrites == Writes(socketStrand, writing) <= Served(writeQueue) + closes

(* Counting the writes as handlers are posted and run.                     *)
LEMMA WritesFacts ==
  ASSUME NEW line \in Seq(SocketTask), NEW w
  PROVE  /\ Writes(line, w) \in Nat
         /\ \A task \in SocketTask :
              Writes(Append(line, task), w) =
                Writes(line, w) + IF task \in WriteTasks THEN 1 ELSE 0
         /\ line # <<>> =>
              Writes(line, w) = Writes(Tail(line), w)
                + IF Head(line) \in WriteTasks THEN 1 ELSE 0
<1>1. Count(WriteTasks, line) \in Nat
  BY CountFacts
<1>2. ASSUME NEW task \in SocketTask
      PROVE  Writes(Append(line, task), w) =
               Writes(line, w) + IF task \in WriteTasks THEN 1 ELSE 0
  BY <1>1, CountAppend DEF Writes
<1>3. ASSUME line # <<>>
      PROVE  Writes(line, w) = Writes(Tail(line), w)
               + IF Head(line) \in WriteTasks THEN 1 ELSE 0
  <2>1. Count(WriteTasks, Tail(line)) \in Nat
    BY <1>3, TailFacts, CountFacts
  <2>2. Count(WriteTasks, line) = Count(WriteTasks, Tail(line))
          + IF Head(line) \in WriteTasks THEN 1 ELSE 0
    BY <1>3, CountTail
  <2>. QED  BY <1>1, <2>1, <2>2 DEF Writes
<1>. QED  BY <1>1, <1>2, <1>3 DEF Writes

(* writeNext() begins a write if the queue is to be served.                *)
LEMMA NextWrites ==
  ASSUME NEW q \in Seq(Outgoing), NEW line \in Seq(SocketTask), NEW w
  PROVE  Writes(WriteNext(q, line), w) = Writes(line, w) + Served(q)
<1>1. Writes(line, w) \in Nat
  BY WritesFacts
<1>2. CASE q = <<>>
  BY <1>1, <1>2 DEF WriteNext, Served
<1>3. CASE q # <<>>
  <2>1. Head(q) \in Outgoing
    BY <1>3
  <2>2. WriteTask(Head(q)) \in SocketTask /\ WriteTask(Head(q)) \in WriteTasks
    BY <2>1, TaskTypes, OtherTasks
  <2>3. Writes(Append(line, WriteTask(Head(q))), w) = Writes(line, w) + 1
    BY <2>2, WritesFacts
  <2>. QED  BY <1>3, <2>3 DEF WriteNext, Served
<1>. QED  BY <1>2, <1>3

(* send() begins a write only if it makes the queue start to be served.    *)
LEMMA SendWrites ==
  ASSUME writeQueue \in Seq(Outgoing), NEW m \in Outgoing,
         NEW line \in Seq(SocketTask), NEW w, Send(m, line)
  PROVE  /\ Writes(socketStrand', w) \in Nat
         /\ Writes(socketStrand', w) + Served(writeQueue)
            = Writes(line, w) + Served(writeQueue')
<1>1. Served(writeQueue') = 1
  BY SendFacts DEF Served
<1>2. Writes(line, w) \in Nat
  BY WritesFacts
<1>3. CASE writeQueue = <<>>
  <2>1. WriteTask(m) \in SocketTask /\ WriteTask(m) \in WriteTasks
    BY TaskTypes, OtherTasks
  <2>2. socketStrand' = Append(line, WriteTask(m))
    BY <1>3, SendFacts
  <2>3. Writes(socketStrand', w) = Writes(line, w) + 1
    BY <2>1, <2>2, WritesFacts
  <2>. QED  BY <1>1, <1>2, <1>3, <2>3 DEF Served
<1>4. CASE writeQueue # <<>>
  <2>1. socketStrand' = line
    BY <1>4, SendFacts
  <2>. QED  BY <1>1, <1>2, <1>4, <2>1 DEF Served
<1>. QED  BY <1>3, <1>4

(* FewWrites is inductive.                                                 *)
LEMMA FewWritesInductive ==
  TypeInv /\ FewWrites /\ [Next]_vars => FewWrites'
<1>. SUFFICES ASSUME TypeInv, FewWrites, [Next]_vars
              PROVE  Writes(socketStrand', writing')
                     <= Served(writeQueue') + closes'
  BY DEF FewWrites
<1>1. /\ socketStrand \in Seq(SocketTask)
      /\ writeQueue \in Seq(Outgoing)
      /\ closes \in Nat
  BY DEF TypeInv, DataTypes
<1>2. /\ Writes(socketStrand, writing) \in Nat
      /\ Writes(socketStrand, writing) <= Served(writeQueue) + closes
  BY <1>1, WritesFacts DEF FewWrites
<1>3. \A q : Served(q) \in {0, 1}
  BY DEF Served
<1>4. CASE UNCHANGED vars
  BY <1>2, <1>4 DEF vars, objectVars, socketVars, historyVars
<1>5. CASE CloseSocket
  <2>1. /\ socketStrand # <<>>
        /\ socketStrand' = Tail(socketStrand)
        /\ writing' = writing
        /\ writeQueue' = <<>>
        /\ closes' = closes + 1
    BY <1>5 DEF CloseSocket, SocketTurn
  <2>2. /\ Writes(socketStrand', writing) \in Nat
        /\ Writes(socketStrand', writing) <= Writes(socketStrand, writing)
    <3>1. Tail(socketStrand) \in Seq(SocketTask)
      BY <1>1, <2>1, TailFacts
    <3>2. Writes(Tail(socketStrand), writing) \in Nat
      BY <3>1, WritesFacts
    <3>3. Writes(socketStrand, writing) = Writes(Tail(socketStrand), writing)
            + IF Head(socketStrand) \in WriteTasks THEN 1 ELSE 0
      BY <1>1, <2>1, WritesFacts
    <3>. QED  BY <1>2, <2>1, <3>2, <3>3
  <2>. QED  BY <1>1, <1>2, <1>3, <2>1, <2>2
<1>6. ASSUME Next, ~CloseSocket
      PROVE  closes' = closes
  BY <1>6 DEF Next, SocketStep, Resolve, HandleResolve, HandleConnect,
     AsyncHandshake, HandleHandshake, HandleRead, AsyncWrite, HandleWrite,
     CancelSocket, Receive, CommitClose, CompleteRead, CompleteWrite,
     historyVars
<1>7. CASE Next /\ ~CloseSocket /\ QueueStep
  <2>1. writing' = writing /\ closes' = closes
    BY <1>6, <1>7 DEF QueueStep
  <2>2. PICK line \in Seq(SocketTask) : Taken(line) /\ Posted(line)
    BY <1>7 DEF QueueStep
  <2>3. Writes(line, writing) = Writes(socketStrand, writing)
    <3>1. CASE line # socketStrand
      <4>1. /\ socketStrand # <<>>
            /\ Head(socketStrand) \notin WriteTasks
            /\ line = Tail(socketStrand)
        BY <2>2, <3>1 DEF Taken
      <4>2. Writes(line, writing) \in Nat
        BY WritesFacts
      <4>. QED  BY <1>1, <4>1, <4>2, WritesFacts
    <3>. QED  BY <3>1
  <2>4. ASSUME NEW m \in Outgoing, Send(m, line)
        PROVE  /\ Writes(socketStrand', writing) \in Nat
               /\ Writes(socketStrand', writing) + Served(writeQueue)
                  = Writes(line, writing) + Served(writeQueue')
    BY <1>1, <2>4, SendWrites
  <2>5. ASSUME NEW task, Other(task), socketStrand' = Append(line, task)
        PROVE  Writes(socketStrand', writing) = Writes(line, writing)
    <3>1. task \in SocketTask /\ task \notin WriteTasks
      BY <2>5 DEF Other
    <3>2. Writes(line, writing) \in Nat
      BY WritesFacts
    <3>. QED  BY <2>5, <3>1, <3>2, WritesFacts
  <2>6. CASE \E m \in Outgoing : Send(m, line)
    BY <1>1, <1>2, <1>3, <2>1, <2>3, <2>4, <2>6
  <2>7. CASE Writes(socketStrand', writing) = Writes(line, writing)
             /\ writeQueue' = writeQueue
    BY <1>2, <2>1, <2>3, <2>7
  <2>. QED  BY <2>2, <2>5, <2>6, <2>7 DEF Posted
<1>8. \A result \in Result :
        /\ Completion("handleWrite", result) \in SocketTask
        /\ Completion("handleWrite", result) \in WriteTasks
  BY TaskTypes, OtherTasks
<1>9. ASSUME NEW op \in {"asyncWrite", "handleWrite"}, SocketTurn(op)
      PROVE  /\ socketStrand # <<>>
             /\ Tail(socketStrand) \in Seq(SocketTask)
             /\ Writes(Tail(socketStrand), writing) \in Nat
             /\ Writes(socketStrand, writing)
                = Writes(Tail(socketStrand), writing) + 1
  <2>1. /\ socketStrand # <<>>
        /\ Tail(socketStrand) \in Seq(SocketTask)
        /\ Head(socketStrand) \in WriteTasks
    BY <1>1, <1>9, TurnFacts DEF WriteTasks
  <2>. QED  BY <1>1, <2>1, WritesFacts
<1>10. CASE AsyncWrite
  <2>. DEFINE rest == Tail(socketStrand)
              fail == Completion("handleWrite", "error")
  <2>1. /\ rest \in Seq(SocketTask)
        /\ Writes(rest, writing) \in Nat
        /\ Writes(socketStrand, writing) = Writes(rest, writing) + 1
    BY <1>9, <1>10 DEF AsyncWrite
  <2>2. fail \in SocketTask /\ fail \in WriteTasks
    BY <1>8 DEF Result
  <2>3. /\ closes' = closes /\ writeQueue' = writeQueue
        /\ \/ socketStrand' = rest
           \/ socketStrand' = Append(rest, fail) /\ writing' = writing
    BY <1>10 DEF AsyncWrite, objectVars, historyVars
  <2>. HIDE DEF rest, fail
  <2>4. /\ Writes(rest, writing') \in Nat
        /\ Writes(rest, writing') <= Writes(rest, writing) + 1
    <3>1. Count(WriteTasks, rest) \in Nat
      BY <2>1, CountFacts
    <3>. QED  BY <3>1 DEF Writes
  <2>5. Writes(Append(rest, fail), writing) = Writes(rest, writing) + 1
    BY <2>1, <2>2, WritesFacts
  <2>6. CASE socketStrand' = rest
    <3>1. /\ Writes(socketStrand', writing') \in Nat
          /\ Writes(socketStrand', writing') <= Writes(socketStrand, writing)
      BY <1>2, <2>1, <2>4, <2>6
    <3>. QED  BY <1>1, <1>2, <1>3, <2>3, <3>1
  <2>7. CASE socketStrand' = Append(rest, fail) /\ writing' = writing
    <3>1. Writes(socketStrand', writing') = Writes(socketStrand, writing)
      BY <2>1, <2>5, <2>7
    <3>. QED  BY <1>1, <1>2, <1>3, <2>3, <3>1
  <2>. QED  BY <2>3, <2>6, <2>7
<1>11. CASE HandleWrite
  <2>1. PICK rest \in Seq(SocketTask), queue \in Seq(Outgoing) :
          /\ rest = Tail(socketStrand)
          /\ queue = Dequeue(writeQueue)
          /\ writeQueue' = queue
          /\ writing' = writing
          /\ socketStrand' \in {rest, WriteNext(queue, rest),
                                Append(rest, Task("cancel"))}
    BY <1>11, HandleWriteFacts
  <2>2. /\ Writes(rest, writing) \in Nat
        /\ Writes(rest, writing) + 1 <= Served(writeQueue) + closes
        /\ closes' = closes
    BY <1>2, <1>9, <1>11, <2>1 DEF HandleWrite, historyVars
  <2>3. Served(queue) <= Served(writeQueue)
    BY <2>1 DEF Served, Dequeue
  <2>4. Writes(Append(rest, Task("cancel")), writing) = Writes(rest, writing)
    BY <2>2, OtherTasks, WritesFacts
  <2>5. Writes(WriteNext(queue, rest), writing)
        = Writes(rest, writing) + Served(queue)
    BY NextWrites
  <2>6. Writes(socketStrand', writing') <= Writes(rest, writing) + Served(queue)
        /\ Writes(socketStrand', writing') \in Nat
    <3>1. CASE socketStrand' = rest
      BY <1>3, <2>1, <2>2, <3>1
    <3>2. CASE socketStrand' = WriteNext(queue, rest)
      BY <1>3, <2>1, <2>2, <2>5, <3>2
    <3>3. CASE socketStrand' = Append(rest, Task("cancel"))
      BY <1>3, <2>1, <2>2, <2>4, <3>3
    <3>. QED  BY <2>1, <3>1, <3>2, <3>3
  <2>. QED  BY <1>1, <1>3, <2>1, <2>2, <2>3, <2>6
<1>12. CASE \E result \in Result : CompleteWrite(result)
  <2>1. PICK result \in Result : CompleteWrite(result)
    BY <1>12
  <2>. DEFINE end == Completion("handleWrite", result)
  <2>2. end \in SocketTask /\ end \in WriteTasks
    BY <1>8
  <2>3. /\ socketStrand' = Append(socketStrand, end)
        /\ writing # NoMessage /\ writing' = NoMessage
        /\ closes' = closes /\ writeQueue' = writeQueue
    BY <2>1 DEF CompleteWrite, objectVars
  <2>. HIDE DEF end
  <2>4. Writes(socketStrand', NoMessage) = Writes(socketStrand, NoMessage) + 1
    BY <1>1, <2>2, <2>3, WritesFacts
  <2>5. Writes(socketStrand, NoMessage) + 1 = Writes(socketStrand, writing)
    <3>1. Count(WriteTasks, socketStrand) \in Nat
      BY <1>1, CountFacts
    <3>. QED  BY <2>3, <3>1 DEF Writes
  <2>. QED  BY <1>2, <2>3, <2>4, <2>5
<1>. QED  BY <1>4, <1>5, <1>7, <1>10, <1>11, <1>12, OnlyQueueSteps
     DEF WriteStep

(* Every reachable state satisfies it.                                     *)
LEMMA FewWritesInvariant == Spec => []FewWrites
<1>1. Init => FewWrites
  <2>. SUFFICES ASSUME Init PROVE FewWrites
    OBVIOUS
  <2>1. <<>> \in Seq(SocketTask)
    OBVIOUS
  <2>2. Count(WriteTasks, <<>>) = 0
    BY <2>1, CountFacts, NoneWaits
  <2>. QED  BY <2>2 DEF Init, FewWrites, Writes, Served
<1>. QED  BY <1>1, TypeInvariant, FewWritesInductive, PTL DEF Spec

(* One write at a time, and one more for each handler of close() that      *)
(* cleared the queue; as long as the socket is open, of the front:         *)
(* handleWrite() pops the message that was written, whoever called send()  *)
(* in the meantime.                                                        *)
THEOREM WritesTheFront == Spec => []OneWriteOfFront
<1>1. TypeInv /\ FewWrites =>
        Cardinality(WriteTurns) + (IF writing = NoMessage THEN 0 ELSE 1)
        <= (IF writeQueue = <<>> THEN 0 ELSE 1) + closes
  <2>. SUFFICES ASSUME TypeInv, FewWrites
                PROVE  Cardinality(WriteTurns)
                         + (IF writing = NoMessage THEN 0 ELSE 1)
                       <= (IF writeQueue = <<>> THEN 0 ELSE 1) + closes
    OBVIOUS
  <2>1. WriteTurns = Places(WriteTasks, socketStrand)
    BY DEF TypeInv, DataTypes, WriteTurns, Waiting, WriteTasks, Places
  <2>2. Cardinality(WriteTurns) = Count(WriteTasks, socketStrand)
    BY <2>1 DEF Count
  <2>. QED  BY <2>2 DEF FewWrites, Writes, Served
<1>2. TypeInv /\ WriteInv /\ socketOpen =>
        /\ writing # NoMessage =>
             writeQueue # <<>> /\ Head(writeQueue) = writing
        /\ \A i \in WriteTurns :
             socketStrand[i].op = "asyncWrite" =>
               /\ writeQueue # <<>>
               /\ socketStrand[i].message = Head(writeQueue)
  <2>. SUFFICES ASSUME TypeInv, WriteInv, socketOpen
                PROVE  /\ writing # NoMessage =>
                            writeQueue # <<>> /\ Head(writeQueue) = writing
                       /\ \A i \in WriteTurns :
                            socketStrand[i].op = "asyncWrite" =>
                              /\ writeQueue # <<>>
                              /\ socketStrand[i].message = Head(writeQueue)
    OBVIOUS
  <2>1. /\ Consistent(writeQueue, socketStrand, writing)
        /\ socketStrand \in Seq(SocketTask)
    BY DEF WriteInv, TypeInv, DataTypes
  <2>2. /\ DOMAIN socketStrand = 1 .. Len(socketStrand)
        /\ \A i \in DOMAIN socketStrand : socketStrand[i] \in SocketTask
    BY <2>1
  <2>3. \A i \in WriteTurns :
          i \in 1 .. Len(socketStrand) /\ socketStrand[i] \in WriteTasks
    BY <2>2 DEF WriteTurns, Waiting, WriteTasks
  <2>4. writing # NoMessage =>
          writeQueue # <<>> /\ Head(writeQueue) = writing
    BY <2>1 DEF Consistent
  <2>5. \A i \in WriteTurns :
          socketStrand[i].op = "asyncWrite" =>
            writeQueue # <<>> /\ socketStrand[i].message = Head(writeQueue)
    BY <2>1, <2>2, <2>3 DEF Consistent, Waits, StaleWrites
  <2>. QED  BY <2>4, <2>5
<1>3. TypeInv /\ FewWrites /\ WriteInv => OneWriteOfFront
  BY <1>1, <1>2 DEF OneWriteOfFront
<1>. QED  BY <1>3, TypeInvariant, WriteInvariant, FewWritesInvariant, PTL

-----------------------------------------------------------------------------
(* Sessions at work.                                                       *)

(* Without open(), nothing has happened.                                   *)
Starting == stage \notin {"opening", "open"}

Untouched ==
  /\ isConnected = FALSE
  /\ writeQueue = <<>>
  /\ socketStrand = <<>>
  /\ readStrand = <<>>
  /\ closing = {}
  /\ socketOpen = TRUE
  /\ reading = "none"
  /\ writing = NoMessage
  /\ doomed = {}

StartInv == Starting => Untouched

(* Nobody has called close() since open().                                 *)
Live == isConnected = TRUE /\ closing = {}

(* Handlers of close(), and those that end because of it.                  *)
Ending ==
  {task \in SocketTask :
     task.op \in {"cancel", "close"} \/ task.result = "aborted"}

ReadTasks ==
  {task \in SocketTask :
     task.op \in {"asyncHandshake", "handleHandshake", "handleRead"}}

Undisturbed ==
  /\ socketOpen = TRUE
  /\ doomed = {}
  /\ ~Waits(Ending, socketStrand)

Listening == reading # "none" \/ Waits(ReadTasks, socketStrand)

Awake ==
  writeQueue # <<>> => writing # NoMessage \/ Waits(WriteTasks, socketStrand)

LiveInv == Live => Undisturbed /\ Listening /\ Awake

(* StartInv is inductive.                                                  *)
LEMMA StartInvInductive == StartInv /\ [Next]_vars => StartInv'
<1>. SUFFICES ASSUME StartInv, [Next]_vars, Starting' PROVE Untouched'
  BY DEF StartInv
<1>1. CASE UNCHANGED vars
  BY <1>1 DEF StartInv, Starting, Untouched, vars, objectVars, socketVars
<1>2. CASE Next
  <2>1. Starting
    BY <1>2 DEF Next, SocketStep, Resolve, HandleResolve, HandleConnect, Open,
       OpenThrows, AsyncHandshake, HandleHandshake, HandshakeSucceeded,
       HandleRead, MessageRead, Abandoned, Failed, AsyncWrite, HandleWrite,
       CancelSocket, CloseSocket, Receive, CommitClose, CompleteRead,
       CompleteWrite, objectVars, Starting
  <2>2. Untouched
    BY <2>1 DEF StartInv
  <2>3. Resolve \/ HandleResolve \/ HandleConnect
    BY <1>2, <2>2 DEF Next, SocketStep, SocketTurn, AsyncHandshake,
       HandleHandshake, HandleRead, AsyncWrite, HandleWrite, CancelSocket,
       CloseSocket, Receive, CommitClose, CompleteRead, CompleteWrite,
       Untouched
  <2>4. HandleConnect => UNCHANGED <<isConnected, socketStrand>>
    BY DEF HandleConnect, Open, OpenThrows, Starting
  <2>. QED  BY <2>2, <2>3, <2>4 DEF Resolve, HandleResolve, HandleConnect,
                                    socketVars, Untouched
<1>. QED  BY <1>1, <1>2

(* Every reachable state satisfies it.                                     *)
LEMMA StartInvariant == Spec => []StartInv
<1>1. Init => StartInv
  BY DEF Init, StartInv, Untouched
<1>. QED  BY <1>1, StartInvInductive, PTL DEF Spec

(* A session becomes live by open() only.                                  *)
LEMMA LiveBefore ==
  ASSUME TypeInv, Next, Live', ~HandleConnect
  PROVE  Live
<1>. USE DEF Next, SocketStep, Resolve, HandleResolve, AsyncHandshake,
         HandleHandshake, HandleRead, AsyncWrite, HandleWrite, CancelSocket,
         CloseSocket, Receive, CompleteRead, CompleteWrite, objectVars
<1>1. \A context \in Context : ~CommitClose(context)
  BY DEF CommitClose, Live
<1>2. isConnected' = isConnected
  BY <1>1
<1>3. closing \subseteq closing'
  BY <1>1 DEF HandshakeSucceeded, MessageRead, Abandoned, Failed, CallClose
<1>. QED  BY <1>2, <1>3 DEF Live

(* One that stays live does not call close().                              *)
LEMMA LiveNoClose ==
  ASSUME Live, Live'
  PROVE  /\ \A context, line : ~CallClose(context, line)
         /\ \A results : ~Failed(results)
BY DEF Live, Failed, CallClose

(* A step takes the head of the strand or nothing, and posts one handler   *)
(* at most; one of a read is posted by open() and by the end of a read.    *)
LEMMA StrandStep ==
  ASSUME TypeInv, Next
  PROVE  \E line \in Seq(SocketTask) :
           /\ \/ line = socketStrand
              \/ /\ SocketStep
                 /\ socketStrand # <<>>
                 /\ line = Tail(socketStrand)
           /\ \/ socketStrand' = line
              \/ \E task \in SocketTask :
                   /\ socketStrand' = Append(line, task)
                   /\ task \in ReadTasks =>
                        \/ HandleConnect
                        \/ \E result \in Result : CompleteRead(result)
<1>1. /\ socketStrand \in Seq(SocketTask)
      /\ writeQueue \in Seq(Outgoing)
  BY DEF TypeInv, DataTypes
<1>. DEFINE rest == Tail(socketStrand)
<1>2. ASSUME NEW op, SocketTurn(op)
      PROVE  rest \in Seq(SocketTask) /\ socketStrand # <<>>
  BY <1>1, <1>2, TurnFacts
<1>. HIDE DEF rest
<1>3. CASE QueueStep
  <2>1. PICK line \in Seq(SocketTask) : Taken(line) /\ Posted(line)
    BY <1>3 DEF QueueStep
  <2>2. ASSUME NEW m \in Outgoing, Send(m, line)
        PROVE  \/ socketStrand' = line
               \/ \E task \in SocketTask :
                    /\ socketStrand' = Append(line, task)
                    /\ task \notin ReadTasks
    <3>1. WriteTask(m) \in SocketTask /\ WriteTask(m) \notin ReadTasks
      BY TaskTypes, TaskNames DEF ReadTasks
    <3>2. socketStrand' = line \/ socketStrand' = Append(line, WriteTask(m))
      BY <1>1, <2>2, SendFacts
    <3>. QED  BY <3>1, <3>2
  <2>3. \A task : Other(task) =>
          /\ task \in SocketTask
          /\ task \in ReadTasks =>
               \/ HandleConnect
               \/ \E result \in Result : CompleteRead(result)
    BY TaskNames DEF Other, ReadTasks
  <2>. QED  BY <2>1, <2>2, <2>3 DEF Taken, Posted
<1>4. CASE AsyncWrite
  <2>1. /\ Completion("handleWrite", "error") \in SocketTask
        /\ Completion("handleWrite", "error") \notin ReadTasks
    BY TaskTypes, TaskNames DEF Result, ReadTasks
  <2>2. rest \in Seq(SocketTask) /\ socketStrand # <<>>
    BY <1>2, <1>4 DEF AsyncWrite
  <2>3. \/ socketStrand' = rest
        \/ socketStrand' = Append(rest, Completion("handleWrite", "error"))
    BY <1>4 DEF AsyncWrite, rest
  <2>. QED  BY <1>4, <2>1, <2>2, <2>3 DEF SocketStep, rest
<1>5. CASE HandleWrite
  <2>1. PICK line \in Seq(SocketTask), queue \in Seq(Outgoing) :
          /\ line = Tail(socketStrand)
          /\ socketStrand' \in {line, WriteNext(queue, line),
                                Append(line, Task("cancel"))}
    BY <1>5, HandleWriteFacts
  <2>2. Task("cancel") \in SocketTask /\ Task("cancel") \notin ReadTasks
    BY TaskTypes, TaskNames DEF ReadTasks
  <2>3. \/ WriteNext(queue, line) = line
        \/ \E task \in SocketTask \ ReadTasks :
             WriteNext(queue, line) = Append(line, task)
    <3>1. queue # <<>> => WriteTask(Head(queue)) \in SocketTask \ ReadTasks
      BY TaskTypes, TaskNames DEF ReadTasks
    <3>. QED  BY <3>1 DEF WriteNext
  <2>4. socketStrand # <<>>
    BY <1>2, <1>5 DEF HandleWrite
  <2>. QED  BY <1>5, <2>1, <2>2, <2>3, <2>4 DEF SocketStep
<1>6. CASE \E result \in Result : CompleteWrite(result)
  <2>1. \A result \in Result :
          Completion("handleWrite", result) \in SocketTask \ ReadTasks
    BY TaskTypes, TaskNames DEF ReadTasks
  <2>. QED  BY <1>1, <1>6, <2>1 DEF CompleteWrite
<1>7. CASE CloseSocket
  BY <1>2, <1>7 DEF CloseSocket, SocketStep, rest
<1>. QED  BY <1>3, <1>4, <1>5, <1>6, <1>7, OnlyQueueSteps DEF WriteStep

(* So a handler waits until it is its turn.                                *)
LEMMA TasksKept ==
  ASSUME TypeInv, Next, NEW tasks, Waits(tasks, socketStrand)
  PROVE  \/ Waits(tasks, socketStrand')
         \/ SocketStep /\ socketStrand # <<>> /\ Head(socketStrand) \in tasks
<1>1. socketStrand \in Seq(SocketTask)
  BY DEF TypeInv, DataTypes
<1>2. PICK line \in Seq(SocketTask) :
        /\ \/ line = socketStrand
           \/ /\ SocketStep
              /\ socketStrand # <<>>
              /\ line = Tail(socketStrand)
        /\ \/ socketStrand' = line
           \/ \E task \in SocketTask : socketStrand' = Append(line, task)
  BY StrandStep
<1>3. \/ Waits(tasks, line)
      \/ SocketStep /\ socketStrand # <<>> /\ Head(socketStrand) \in tasks
  BY <1>1, <1>2, WaitsTail
<1>4. \A task \in SocketTask :
        Waits(tasks, line) => Waits(tasks, Append(line, task))
  BY WaitsAppend
<1>. QED  BY <1>2, <1>3, <1>4

(* Only close() disturbs the operations of the socket, and after it the    *)
(* session is not live.                                                    *)
LEMMA LiveUndisturbed ==
  ASSUME TypeInv, Next, Live, Live', Undisturbed
  PROVE  Undisturbed'
<1>1. /\ socketStrand \in Seq(SocketTask)
      /\ doomed = {}
      /\ ~Waits(Ending, socketStrand)
      /\ socketOpen = TRUE
  BY DEF TypeInv, DataTypes, Undisturbed
<1>2. ~CancelSocket /\ ~CloseSocket
  <2>1. ASSUME NEW op \in {"cancel", "close"}
        PROVE  ~SocketTurn(op)
    BY <1>1, TurnFacts DEF Ending
  <2>. QED  BY <2>1 DEF CancelSocket, CloseSocket
<1>3. socketOpen' = TRUE
  BY <1>1, <1>2 DEF Next, SocketStep, Resolve, HandleResolve, HandleConnect,
     AsyncHandshake, HandleHandshake, HandleRead, AsyncWrite, HandleWrite,
     Receive, CommitClose, CompleteRead, CompleteWrite, socketVars
<1>4. doomed' = {}
  BY <1>1, <1>2 DEF Next, SocketStep, Resolve, HandleResolve, HandleConnect,
     AsyncHandshake, HandleHandshake, HandleRead, AsyncWrite, HandleWrite,
     Receive, CommitClose, CompleteRead, CompleteWrite, socketVars
<1>5. ~Waits(Ending, socketStrand')
  <2>1. /\ \A m \in Outgoing : WriteTask(m) \notin Ending
        /\ Completion("handleWrite", "error") \notin Ending
    BY TaskNames DEF Ending
  <2>2. ASSUME NEW result \in Result, CompleteWrite(result)
        PROVE  Completion("handleWrite", result) \notin Ending
    <3>1. result # "aborted"
      BY <1>1, <2>2 DEF CompleteWrite
    <3>. QED  BY <3>1, TaskNames DEF Ending
  <2>3. isConnected = TRUE /\ isConnected' = TRUE /\ closing' = {}
    BY DEF Live
  <2>4. ASSUME NEW task, Other(task) PROVE task \notin Ending
    <3>1. CASE \E result \in Result :
                 /\ CompleteRead(result)
                 /\ task = Completion(IF reading = "read" THEN "handleRead"
                                      ELSE "handleHandshake", result)
      BY <1>1, <3>1, TaskNames DEF CompleteRead, Ending
    <3>2. CASE task = Task("asyncHandshake")
      BY <3>2, TaskNames DEF Ending
    <3>. QED  BY <2>3, <2>4, <3>1, <3>2 DEF Other
  <2>. QED  BY <1>1, <2>1, <2>2, <2>3, <2>4, NewTasks
<1>. QED  BY <1>3, <1>4, <1>5 DEF Undisturbed

(* Whoever handles the end of a handshake or of a read starts the next     *)
(* read.                                                                   *)
LEMMA LiveListening ==
  ASSUME TypeInv, Next, Live, Live', Undisturbed, Listening
  PROVE  Listening'
<1>1. /\ socketStrand \in Seq(SocketTask)
      /\ reading \in {"none", "handshake", "read"}
  BY DEF TypeInv, DataTypes
<1>2. socketStrand # <<>> => Head(socketStrand) \notin Ending
  BY <1>1, WaitsTail DEF Undisturbed
<1>3. CASE \E result \in Result : CompleteRead(result)
  <2>1. PICK result \in Result, op \in {"handleRead", "handleHandshake"} :
          socketStrand' = Append(socketStrand, Completion(op, result))
    BY <1>3 DEF CompleteRead
  <2>2. /\ Completion(op, result) \in SocketTask
        /\ Completion(op, result) \in ReadTasks
    BY TaskTypes, TaskNames DEF ReadTasks
  <2>3. Waits(ReadTasks, socketStrand')
    BY <1>1, <2>1, <2>2, WaitsAppend
  <2>. QED  BY <2>3 DEF Listening
<1>4. CASE AsyncHandshake \/ HandleHandshake \/ HandleRead
  <2>1. socketStrand # <<>> /\ Head(socketStrand).result # "aborted"
    <3>1. socketStrand # <<>> /\ Head(socketStrand) \in SocketTask
      BY <1>1, <1>4, TailFacts
      DEF AsyncHandshake, HandleHandshake, HandleRead, SocketTurn
    <3>. QED  BY <1>2, <3>1 DEF Ending
  <2>2. reading' \in {"handshake", "read"}
    BY <1>4, <2>1, LiveNoClose
    DEF AsyncHandshake, HandleHandshake, HandleRead, HandshakeSucceeded,
        MessageRead, Abandoned
  <2>. QED  BY <2>2 DEF Listening
<1>5. CASE /\ ~\E result \in Result : CompleteRead(result)
           /\ ~AsyncHandshake /\ ~HandleHandshake /\ ~HandleRead
  <2>1. reading' = reading
    BY <1>5 DEF Next, SocketStep, Resolve, HandleResolve, HandleConnect,
       AsyncWrite, HandleWrite, CancelSocket, CloseSocket, Receive,
       CommitClose, CompleteWrite, socketVars
  <2>2. ~(SocketStep /\ Head(socketStrand) \in ReadTasks)
    BY <1>5 DEF SocketStep, AsyncWrite, HandleWrite, CancelSocket,
       CloseSocket, SocketTurn, ReadTasks
  <2>3. Waits(ReadTasks, socketStrand) => Waits(ReadTasks, socketStrand')
    BY <2>2, TasksKept
  <2>. QED  BY <2>1, <2>3 DEF Listening
<1>. QED  BY <1>3, <1>4, <1>5

(* Whoever empties or fills the queue leaves a write under way if a        *)
(* message waits.                                                          *)
LEMMA LiveAwake ==
  ASSUME TypeInv, WriteInv, Next, Live, Live', Undisturbed, Awake
  PROVE  Awake'
<1>1. /\ socketStrand \in Seq(SocketTask)
      /\ writeQueue \in Seq(Outgoing)
      /\ socketOpen = TRUE
      /\ Consistent(writeQueue, socketStrand, writing)
  BY DEF TypeInv, DataTypes, Undisturbed, WriteInv
<1>2. CASE QueueStep
  <2>1. PICK line \in Seq(SocketTask) : Taken(line) /\ Posted(line)
    BY <1>2 DEF QueueStep
  <2>2. writeQueue # <<>> => writing # NoMessage \/ Waits(WriteTasks, line)
    BY <1>1, <2>1, WaitsTail DEF Taken, Awake
  <2>3. writing' = writing
    BY <1>2 DEF QueueStep
  <2>4. ASSUME NEW m \in Outgoing, Send(m, line)
        PROVE  Awake'
    <3>1. socketStrand' = IF writeQueue = <<>>
                          THEN Append(line, WriteTask(m)) ELSE line
      BY <1>1, <2>4, SendFacts
    <3>2. /\ WriteTask(m) \in SocketTask
          /\ WriteTask(m) \in WriteTasks
      BY TaskTypes, OtherTasks
    <3>3. Waits(WriteTasks, Append(line, WriteTask(m)))
      BY <3>2, WaitsAppend
    <3>. QED  BY <2>2, <2>3, <3>1, <3>3 DEF Awake
  <2>5. ASSUME NEW task, Other(task), socketStrand' = Append(line, task),
               Waits(WriteTasks, line)
        PROVE  Waits(WriteTasks, socketStrand')
    BY <2>5, WaitsAppend DEF Other
  <2>. QED  BY <2>1, <2>2, <2>3, <2>4, <2>5 DEF Posted, Awake
<1>3. CASE AsyncWrite
  <2>1. /\ Head(socketStrand) \in SocketTask
        /\ Head(socketStrand).op = "asyncWrite"
        /\ \A tasks : Head(socketStrand) \in tasks
                      => Waits(tasks, socketStrand)
    BY <1>1, <1>3, TurnFacts DEF AsyncWrite
  <2>2. /\ Waits(WriteTasks, socketStrand)
        /\ Head(socketStrand) \notin StaleWrites(writeQueue)
    BY <1>1, <2>1 DEF Consistent, WriteTasks
  <2>3. writeQueue # <<>> /\ Head(socketStrand).message = Head(writeQueue)
    BY <1>1, <2>1, <2>2 DEF Consistent, StaleWrites
  <2>4. writing' = Head(writeQueue)
    BY <1>1, <1>3, <2>3 DEF AsyncWrite
  <2>5. Head(writeQueue) \in Outgoing
    BY <1>1, <2>3
  <2>. QED  BY <2>4, <2>5, TaskTypes DEF Awake
<1>4. CASE HandleWrite
  <2>1. Head(socketStrand).result # "aborted"
    BY <1>1, <1>4, TurnFacts DEF HandleWrite, Undisturbed, Ending
  <2>2. PICK rest \in Seq(SocketTask), queue \in Seq(Outgoing) :
          /\ writeQueue' = queue
          /\ socketStrand' = WriteNext(queue, rest)
    BY <1>4, <2>1, HandleWriteFacts DEF Live
  <2>3. CASE queue # <<>>
    <3>1. Head(queue) \in Outgoing
      BY <2>3
    <3>2. /\ WriteTask(Head(queue)) \in SocketTask
          /\ WriteTask(Head(queue)) \in WriteTasks
      BY <3>1, TaskTypes, OtherTasks
    <3>3. socketStrand' = Append(rest, WriteTask(Head(queue)))
      BY <2>2, <2>3 DEF WriteNext
    <3>. QED  BY <3>2, <3>3, WaitsAppend DEF Awake
  <2>4. CASE queue = <<>>
    BY <2>2, <2>4 DEF Awake
  <2>. QED  BY <2>3, <2>4
<1>5. CASE \E result \in Result : CompleteWrite(result)
  <2>1. PICK result \in Result : CompleteWrite(result)
    BY <1>5
  <2>2. /\ Completion("handleWrite", result) \in SocketTask
        /\ Completion("handleWrite", result) \in WriteTasks
    BY TaskTypes, OtherTasks
  <2>3. socketStrand' = Append(socketStrand, Completion("handleWrite", result))
    BY <2>1 DEF CompleteWrite
  <2>. QED  BY <1>1, <2>2, <2>3, WaitsAppend DEF Awake
<1>6. ~CloseSocket
  BY <1>1, TurnFacts DEF CloseSocket, Undisturbed, Ending
<1>. QED  BY <1>2, <1>3, <1>4, <1>5, <1>6, OnlyQueueSteps DEF WriteStep

(* LiveInv is inductive.                                                   *)
LEMMA LiveInvInductive ==
  TypeInv /\ StartInv /\ WriteInv /\ LiveInv /\ [Next]_vars => LiveInv'
<1>. SUFFICES ASSUME TypeInv, StartInv, WriteInv, LiveInv, [Next]_vars, Live'
              PROVE  Undisturbed' /\ Listening' /\ Awake'
  BY DEF LiveInv
<1>1. CASE UNCHANGED vars
  BY <1>1 DEF LiveInv, Live, Undisturbed, Listening, Awake, vars, objectVars,
     socketVars
<1>2. CASE HandleConnect
  <2>1. Untouched
    BY <1>2 DEF HandleConnect, StartInv, Starting
  <2>2. /\ socketStrand' = Append(<<>>, Task("asyncHandshake"))
        /\ UNCHANGED <<writeQueue, socketVars>>
    BY <1>2, <2>1 DEF HandleConnect, Open, OpenThrows, Live, Untouched
  <2>3. /\ Task("asyncHandshake") \in SocketTask
        /\ Task("asyncHandshake") \in ReadTasks
        /\ Task("asyncHandshake") \notin Ending
    BY TaskTypes, TaskNames DEF ReadTasks, Ending
  <2>4. Waits(ReadTasks, socketStrand') /\ ~Waits(Ending, socketStrand')
    <3>1. <<>> \in Seq(SocketTask)
      OBVIOUS
    <3>. QED  BY <2>2, <2>3, <3>1, WaitsAppend, NoneWaits
  <2>. QED  BY <2>1, <2>2, <2>4 DEF Untouched, Undisturbed, Listening, Awake,
                                    socketVars
<1>3. CASE Next /\ ~HandleConnect
  <2>1. Live
    BY <1>3, LiveBefore
  <2>2. Undisturbed /\ Listening /\ Awake
    BY <2>1 DEF LiveInv
  <2>. QED  BY <1>3, <2>1, <2>2, LiveUndisturbed, LiveListening, LiveAwake
<1>. QED  BY <1>1, <1>2, <1>3

(* Every reachable state satisfies it.                                     *)
LEMMA LiveInvariant == Spec => []LiveInv
<1>1. Init => LiveInv
  BY DEF Init, LiveInv, Live
<1>. QED  BY <1>1, TypeInvariant, StartInvariant, WriteInvariant,
          LiveInvInductive, PTL DEF Spec

(* A connected session is at work: it listens to the server, and if a      *)
(* message waits in writeQueue_ a write is under way, from the end of      *)
(* open() to the first close().                                            *)
THEOREM ConnectedWorks == Spec => []ConnectedIsBusy
<1>1. TypeInv /\ LiveInv => ConnectedIsBusy
  <2>. SUFFICES ASSUME TypeInv, LiveInv, isConnected, closing = {}
                PROVE  ConnectedIsBusy!2
    BY DEF ConnectedIsBusy
  <2>1. isConnected = TRUE
    BY Zenon DEF TypeInv, FlagTypes
  <2>2. /\ Listening /\ Awake
        /\ socketStrand \in Seq(SocketTask)
    BY <2>1 DEF LiveInv, Live, TypeInv, DataTypes
  <2>3. DOMAIN socketStrand = 1 .. Len(socketStrand)
    BY <2>2
  <2>4. Waits(ReadTasks, socketStrand) =>
          Waiting({"asyncHandshake", "handleHandshake", "handleRead"}) # {}
    BY <2>3 DEF Waits, ReadTasks, Waiting
  <2>5. Waits(WriteTasks, socketStrand) => WriteTurns # {}
    BY <2>3 DEF Waits, WriteTasks, WriteTurns, Waiting
  <2>. QED  BY <2>2, <2>4, <2>5 DEF Listening, Awake
<1>. QED  BY <1>1, TypeInvariant, LiveInvariant, PTL

-----------------------------------------------------------------------------
(* Reads.                                                                  *)

(* One handshake or read at a time, from its start to its handler.         *)
OneRead ==
  /\ AtMostOneWaits(ReadTasks, socketStrand)
  /\ reading # "none" => ~Waits(ReadTasks, socketStrand)

(* Before the session opens nothing is read or written.                    *)
WorkTasks ==
  {task \in SocketTask :
     task.op \in {"asyncWrite", "handleWrite", "handleRead"}}

Idle ==
  /\ readStrand = <<>>
  /\ writeQueue = <<>>
  /\ writing = NoMessage
  /\ reading # "read"
  /\ ~Waits(WorkTasks, socketStrand)

IdleInv == stage # "open" => Idle

(* During the handshake nobody has called close().                         *)
HandshakeTasks ==
  {task \in SocketTask : task.op \in {"asyncHandshake", "handleHandshake"}}

CloseTasks == {task \in SocketTask : task.op = "close"}

Handshaking == reading = "handshake" \/ Waits(HandshakeTasks, socketStrand)

HandshakeInv ==
  Handshaking => /\ stage = "opening"
                 /\ isConnected = TRUE
                 /\ socketOpen = TRUE
                 /\ closing = {}
                 /\ ~Waits(CloseTasks, socketStrand)

(* A handler of a read leaves none behind.                                 *)
LEMMA ReadHandled ==
  ASSUME TypeInv, OneRead, AsyncHandshake \/ HandleHandshake \/ HandleRead
  PROVE  ~Waits(ReadTasks, socketStrand') /\ reading = "none"
<1>1. /\ socketStrand \in Seq(SocketTask)
      /\ writeQueue \in Seq(Outgoing)
      /\ closing \subseteq Context
  BY DEF TypeInv, DataTypes
<1>. DEFINE rest == Tail(socketStrand)
<1>2. /\ socketStrand # <<>>
      /\ rest \in Seq(SocketTask)
      /\ Head(socketStrand) \in ReadTasks
  BY <1>1, TurnFacts DEF AsyncHandshake, HandleHandshake, HandleRead, ReadTasks
<1>3. Waits(ReadTasks, socketStrand) /\ ~Waits(ReadTasks, rest)
  BY <1>1, <1>2, WaitsTail DEF OneRead
<1>4. reading = "none"
  BY <1>3 DEF OneRead
<1>5. \/ socketStrand' = rest
      \/ Send(1, rest)
      \/ \E results : Failed(results)
  BY DEF AsyncHandshake, HandleHandshake, HandleRead, HandshakeSucceeded,
     OpenedHandle, MessageRead, Abandoned
<1>. HIDE DEF rest
<1>6. Send(1, rest) => ~Waits(ReadTasks, socketStrand')
  <2>1. \A m \in Outgoing : WriteTask(m) \notin ReadTasks
    BY TaskNames DEF ReadTasks
  <2>. QED  BY <1>1, <1>2, <1>3, <2>1, SendFacts, TaskTypes
<1>7. ASSUME NEW results, Failed(results)
      PROVE  ~Waits(ReadTasks, socketStrand')
  <2>1. Task("cancel") \notin ReadTasks
    BY TaskNames DEF ReadTasks
  <2>2. CallClose("socket", rest)
    BY <1>7 DEF Failed, rest
  <2>. QED  BY <1>1, <1>2, <1>3, <2>1, <2>2, CallCloseFacts DEF Context
<1>. QED  BY <1>3, <1>4, <1>5, <1>6, <1>7

(* OneRead is inductive.                                                   *)
LEMMA OneReadInductive ==
  TypeInv /\ StartInv /\ OneRead /\ [Next]_vars => OneRead'
<1>. SUFFICES ASSUME TypeInv, StartInv, OneRead, [Next]_vars PROVE OneRead'
  OBVIOUS
<1>1. socketStrand \in Seq(SocketTask)
  BY DEF TypeInv, DataTypes
<1>2. CASE UNCHANGED vars
  BY <1>2 DEF OneRead, vars, socketVars
<1>3. CASE HandleConnect
  <2>1. Untouched
    BY <1>3 DEF HandleConnect, StartInv, Starting
  <2>2. \/ socketStrand' = <<>>
        \/ socketStrand' = Append(<<>>, Task("asyncHandshake"))
    BY <1>3, <2>1 DEF HandleConnect, Open, OpenThrows, Untouched
  <2>3. AtMostOneWaits(ReadTasks, <<>>) /\ ~Waits(ReadTasks, <<>>)
    BY NoneWaits
  <2>4. <<>> \in Seq(SocketTask) /\ Task("asyncHandshake") \in SocketTask
    BY TaskTypes
  <2>5. AtMostOneWaits(ReadTasks, Append(<<>>, Task("asyncHandshake")))
    BY <2>3, <2>4, WaitsAppend
  <2>6. reading' = "none"
    BY <1>3, <2>1 DEF HandleConnect, Untouched, socketVars
  <2>. QED  BY <2>2, <2>3, <2>5, <2>6 DEF OneRead
<1>4. CASE AsyncHandshake \/ HandleHandshake \/ HandleRead
  BY <1>4, ReadHandled, NoneWaits DEF OneRead
<1>5. CASE \E result \in Result : CompleteRead(result)
  <2>1. PICK result \in Result, op \in {"handleRead", "handleHandshake"} :
          /\ socketStrand' = Append(socketStrand, Completion(op, result))
          /\ reading # "none"
          /\ reading' = "none"
    BY <1>5 DEF CompleteRead
  <2>2. Completion(op, result) \in SocketTask
    BY TaskTypes
  <2>3. AtMostOneWaits(ReadTasks, socketStrand')
    BY <1>1, <2>1, <2>2, WaitsAppend DEF OneRead
  <2>. QED  BY <2>1, <2>3 DEF OneRead
<1>6. CASE /\ Next
           /\ ~HandleConnect
           /\ ~\E result \in Result : CompleteRead(result)
           /\ ~AsyncHandshake /\ ~HandleHandshake /\ ~HandleRead
  <2>1. reading' = reading
    BY <1>6 DEF Next, SocketStep, Resolve, HandleResolve,
       AsyncWrite, HandleWrite, CancelSocket, CloseSocket, Receive,
       CommitClose, CompleteWrite, socketVars
  <2>2. PICK line \in Seq(SocketTask) :
          /\ \/ line = socketStrand
             \/ socketStrand # <<>> /\ line = Tail(socketStrand)
          /\ \/ socketStrand' = line
             \/ \E task \in SocketTask :
                  /\ socketStrand' = Append(line, task)
                  /\ task \notin ReadTasks
    BY <1>6, StrandStep
  <2>3. /\ AtMostOneWaits(ReadTasks, line)
        /\ Waits(ReadTasks, line) => Waits(ReadTasks, socketStrand)
    BY <1>1, <2>2, WaitsTail DEF OneRead
  <2>4. \A task \in SocketTask : task \notin ReadTasks =>
          /\ AtMostOneWaits(ReadTasks, Append(line, task))
          /\ Waits(ReadTasks, Append(line, task)) => Waits(ReadTasks, line)
    BY <2>3, WaitsAppend
  <2>. QED  BY <2>1, <2>2, <2>3, <2>4 DEF OneRead
<1>. QED  BY <1>2, <1>3, <1>4, <1>5, <1>6

(* IdleInv is inductive.                                                   *)
LEMMA IdleInvInductive ==
  TypeInv /\ IdleInv /\ [Next]_vars => IdleInv'
<1>. SUFFICES ASSUME TypeInv, IdleInv, [Next]_vars, (stage # "open")'
              PROVE  Idle'
  BY DEF IdleInv
<1>1. socketStrand \in Seq(SocketTask)
  BY DEF TypeInv, DataTypes
<1>2. CASE UNCHANGED vars
  BY <1>2 DEF IdleInv, Idle, vars, objectVars, socketVars
<1>3. CASE Next
  <2>1. stage # "open"
    BY <1>3 DEF Next, SocketStep, Resolve, HandleResolve, HandleConnect, Open,
       OpenThrows, AsyncHandshake, HandleHandshake, HandshakeSucceeded,
       HandleRead, MessageRead, Abandoned, Failed, AsyncWrite, HandleWrite,
       CancelSocket, CloseSocket, Receive, CommitClose, CompleteRead,
       CompleteWrite, objectVars
  <2>2. Idle
    BY <2>1 DEF IdleInv
  <2>3. ASSUME NEW op \in {"asyncWrite", "handleWrite", "handleRead"}
        PROVE  ~SocketTurn(op)
    BY <1>1, <2>2, TurnFacts DEF Idle, WorkTasks
  <2>4. /\ ~AsyncWrite /\ ~HandleWrite /\ ~HandleRead /\ ~Receive
        /\ \A result \in Result : ~CompleteWrite(result)
    BY <2>2, <2>3 DEF AsyncWrite, HandleWrite, HandleRead, Receive,
       CompleteWrite, Idle
  <2>5. ~(HandleHandshake /\ HandshakeSucceeded)
    BY DEF HandshakeSucceeded
  <2>6. /\ readStrand' = readStrand
        /\ writing' = writing
        /\ writeQueue' \in {writeQueue, <<>>}
        /\ reading' # "read"
    BY <1>3, <2>2, <2>4, <2>5 DEF Next, SocketStep, Resolve, HandleResolve,
       HandleConnect, AsyncHandshake, HandleHandshake, Abandoned, Failed,
       CancelSocket, CloseSocket, CommitClose, CompleteRead, objectVars,
       socketVars, Idle
  <2>7. QueueStep \/ CloseSocket
    BY <1>3, <2>4, OnlyQueueSteps DEF WriteStep
  <2>8. CASE CloseSocket
    BY <1>1, <2>2, <2>8, TurnFacts DEF CloseSocket, Idle
  <2>9. CASE QueueStep /\ ~CloseSocket
    <3>1. PICK line \in Seq(SocketTask) : Taken(line) /\ Posted(line)
      BY <2>9 DEF QueueStep
    <3>2. ~Waits(WorkTasks, line)
      BY <1>1, <2>2, <3>1, WaitsTail DEF Taken, Idle
    <3>3. \A m : ~Send(m, line)
      <4>1. writeQueue' = <<>>
        BY <2>2, <2>6 DEF Idle
      <4>. QED  BY <4>1, <2>2 DEF Send, Idle
    <3>4. ASSUME NEW task, Other(task) PROVE task \notin WorkTasks
      BY <2>2, <3>4, TaskNames DEF Other, WorkTasks, Idle
    <3>5. ASSUME NEW task, Other(task), socketStrand' = Append(line, task)
          PROVE  ~Waits(WorkTasks, socketStrand')
      BY <3>2, <3>4, <3>5, WaitsAppend DEF Other
    <3>6. ~Waits(WorkTasks, socketStrand')
      BY <3>1, <3>2, <3>3, <3>5 DEF Posted
    <3>. QED  BY <2>2, <2>6, <3>6 DEF Idle
  <2>10. ~Waits(WorkTasks, socketStrand')
    BY <2>7, <2>8, <2>9 DEF Idle
  <2>. QED  BY <2>2, <2>6, <2>10 DEF Idle
<1>. QED  BY <1>2, <1>3

(* HandshakeInv is inductive.                                              *)
LEMMA HandshakeInvInductive ==
  TypeInv /\ StartInv /\ OneRead /\ IdleInv /\ HandshakeInv /\ [Next]_vars
  => HandshakeInv'
<1>. SUFFICES ASSUME TypeInv, StartInv, OneRead, IdleInv, HandshakeInv,
                     [Next]_vars, Handshaking'
              PROVE  /\ stage' = "opening"
                     /\ isConnected' = TRUE
                     /\ socketOpen' = TRUE
                     /\ closing' = {}
                     /\ ~Waits(CloseTasks, socketStrand')
  BY DEF HandshakeInv
<1>1. /\ socketStrand \in Seq(SocketTask)
      /\ reading \in {"none", "handshake", "read"}
  BY DEF TypeInv, DataTypes
<1>2. CASE UNCHANGED vars
  BY <1>2 DEF HandshakeInv, Handshaking, vars, objectVars, socketVars
<1>3. CASE HandleConnect
  <2>1. Untouched
    BY <1>3 DEF HandleConnect, StartInv, Starting
  <2>2. \/ UNCHANGED <<isConnected, socketStrand>>
        \/ stage' = "opening" /\ isConnected' = TRUE
           /\ socketStrand' = Append(<<>>, Task("asyncHandshake"))
    BY <1>3, <2>1 DEF HandleConnect, Open, OpenThrows, Untouched
  <2>3. reading' = "none" /\ socketOpen' = TRUE /\ closing' = {}
    BY <1>3, <2>1 DEF HandleConnect, Untouched, socketVars
  <2>4. socketStrand' # <<>>
    BY <2>3, NoneWaits DEF Handshaking
  <2>5. /\ stage' = "opening" /\ isConnected' = TRUE
        /\ socketStrand' = Append(<<>>, Task("asyncHandshake"))
    BY <2>1, <2>2, <2>4 DEF Untouched
  <2>6. ~Waits(CloseTasks, Append(<<>>, Task("asyncHandshake")))
    <3>1. /\ Task("asyncHandshake") \in SocketTask
          /\ Task("asyncHandshake") \notin CloseTasks
          /\ <<>> \in Seq(SocketTask)
      BY TaskTypes, TaskNames DEF CloseTasks
    <3>. QED  BY <3>1, WaitsAppend, NoneWaits
  <2>. QED  BY <2>3, <2>5, <2>6
<1>4. CASE Next /\ ~HandleConnect
  <2>1. ~HandleHandshake /\ ~HandleRead
    <3>. SUFFICES ASSUME HandleHandshake \/ HandleRead PROVE FALSE
      OBVIOUS
    <3>1. ~Waits(ReadTasks, socketStrand') /\ reading = "none"
      BY ReadHandled
    <3>2. Waits(HandshakeTasks, socketStrand')
          => Waits(ReadTasks, socketStrand')
      BY DEF Waits, HandshakeTasks, ReadTasks
    <3>3. reading' # "handshake"
      BY <3>1 DEF HandleHandshake, HandleRead, HandshakeSucceeded,
         MessageRead, Abandoned, Failed
    <3>. QED  BY <3>1, <3>2, <3>3 DEF Handshaking
  <2>2. Handshaking
    <3>1. CASE reading' = "handshake"
      <4>1. reading = "handshake" \/ AsyncHandshake
        BY <1>4, <2>1, <3>1 DEF Next, SocketStep, Resolve, HandleResolve,
           AsyncWrite, HandleWrite, CancelSocket, CloseSocket, Receive,
           CommitClose, CompleteRead, CompleteWrite, socketVars
      <4>2. AsyncHandshake => Waits(HandshakeTasks, socketStrand)
        BY <1>1, TurnFacts DEF AsyncHandshake, HandshakeTasks
      <4>. QED  BY <4>1, <4>2 DEF Handshaking
    <3>2. CASE Waits(HandshakeTasks, socketStrand')
      <4>1. /\ \A m \in Outgoing : WriteTask(m) \notin HandshakeTasks
            /\ \A result : Completion("handleWrite", result)
                             \notin HandshakeTasks
            /\ Task("cancel") \notin HandshakeTasks
        BY TaskNames DEF HandshakeTasks
      <4>2. ASSUME NEW task \in HandshakeTasks, Other(task)
            PROVE  reading = "handshake"
        <5>1. task.op \in {"asyncHandshake", "handleHandshake"}
          BY DEF HandshakeTasks
        <5>2. PICK result \in Result :
                /\ CompleteRead(result)
                /\ task = Completion(IF reading = "read" THEN "handleRead"
                                     ELSE "handleHandshake", result)
          BY <1>4, <4>2, <5>1, TaskNames DEF Other
        <5>3. reading # "read"
          BY <5>1, <5>2, TaskNames
        <5>. QED  BY <1>1, <5>2, <5>3 DEF CompleteRead
      <4>. QED  BY <1>4, <3>2, <4>1, <4>2, NewTasks DEF Handshaking
    <3>. QED  BY <3>1, <3>2 DEF Handshaking
  <2>3. /\ stage = "opening"
        /\ isConnected = TRUE
        /\ socketOpen = TRUE
        /\ closing = {}
        /\ ~Waits(CloseTasks, socketStrand)
        /\ Idle
    BY <2>2 DEF HandshakeInv, IdleInv
  <2>4. ASSUME NEW op \in {"asyncWrite", "handleWrite", "handleRead", "close"}
        PROVE  ~SocketTurn(op)
    BY <1>1, <2>3, TurnFacts DEF Idle, WorkTasks, CloseTasks
  <2>5. /\ ~AsyncWrite /\ ~HandleWrite /\ ~CloseSocket /\ ~Receive
        /\ \A context : ~CommitClose(context)
        /\ \A result \in Result : ~CompleteWrite(result)
    BY <2>3, <2>4 DEF AsyncWrite, HandleWrite, CloseSocket, Receive,
       CommitClose, CompleteWrite, Idle
  <2>6. /\ stage' = "opening"
        /\ socketOpen' = TRUE
        /\ closing' = {}
        /\ isConnected' = isConnected
    BY <1>4, <2>1, <2>3, <2>5 DEF Next, SocketStep, Resolve, HandleResolve,
       AsyncHandshake, CancelSocket, CompleteRead, objectVars, socketVars
  <2>7. ~Waits(CloseTasks, socketStrand')
    <3>1. QueueStep
      BY <1>4, <2>5, OnlyQueueSteps DEF WriteStep
    <3>2. /\ \A m \in Outgoing : WriteTask(m) \notin CloseTasks
          /\ \A result : Completion("handleWrite", result) \notin CloseTasks
          /\ Task("cancel") \notin CloseTasks
      BY TaskNames DEF CloseTasks
    <3>3. \/ AsyncHandshake
          \/ CancelSocket
          \/ Resolve \/ HandleResolve
          \/ \E result \in Result : CompleteRead(result)
      BY <1>4, <2>1, <2>5 DEF Next, SocketStep
    <3>4. CASE AsyncHandshake \/ CancelSocket
      BY <1>1, <2>3, <3>4, TurnFacts DEF AsyncHandshake, CancelSocket
    <3>5. CASE Resolve \/ HandleResolve
      BY <2>3, <3>5 DEF Resolve, HandleResolve
    <3>6. CASE \E result \in Result : CompleteRead(result)
      <4>1. PICK result \in Result, op \in {"handleRead", "handleHandshake"} :
              socketStrand' = Append(socketStrand, Completion(op, result))
        BY <3>6 DEF CompleteRead
      <4>2. /\ Completion(op, result) \in SocketTask
            /\ Completion(op, result) \notin CloseTasks
        BY TaskTypes, TaskNames DEF CloseTasks
      <4>. QED  BY <1>1, <2>3, <4>1, <4>2, WaitsAppend
    <3>. QED  BY <3>3, <3>4, <3>5, <3>6
  <2>. QED  BY <2>3, <2>6, <2>7
<1>. QED  BY <1>2, <1>3, <1>4

(* Messages wait for receiveHandler_ in the order they were read.          *)
OrderInv ==
  /\ \A i, j \in 1 .. Len(readStrand) : i < j => readStrand[i] < readStrand[j]
  /\ \A i \in 1 .. Len(readStrand) :
       delivered < readStrand[i] /\ readStrand[i] <= received
  /\ delivered <= received
  /\ Waits(MessageReads, socketStrand) =>
       /\ delivered < received
       /\ \A i \in 1 .. Len(readStrand) : readStrand[i] < received

(* A message to be handled is one that was just read or was there before.  *)
LEMMA NewMessageReads ==
  ASSUME TypeInv, Next, Waits(MessageReads, socketStrand'),
         ~Waits(MessageReads, socketStrand)
  PROVE  received' = received + 1
<1>1. /\ \A m \in Outgoing : WriteTask(m) \notin MessageReads
      /\ \A result : Completion("handleWrite", result) \notin MessageReads
      /\ Task("cancel") \notin MessageReads
  BY TaskNames DEF MessageReads
<1>2. PICK task \in MessageReads : Other(task)
  BY <1>1, NewTasks
<1>3. task.op = "handleRead" /\ task.result = "ok"
  BY DEF MessageReads
<1>4. PICK result \in Result :
        /\ CompleteRead(result)
        /\ task = Completion(IF reading = "read" THEN "handleRead"
                             ELSE "handleHandshake", result)
  BY <1>2, <1>3, TaskNames DEF Other
<1>5. reading = "read" /\ result = "ok"
  BY <1>3, <1>4, TaskNames
<1>. QED  BY <1>4, <1>5 DEF CompleteRead

(* OrderInv is inductive.                                                  *)
LEMMA OrderInvInductive ==
  TypeInv /\ OneRead /\ OrderInv /\ [Next]_vars => OrderInv'
<1>. SUFFICES ASSUME TypeInv, OneRead, OrderInv, [Next]_vars PROVE OrderInv'
  OBVIOUS
<1>1. /\ readStrand \in Seq(1 .. MaxReads)
      /\ socketStrand \in Seq(SocketTask)
      /\ delivered \in Nat
      /\ received \in Nat
      /\ Len(readStrand) \in Nat
      /\ \A i \in 1 .. Len(readStrand) : readStrand[i] \in Nat
  <2>1. /\ readStrand \in Seq(1 .. MaxReads)
        /\ socketStrand \in Seq(SocketTask)
        /\ delivered \in 0 .. MaxReads
        /\ received \in 0 .. MaxReads
    BY DEF TypeInv, DataTypes
  <2>2. /\ Len(readStrand) \in Nat
        /\ \A i \in 1 .. Len(readStrand) : readStrand[i] \in 1 .. MaxReads
    BY <2>1, ElementFacts
  <2>. QED  BY <2>1, <2>2
<1>2. CASE UNCHANGED vars
  BY <1>2 DEF OrderInv, vars, historyVars
<1>3. CASE Next /\ MessageRead /\ HandleRead
  <2>1. /\ Head(socketStrand) \in MessageReads
        /\ Waits(MessageReads, socketStrand)
    BY <1>1, <1>3, TurnFacts DEF HandleRead, MessageRead, MessageReads
  <2>2. ~Waits(MessageReads, socketStrand')
    <3>1. Waits(MessageReads, socketStrand') => Waits(ReadTasks, socketStrand')
      BY DEF Waits, MessageReads, ReadTasks
    <3>. QED  BY <1>3, <3>1, ReadHandled
  <2>3. /\ readStrand' \in {readStrand, Append(readStrand, received)}
        /\ received' = received
        /\ delivered' = delivered
    BY <1>3 DEF HandleRead, MessageRead, historyVars
  <2>4. /\ delivered < received
        /\ \A i \in 1 .. Len(readStrand) : readStrand[i] < received
    BY <2>1 DEF OrderInv
  <2>5. CASE readStrand' = readStrand
    BY <2>2, <2>3, <2>5 DEF OrderInv
  <2>6. CASE readStrand' = Append(readStrand, received)
    <3>1. received \in 1 .. MaxReads
      BY <2>1 DEF TypeInv, DataTypes, MessageWasRead
    <3>2. /\ Len(readStrand') = Len(readStrand) + 1
          /\ \A i \in 1 .. Len(readStrand) : readStrand'[i] = readStrand[i]
          /\ readStrand'[Len(readStrand) + 1] = received
      BY <1>1, <2>6, <3>1, AppendFacts
    <3>3. \A i \in 1 .. Len(readStrand') :
            i \in 1 .. Len(readStrand) \/ i = Len(readStrand) + 1
      BY <1>1, <3>2
    <3>4. \A i, j \in 1 .. Len(readStrand') :
            i < j => readStrand'[i] < readStrand'[j]
      BY <1>1, <2>4, <3>2, <3>3 DEF OrderInv
    <3>5. \A i \in 1 .. Len(readStrand') :
            delivered < readStrand'[i] /\ readStrand'[i] <= received
      BY <1>1, <2>4, <3>2, <3>3 DEF OrderInv
    <3>. QED  BY <2>2, <2>3, <2>4, <3>4, <3>5 DEF OrderInv
  <2>. QED  BY <2>3, <2>5, <2>6
<1>4. CASE Receive
  <2>1. /\ readStrand # <<>>
        /\ readStrand' = Tail(readStrand)
        /\ delivered' = Head(readStrand)
        /\ received' = received
    BY <1>4 DEF Receive
  <2>2. /\ Len(readStrand') = Len(readStrand) - 1
        /\ \A i \in 1 .. Len(readStrand') : readStrand'[i] = readStrand[i + 1]
        /\ delivered' = readStrand[1]
        /\ Len(readStrand) > 0
    BY <1>1, <2>1, TailFacts
  <2>3. \A i \in 1 .. Len(readStrand') : i + 1 \in 1 .. Len(readStrand)
    BY <1>1, <2>2
  <2>4. Waits(MessageReads, socketStrand') => Waits(MessageReads, socketStrand)
    BY <1>1, <1>4, <2>1, NewMessageReads DEF Next
  <2>5. \A i, j \in 1 .. Len(readStrand') :
          i < j => readStrand'[i] < readStrand'[j]
    <3>. TAKE i, j \in 1 .. Len(readStrand')
    <3>1. i < j => i + 1 < j + 1
      BY <1>1, <2>2
    <3>. QED  BY <2>2, <2>3, <3>1 DEF OrderInv
  <2>6. 1 \in 1 .. Len(readStrand)
    BY <1>1, <2>2
  <2>7. \A i \in 1 .. Len(readStrand') :
          delivered' < readStrand'[i] /\ readStrand'[i] <= received
    <3>. TAKE i \in 1 .. Len(readStrand')
    <3>1. 1 < i + 1 /\ readStrand'[i] = readStrand[i + 1]
      BY <1>1, <2>2
    <3>. QED  BY <1>1, <2>2, <2>3, <2>6, <3>1 DEF OrderInv
  <2>8. delivered' <= received
    BY <2>2, <2>6 DEF OrderInv
  <2>9. Waits(MessageReads, socketStrand) =>
          /\ delivered' < received
          /\ \A i \in 1 .. Len(readStrand') : readStrand'[i] < received
    BY <2>2, <2>3, <2>6 DEF OrderInv
  <2>. QED  BY <2>1, <2>4, <2>5, <2>7, <2>8, <2>9 DEF OrderInv
<1>5. CASE Next /\ ~(MessageRead /\ HandleRead) /\ ~Receive
  <2>1. readStrand' = readStrand /\ delivered' = delivered
    BY <1>5 DEF Next, SocketStep, Resolve, HandleResolve, HandleConnect,
       AsyncHandshake, HandleHandshake, HandshakeSucceeded, HandleRead,
       Abandoned, Failed, AsyncWrite, HandleWrite, CancelSocket, CloseSocket,
       CommitClose, CompleteRead, CompleteWrite, historyVars
  <2>2. received' \in Nat /\ received' >= received
    <3>1. received' \in 0 .. MaxReads /\ received' >= received
      BY <1>5, ReadTypes
    <3>. QED  BY <3>1
  <2>3. Waits(MessageReads, socketStrand') =>
          \/ Waits(MessageReads, socketStrand)
          \/ received' = received + 1
    BY <1>5, NewMessageReads
  <2>4. /\ \A i \in 1 .. Len(readStrand) :
             delivered < readStrand[i] /\ readStrand[i] <= received'
        /\ delivered <= received'
    BY <1>1, <2>2 DEF OrderInv
  <2>5. Waits(MessageReads, socketStrand') =>
          /\ delivered < received'
          /\ \A i \in 1 .. Len(readStrand) : readStrand[i] < received'
    <3>1. CASE Waits(MessageReads, socketStrand)
      BY <1>1, <2>2, <3>1 DEF OrderInv
    <3>2. CASE received' = received + 1
      BY <1>1, <3>2 DEF OrderInv
    <3>. QED  BY <2>3, <3>1, <3>2
  <2>. QED  BY <2>1, <2>4, <2>5 DEF OrderInv
<1>. QED  BY <1>2, <1>3, <1>4, <1>5

(* Every reachable state satisfies them.                                   *)
LEMMA ReadInvariant ==
  Spec => [](OneRead /\ IdleInv /\ HandshakeInv /\ OrderInv)
<1>1. Init => OneRead /\ IdleInv /\ HandshakeInv /\ OrderInv
  BY NoneWaits DEF Init, OneRead, IdleInv, Idle, HandshakeInv, Handshaking,
     OrderInv
<1>. QED  BY <1>1, TypeInvariant, StartInvariant, OneReadInductive,
          IdleInvInductive, HandshakeInvInductive, OrderInvInductive,
          PTL DEF Spec

-----------------------------------------------------------------------------
(* Refinement of SessionPromise.                                           *)

EndTasks == {task \in SocketTask : task.op = "handleWrite"}

(* The outbox while the socket is open, and from then on.                  *)
Unsent(q, line) == IF Waits(EndTasks, line) THEN Dequeue(q) ELSE q

InFlight(w) == IF w # NoMessage THEN <<w>> ELSE <<>>

Box(q, line, w) ==
  InFlight(w) \o
    (IF w # NoMessage \/ Waits(EndTasks, line) THEN Dequeue(q) ELSE q)

(* While the socket is open, the message being written is the front of the *)
(* queue, and so the outbox is the queue, or what handleWrite() will leave *)
(* of it.                                                                  *)
LEMMA OpenBox ==
  ASSUME NEW q \in Seq(Outgoing), NEW line, NEW w \in Outgoing \cup {NoMessage},
         Consistent(q, line, w)
  PROVE  Box(q, line, w) = Unsent(q, line)
<1>1. Waits(EndTasks, line) => Waits(WriteTasks, line)
  BY DEF Waits, EndTasks, WriteTasks
<1>2. Dequeue(q) \in Seq(Outgoing)
  BY DEF Dequeue
<1>3. CASE w = NoMessage
  <2>1. \A s \in Seq(Outgoing) : <<>> \o s = s
    BY ConcatEmptySeq
  <2>. QED  BY <1>2, <1>3, <2>1 DEF Box, Unsent, InFlight
<1>4. CASE w # NoMessage
  <2>1. ~Waits(EndTasks, line) /\ q # <<>> /\ Head(q) = w
    BY <1>1, <1>4 DEF Consistent
  <2>2. <<w>> \o Tail(q) = q
    BY <2>1
  <2>. QED  BY <1>4, <2>1, <2>2 DEF Box, Unsent, InFlight, Dequeue
<1>. QED  BY <1>3, <1>4

(* What the outbox is before and after a step.                             *)
LEMMA OutboxFacts ==
  ASSUME TypeInv, WriteInv, TypeInv', WriteInv'
  PROVE  /\ socketOpen = TRUE => Outbox = Unsent(writeQueue, socketStrand)
         /\ socketOpen # TRUE => Outbox = InFlight(writing)
         /\ socketOpen' = TRUE => Outbox' = Unsent(writeQueue', socketStrand')
         /\ socketOpen' # TRUE => Outbox' = InFlight(writing')
<1>1. \A line \in Seq(SocketTask) :
        Waits(EndTasks, line)
        <=> {i \in DOMAIN line : line[i].op \in {"handleWrite"}} # {}
  <2>. SUFFICES ASSUME NEW line \in Seq(SocketTask)
                PROVE  Waits(EndTasks, line) <=>
                    {i \in DOMAIN line : line[i].op \in {"handleWrite"}} # {}
    OBVIOUS
  <2>1. /\ DOMAIN line = 1 .. Len(line)
        /\ \A i \in 1 .. Len(line) : line[i] \in SocketTask
    BY ElementFacts
  <2>. QED  BY <2>1 DEF Waits, EndTasks
<1>2. \A w \in Outgoing \cup {NoMessage} : InFlight(w) \in Seq(Outgoing)
  BY DEF InFlight
<1>3. /\ writeQueue \in Seq(Outgoing)
      /\ socketStrand \in Seq(SocketTask)
      /\ writing \in Outgoing \cup {NoMessage}
  BY DEF TypeInv, DataTypes
<1>4. /\ writeQueue' \in Seq(Outgoing)
      /\ socketStrand' \in Seq(SocketTask)
      /\ writing' \in Outgoing \cup {NoMessage}
  BY DEF TypeInv, DataTypes
<1>5. Outbox = IF ~socketOpen THEN InFlight(writing) \o <<>>
               ELSE Box(writeQueue, socketStrand, writing)
  BY <1>1, <1>3 DEF Outbox, Box, InFlight, Waiting
<1>6. Outbox' = IF ~socketOpen' THEN InFlight(writing') \o <<>>
                ELSE Box(writeQueue', socketStrand', writing')
  BY <1>1, <1>4 DEF Outbox, Box, InFlight, Waiting
<1>7. socketOpen \in BOOLEAN /\ socketOpen' \in BOOLEAN
  BY Zenon DEF TypeInv, FlagTypes
<1>8. socketOpen = TRUE => Outbox = Unsent(writeQueue, socketStrand)
  BY <1>3, <1>5, OpenBox DEF WriteInv
<1>9. socketOpen # TRUE => Outbox = InFlight(writing)
  BY <1>2, <1>3, <1>5, <1>7, ConcatEmptySeq
<1>10. socketOpen' = TRUE => Outbox' = Unsent(writeQueue', socketStrand')
  BY <1>4, <1>6, OpenBox DEF WriteInv
<1>11. socketOpen' # TRUE => Outbox' = InFlight(writing')
  BY <1>2, <1>4, <1>6, <1>7, ConcatEmptySeq
<1>. QED  BY <1>8, <1>9, <1>10, <1>11

(* send() appends to the outbox, unless the socket is closed.              *)
LEMMA SendOutbox ==
  ASSUME TypeInv, WriteInv, TypeInv', WriteInv',
         NEW line \in Seq(SocketTask), Taken(line),
         NEW m \in Outgoing, Send(m, line),
         writing' = writing, socketOpen' = socketOpen
  PROVE  /\ socketOpen = TRUE => Outbox' = Append(Outbox, m)
         /\ socketOpen # TRUE => Outbox' = Outbox
<1>1. /\ writeQueue \in Seq(Outgoing)
      /\ socketStrand \in Seq(SocketTask)
  BY DEF TypeInv, DataTypes
<1>2. EndTasks \subseteq WriteTasks
  BY DEF EndTasks, WriteTasks
<1>3. Waits(EndTasks, line) <=> Waits(EndTasks, socketStrand)
  BY <1>1, <1>2, WaitsTail DEF Taken
<1>4. \A n \in Outgoing : WriteTask(n) \notin EndTasks
  BY TaskNames DEF EndTasks
<1>5. Waits(EndTasks, socketStrand') <=> Waits(EndTasks, socketStrand)
  BY <1>1, <1>3, <1>4, SendFacts
<1>6. writeQueue' = Append(writeQueue, m)
  BY DEF Send
<1>7. ASSUME socketOpen = TRUE, Waits(EndTasks, socketStrand)
      PROVE  Dequeue(Append(writeQueue, m)) = Append(Dequeue(writeQueue), m)
  <2>1. writeQueue # <<>>
    <3>1. Waits(WriteTasks, socketStrand)
      BY <1>2, <1>7 DEF Waits
    <3>. QED  BY <1>7, <3>1 DEF WriteInv, Consistent
  <2>2. Append(writeQueue, m) # <<>>
    BY <1>1
  <2>3. Tail(Append(writeQueue, m)) = Append(Tail(writeQueue), m)
    BY <1>1, <2>1
  <2>. QED  BY <2>1, <2>2, <2>3 DEF Dequeue
<1>8. socketOpen = TRUE =>
        Unsent(writeQueue', socketStrand')
          = Append(Unsent(writeQueue, socketStrand), m)
  BY <1>5, <1>6, <1>7 DEF Unsent
<1>. QED  BY <1>8, OutboxFacts

(* Steps that neither call send() nor end a write leave it alone.          *)
LEMMA QuietOutbox ==
  ASSUME TypeInv, WriteInv, TypeInv', WriteInv',
         QueueStep, writeQueue' = writeQueue
  PROVE  Outbox' = Outbox
<1>1. /\ writeQueue \in Seq(Outgoing)
      /\ socketStrand \in Seq(SocketTask)
  BY DEF TypeInv, DataTypes
<1>2. EndTasks \subseteq WriteTasks
  BY DEF EndTasks, WriteTasks
<1>3. PICK line \in Seq(SocketTask) : Taken(line) /\ Posted(line)
  BY DEF QueueStep
<1>4. Waits(EndTasks, line) <=> Waits(EndTasks, socketStrand)
  BY <1>1, <1>2, <1>3, WaitsTail DEF Taken
<1>5. \A m : ~Send(m, line)
  BY <1>1 DEF Send
<1>6. ASSUME NEW task, Other(task), socketStrand' = Append(line, task)
      PROVE  Waits(EndTasks, socketStrand') <=> Waits(EndTasks, line)
  <2>1. task \in SocketTask /\ task \notin EndTasks
    BY <1>2, <1>6 DEF Other
  <2>. QED  BY <1>6, <2>1, WaitsAppend
<1>7. Waits(EndTasks, socketStrand') <=> Waits(EndTasks, socketStrand)
  BY <1>3, <1>4, <1>5, <1>6 DEF Posted
<1>8. writing' = writing /\ socketOpen' = socketOpen
  BY DEF QueueStep
<1>9. Unsent(writeQueue', socketStrand') = Unsent(writeQueue, socketStrand)
  BY <1>7 DEF Unsent
<1>10. CASE socketOpen = TRUE
  BY <1>8, <1>9, <1>10, OutboxFacts
<1>11. CASE socketOpen # TRUE
  BY <1>8, <1>11, OutboxFacts
<1>. QED  BY <1>10, <1>11

(* The handlers of a write, too: the message is in the outbox until the    *)
(* write has ended.                                                        *)
LEMMA WriteOutbox ==
  ASSUME TypeInv, WriteInv, TypeInv', WriteInv', AsyncWrite \/ HandleWrite
  PROVE  Outbox' = Outbox
<1>1. /\ writeQueue \in Seq(Outgoing)
      /\ socketStrand \in Seq(SocketTask)
      /\ socketStrand # <<>>
      /\ Tail(socketStrand) \in Seq(SocketTask)
      /\ Head(socketStrand) \in WriteTasks
  BY TurnFacts DEF TypeInv, DataTypes, AsyncWrite, HandleWrite, WriteTasks
<1>2. EndTasks \subseteq WriteTasks
  BY DEF EndTasks, WriteTasks
<1>3. socketOpen = TRUE => /\ ~Waits(WriteTasks, Tail(socketStrand))
                           /\ writing = NoMessage
  <2>1. Waits(WriteTasks, socketStrand)
    BY <1>1, WaitsTail
  <2>. QED  BY <1>1, <2>1, WaitsTail DEF WriteInv, Consistent
<1>4. socketOpen = TRUE => ~Waits(EndTasks, Tail(socketStrand))
  BY <1>2, <1>3 DEF Waits
<1>5. CASE AsyncWrite /\ socketOpen = TRUE
  <2>1. Head(socketStrand) \notin EndTasks
    BY <1>5 DEF AsyncWrite, SocketTurn, EndTasks
  <2>2. ~Waits(EndTasks, socketStrand)
    BY <1>1, <1>4, <1>5, <2>1, WaitsTail
  <2>3. /\ writeQueue' = writeQueue
        /\ socketStrand' = Tail(socketStrand)
        /\ socketOpen' = TRUE
    BY <1>5 DEF AsyncWrite, objectVars
  <2>4. Unsent(writeQueue', socketStrand') = Unsent(writeQueue, socketStrand)
    BY <1>4, <1>5, <2>2, <2>3 DEF Unsent
  <2>. QED  BY <1>5, <2>3, <2>4, OutboxFacts
<1>6. CASE HandleWrite /\ socketOpen = TRUE
  <2>1. Waits(EndTasks, socketStrand)
    <3>1. Head(socketStrand) \in EndTasks
      BY <1>1, <1>6 DEF HandleWrite, SocketTurn, EndTasks, WriteTasks
    <3>. QED  BY <1>1, <3>1, WaitsTail
  <2>2. PICK rest \in Seq(SocketTask), queue \in Seq(Outgoing) :
          /\ rest = Tail(socketStrand)
          /\ queue = Dequeue(writeQueue)
          /\ writeQueue' = queue
          /\ socketStrand' \in {WriteNext(queue, rest), rest,
                                Append(rest, Task("cancel"))}
    BY <1>6, HandleWriteFacts
  <2>3. ~Waits(EndTasks, socketStrand')
    <3>1. ~Waits(EndTasks, rest)
      BY <1>4, <1>6, <2>2
    <3>2. /\ \A n \in Outgoing : WriteTask(n) \notin EndTasks
          /\ Task("cancel") \in SocketTask
          /\ Task("cancel") \notin EndTasks
      BY TaskNames, TaskTypes DEF EndTasks
    <3>3. ~Waits(EndTasks, WriteNext(queue, rest))
      BY <3>1, <3>2, WriteNextFacts
    <3>4. ~Waits(EndTasks, Append(rest, Task("cancel")))
      BY <3>1, <3>2, WaitsAppend
    <3>. QED  BY <2>2, <3>1, <3>3, <3>4
  <2>4. Unsent(writeQueue', socketStrand') = Unsent(writeQueue, socketStrand)
    BY <2>1, <2>2, <2>3 DEF Unsent
  <2>5. socketOpen' = TRUE
    BY <1>6 DEF HandleWrite, socketVars
  <2>. QED  BY <1>6, <2>4, <2>5, OutboxFacts
<1>7. CASE socketOpen # TRUE
  <2>1. socketOpen' = socketOpen
    BY DEF AsyncWrite, HandleWrite, socketVars
  <2>2. socketOpen = FALSE
    BY <1>7 DEF TypeInv, FlagTypes
  <2>3. writing' = writing
    BY <2>2 DEF AsyncWrite, HandleWrite, socketVars
  <2>. QED  BY <1>7, <2>1, <2>3, OutboxFacts
<1>. QED  BY <1>5, <1>6, <1>7

(* The end of a write takes the front of the outbox.                       *)
LEMMA CompleteOutbox ==
  ASSUME TypeInv, WriteInv, TypeInv', WriteInv',
         NEW result \in Result, CompleteWrite(result)
  PROVE  /\ Outbox # <<>>
         /\ Head(Outbox) = writing
         /\ Outbox' = Tail(Outbox)
<1>1. /\ writeQueue \in Seq(Outgoing)
      /\ socketStrand \in Seq(SocketTask)
      /\ writing # NoMessage
      /\ writing' = NoMessage
      /\ writeQueue' = writeQueue
      /\ socketOpen' = socketOpen
      /\ socketStrand' = Append(socketStrand, Completion("handleWrite", result))
  BY DEF TypeInv, DataTypes, CompleteWrite, objectVars
<1>2. CASE socketOpen = TRUE
  <2>1. /\ ~Waits(WriteTasks, socketStrand)
        /\ writeQueue # <<>>
        /\ Head(writeQueue) = writing
    BY <1>1, <1>2 DEF WriteInv, Consistent
  <2>2. ~Waits(EndTasks, socketStrand)
    BY <2>1 DEF Waits, EndTasks, WriteTasks
  <2>3. Waits(EndTasks, socketStrand')
    <3>1. /\ Completion("handleWrite", result) \in SocketTask
          /\ Completion("handleWrite", result) \in EndTasks
      BY TaskTypes, TaskNames DEF EndTasks
    <3>. QED  BY <1>1, <3>1, WaitsAppend
  <2>4. Outbox = writeQueue
    BY <1>2, <2>2, OutboxFacts DEF Unsent
  <2>5. Outbox' = Tail(writeQueue)
    BY <1>1, <1>2, <2>1, <2>3, OutboxFacts DEF Unsent, Dequeue
  <2>. QED  BY <2>1, <2>4, <2>5
<1>3. CASE socketOpen # TRUE
  <2>1. Outbox = <<writing>>
    BY <1>1, <1>3, OutboxFacts DEF InFlight
  <2>2. Outbox' = <<>>
    BY <1>1, <1>3, OutboxFacts DEF InFlight
  <2>3. Head(<<writing>>) = writing /\ Tail(<<writing>>) = <<>>
    OBVIOUS
  <2>. QED  BY <2>1, <2>2, <2>3
<1>. QED  BY <1>2, <1>3

(* The first close of the socket leaves the message being written, if any. *)
LEMMA CloseOutbox ==
  ASSUME TypeInv, WriteInv, TypeInv', WriteInv', CloseSocket
  PROVE  /\ socketOpen # TRUE => Outbox' = Outbox
         /\ socketOpen = TRUE =>
              \/ Outbox' = <<>>
              \/ Outbox # <<>> /\ Outbox' = <<Head(Outbox)>>
<1>1. writing' = writing /\ socketOpen' = FALSE
  BY DEF CloseSocket
<1>2. Outbox' = InFlight(writing)
  BY <1>1, OutboxFacts
<1>3. CASE socketOpen # TRUE
  BY <1>2, <1>3, OutboxFacts
<1>4. CASE socketOpen = TRUE /\ writing = NoMessage
  BY <1>2, <1>4 DEF InFlight
<1>5. CASE socketOpen = TRUE /\ writing # NoMessage
  <2>1. /\ ~Waits(WriteTasks, socketStrand)
        /\ writeQueue # <<>>
        /\ Head(writeQueue) = writing
    BY <1>5 DEF WriteInv, Consistent
  <2>2. ~Waits(EndTasks, socketStrand)
    BY <2>1 DEF Waits, EndTasks, WriteTasks
  <2>3. Outbox = writeQueue
    BY <1>5, <2>2, OutboxFacts DEF Unsent
  <2>. QED  BY <1>2, <1>5, <2>1, <2>3 DEF InFlight
<1>. QED  BY <1>3, <1>4, <1>5

-----------------------------------------------------------------------------
(* Refinement of SessionPromise: a session that has failed stays failed.   *)

(* The handlers of writes that failed.                                     *)
BadEnds ==
  {task \in SocketTask : task.op = "handleWrite" /\ task.result # "ok"}

(* How a session can have failed without one of them.                      *)
HasFailed ==
  \/ closing # {}
  \/ stage \in {"opening", "open"} /\ ~isConnected

(* Where the handlers of failed writes wait.                               *)
LEMMA BadEndFacts ==
  ASSUME NEW line \in Seq(SocketTask)
  PROVE  Waits(BadEnds, line)
         <=> \E i \in {i \in DOMAIN line : line[i].op \in {"handleWrite"}} :
               line[i].result # "ok"
<1>1. /\ DOMAIN line = 1 .. Len(line)
      /\ \A i \in 1 .. Len(line) : line[i] \in SocketTask
  BY ElementFacts
<1>. QED  BY <1>1 DEF Waits, BadEnds

(* Nothing ends aborted, and the socket is not closed, before close() was  *)
(* called.                                                                 *)
LEMMA EndedFailed ==
  ASSUME TypeInv, StartInv, LiveInv, Waits(Ending, socketStrand)
  PROVE  HasFailed
<1>1. stage \in {"opening", "open"}
  BY NoneWaits DEF StartInv, Starting, Untouched
<1>2. ~Live
  BY DEF LiveInv, Undisturbed
<1>3. isConnected \in BOOLEAN
  BY Zenon DEF TypeInv, FlagTypes
<1>. QED  BY <1>1, <1>2, <1>3 DEF Live, HasFailed

(* close() is not taken back.                                              *)
LEMMA FailedStays ==
  ASSUME TypeInv, StartInv, Next, HasFailed
  PROVE  HasFailed'
<1>1. stage \in {"opening", "open"}
  BY DEF HasFailed, StartInv, Starting, Untouched
<1>2. stage' \in {"opening", "open"}
  BY <1>1 DEF Next, SocketStep, Resolve, HandleResolve, HandleConnect,
     AsyncHandshake, HandleHandshake, HandshakeSucceeded, HandleRead,
     MessageRead, Abandoned, Failed, AsyncWrite, HandleWrite, CancelSocket,
     CloseSocket, Receive, CommitClose, CompleteRead, CompleteWrite,
     objectVars
<1>3. CASE \E context \in Context : CommitClose(context)
  BY <1>2, <1>3 DEF CommitClose, HasFailed
<1>4. CASE \A context \in Context : ~CommitClose(context)
  <2>1. /\ isConnected' = isConnected
        /\ closing \subseteq closing'
    BY <1>1, <1>4 DEF Next, SocketStep, Resolve, HandleResolve,
       HandleConnect, AsyncHandshake, HandleHandshake, HandshakeSucceeded,
       HandleRead, MessageRead, Abandoned, Failed, AsyncWrite, HandleWrite,
       CancelSocket, CloseSocket, Receive, CompleteRead, CompleteWrite,
       CallClose, objectVars
  <2>. QED  BY <1>2, <2>1 DEF HasFailed
<1>. QED  BY <1>3, <1>4

(* The handler of a failed write waits until handleWrite() takes it: that  *)
(* calls close(), or an aborted write means that it was called.            *)
LEMMA BadEndStays ==
  ASSUME TypeInv, StartInv, LiveInv, IdleInv, Next,
         Waits(BadEnds, socketStrand)
  PROVE  HasFailed' \/ Waits(BadEnds, socketStrand')
<1>. SUFFICES ASSUME SocketStep, socketStrand # <<>>,
                     Head(socketStrand) \in BadEnds
              PROVE  HasFailed'
  BY TasksKept
<1>1. socketStrand \in Seq(SocketTask)
  BY DEF TypeInv, DataTypes
<1>2. HandleWrite
  BY DEF SocketStep, SocketTurn, AsyncHandshake, HandleHandshake, HandleRead,
     AsyncWrite, CancelSocket, CloseSocket, BadEnds
<1>3. CASE Head(socketStrand).result = "aborted"
  <2>1. Head(socketStrand) \in Ending
    BY <1>3 DEF BadEnds, Ending
  <2>2. Waits(Ending, socketStrand)
    BY <1>1, <2>1, WaitsTail
  <2>. QED  BY <2>2, EndedFailed, FailedStays
<1>4. CASE Head(socketStrand).result # "aborted"
  <2>1. /\ CallClose("write", Tail(socketStrand))
        /\ UNCHANGED <<stage, isConnected>>
    BY <1>2, <1>4 DEF HandleWrite, BadEnds
  <2>2. Head(socketStrand) \in WorkTasks
    BY DEF BadEnds, WorkTasks
  <2>3. Waits(WorkTasks, socketStrand)
    BY <1>1, <2>2, WaitsTail
  <2>4. stage = "open"
    BY <2>3 DEF IdleInv, Idle
  <2>. QED  BY <2>1, <2>4 DEF CallClose, HasFailed
<1>. QED  BY <1>3, <1>4

-----------------------------------------------------------------------------
(* Refinement of SessionPromise: every step is one of the promise.         *)

(* What a step finds, and leaves.                                          *)
Inv ==
  /\ TypeInv /\ StartInv /\ WriteInv /\ LiveInv
  /\ IdleInv /\ HandshakeInv /\ OrderInv

(* Failing before and after a step.                                        *)
LEMMA FailingIs ==
  ASSUME Inv, Inv'
  PROVE  /\ Failing \in BOOLEAN
         /\ Failing <=> HasFailed \/ Waits(BadEnds, socketStrand)
         /\ Failing' \in BOOLEAN
         /\ Failing' <=> HasFailed' \/ Waits(BadEnds, socketStrand')
<1>1. socketStrand \in Seq(SocketTask) /\ socketStrand' \in Seq(SocketTask)
  BY DEF Inv, TypeInv, DataTypes
<1>2. Failing <=> HasFailed \/ Waits(BadEnds, socketStrand)
  BY <1>1, BadEndFacts DEF Failing, HasFailed, Waiting
<1>3. Failing' <=> HasFailed' \/ Waits(BadEnds, socketStrand')
  BY <1>1, BadEndFacts DEF Failing, HasFailed, Waiting
<1>4. Failing \in BOOLEAN /\ Failing' \in BOOLEAN
  BY DEF Failing
<1>. QED  BY <1>2, <1>3, <1>4

(* The failure of a session is never taken back.                           *)
LEMMA FailingStays ==
  ASSUME Inv, Inv', Next
  PROVE  Failing' = Failing \/ Failing' = TRUE
<1>1. HasFailed => HasFailed'
  BY FailedStays DEF Inv
<1>2. Waits(BadEnds, socketStrand)
      => HasFailed' \/ Waits(BadEnds, socketStrand')
  BY BadEndStays DEF Inv
<1>. QED  BY <1>1, <1>2, FailingIs

(* A step that changes nothing else that the owner sees is a stutter, or   *)
(* the session fails.                                                      *)
LEMMA Stutters ==
  ASSUME Inv, Inv', [Next]_vars,
         UNCHANGED <<stage = "open", socketOpen, delivered, Outbox, wire>>
  PROVE  Promise!Fail \/ UNCHANGED Promise!vars
<1>1. CASE Next
  <2>1. Failing' = Failing \/ Failing' = TRUE
    BY <1>1, FailingStays
  <2>. QED  BY <2>1 DEF Promise!Fail, Promise!vars
<1>2. CASE UNCHANGED vars
  <2>1. Failing' = Failing
    BY <1>2 DEF vars, objectVars, Failing, Waiting
  <2>. QED  BY <2>1 DEF Promise!vars
<1>. QED  BY <1>1, <1>2

(* The handshake that succeeds opens the session.                          *)
LEMMA HandshakeOpens ==
  ASSUME Inv, Inv', HandleHandshake, HandshakeSucceeded
  PROVE  Promise!Open
<1>1. /\ TypeInv /\ WriteInv /\ TypeInv' /\ WriteInv'
      /\ socketStrand \in Seq(SocketTask)
      /\ writeQueue \in Seq(Outgoing)
  BY DEF Inv, TypeInv, DataTypes
<1>2. /\ stage = "opening" /\ socketOpen = TRUE
      /\ isConnected = TRUE /\ closing = {}
      /\ ~Waits(BadEnds, socketStrand)
  <2>1. Waits(HandshakeTasks, socketStrand)
    BY <1>1, TurnFacts DEF HandleHandshake, HandshakeTasks
  <2>2. stage = "opening" /\ socketOpen = TRUE
        /\ isConnected = TRUE /\ closing = {}
    BY <2>1 DEF Inv, HandshakeInv, Handshaking
  <2>3. ~Waits(WorkTasks, socketStrand)
    BY <2>2 DEF Inv, IdleInv, Idle
  <2>4. ~Waits(BadEnds, socketStrand)
    BY <2>3 DEF Waits, WorkTasks, BadEnds
  <2>. QED  BY <2>2, <2>4
<1>3. /\ stage' = "open"
      /\ UNCHANGED <<isConnected, closing, socketOpen, writing, delivered,
                     wire>>
      /\ Send(1, Tail(socketStrand))
  BY DEF HandleHandshake, HandshakeSucceeded, OpenedHandle, historyVars
<1>4. /\ Tail(socketStrand) \in Seq(SocketTask)
      /\ Taken(Tail(socketStrand))
  BY <1>1, TurnFacts DEF HandleHandshake, SocketStep, Taken, WriteTasks
<1>5. Outbox' = Append(Outbox, 1)
  BY <1>1, <1>2, <1>3, <1>4, SendOutbox, TaskTypes
<1>6. Failing' = Failing
  <2>1. ~Waits(BadEnds, Tail(socketStrand))
    BY <1>1, <1>2, TurnFacts DEF HandleHandshake
  <2>2. \A m \in Outgoing : WriteTask(m) \notin BadEnds
    BY TaskNames DEF BadEnds
  <2>3. ~Waits(BadEnds, socketStrand')
    BY <1>1, <1>3, <1>4, <2>1, <2>2, SendFacts, TaskTypes
  <2>4. HasFailed' <=> HasFailed
    BY <1>2, <1>3 DEF HasFailed
  <2>. QED  BY <1>2, <2>3, <2>4, FailingIs
<1>. QED  BY <1>2, <1>3, <1>5, <1>6 DEF Promise!Open

(* receiveHandler_ gets the next message.                                  *)
LEMMA ReceiveDelivers ==
  ASSUME Inv, Inv', Receive, ~WriteStep, ~CloseSocket
  PROVE  \E n \in 1 .. MaxReads : Promise!Deliver(n)
<1>1. /\ TypeInv /\ WriteInv /\ TypeInv' /\ WriteInv'
      /\ socketOpen \in BOOLEAN
      /\ socketStrand \in Seq(SocketTask)
      /\ readStrand \in Seq(1 .. MaxReads)
      /\ delivered \in Nat
  <2>1. socketOpen \in BOOLEAN
    BY Zenon DEF Inv, TypeInv, FlagTypes
  <2>. QED  BY <2>1 DEF Inv, TypeInv, DataTypes
<1>2. readStrand # <<>>
  BY DEF Receive
<1>3. PICK n \in 1 .. MaxReads : n = Head(readStrand) /\ n = readStrand[1]
  BY <1>1, <1>2, TailFacts
<1>4. n > delivered
  <2>1. 1 \in 1 .. Len(readStrand)
    BY <1>1, <1>2, TailFacts
  <2>2. delivered < readStrand[1]
    BY <2>1 DEF Inv, OrderInv
  <2>. QED  BY <1>1, <1>3, <2>2
<1>5. stage = "open"
  BY <1>2 DEF Inv, IdleInv, Idle
<1>6. /\ delivered' = n
      /\ UNCHANGED <<stage, socketOpen, writing, wire>>
  BY <1>3 DEF Receive, socketVars
<1>7. Failing' \in {Failing, TRUE}
  <2>1. Next
    BY DEF Next
  <2>. QED  BY <2>1, FailingStays
<1>8. PICK reply \in Replies :
        /\ reply = "send" => Send(n, socketStrand)
        /\ reply # "send" => writeQueue' = writeQueue
  BY <1>3 DEF Receive
<1>9. Taken(socketStrand) /\ n \in Outgoing
  BY TaskTypes DEF Taken
<1>10. PICK answers \in {r = "send" : r \in Replies} :
         Outbox' = IF answers /\ socketOpen THEN Append(Outbox, n) ELSE Outbox
  <2>1. CASE reply = "send"
    <3>1. /\ socketOpen = TRUE => Outbox' = Append(Outbox, n)
          /\ socketOpen # TRUE => Outbox' = Outbox
      BY <1>1, <1>6, <1>8, <1>9, <2>1, SendOutbox
    <3>2. TRUE \in {r = "send" : r \in Replies}
      BY <2>1
    <3>. QED  BY <1>1, <3>1, <3>2
  <2>2. CASE reply # "send"
    <3>1. Outbox' = Outbox
      BY <1>1, <1>8, <2>2, OnlyQueueSteps, QuietOutbox DEF Next
    <3>2. FALSE \in {r = "send" : r \in Replies}
      BY <2>2
    <3>. QED  BY <3>1, <3>2
  <2>. QED  BY <2>1, <2>2
<1>. QED  BY <1>4, <1>5, <1>6, <1>7, <1>10 DEF Promise!Deliver

(* The end of a write is a failure, unless it is a good end.               *)
LEMMA WriteEnds ==
  ASSUME Inv, Inv', NEW result \in Result, CompleteWrite(result)
  PROVE  /\ result = "ok" => Failing' = Failing
         /\ result # "ok" => Failing' = TRUE
<1>1. socketStrand \in Seq(SocketTask)
  BY DEF Inv, TypeInv, DataTypes
<1>2. PICK end \in SocketTask : end = Completion("handleWrite", result)
  BY TaskTypes
<1>3. end \in BadEnds <=> result # "ok"
  BY <1>2, TaskNames DEF BadEnds
<1>4. /\ socketStrand' = Append(socketStrand, end)
      /\ UNCHANGED <<closing, stage, isConnected>>
  BY <1>2 DEF CompleteWrite, objectVars
<1>5. Waits(BadEnds, socketStrand')
      <=> Waits(BadEnds, socketStrand) \/ result # "ok"
  BY <1>1, <1>3, <1>4, WaitsAppend
<1>6. HasFailed' <=> HasFailed
  BY <1>4 DEF HasFailed
<1>. QED  BY <1>5, <1>6, FailingIs

(* The socket is only closed after close() was called.                     *)
LEMMA ClosesFailed ==
  ASSUME Inv, Inv', CloseSocket
  PROVE  Failing = TRUE /\ Failing' = Failing
<1>1. socketStrand \in Seq(SocketTask)
  BY DEF Inv, TypeInv, DataTypes
<1>2. Head(socketStrand) \in Ending
  BY <1>1, TurnFacts DEF CloseSocket, Ending
<1>3. Waits(Ending, socketStrand)
  BY <1>1, <1>2, TurnFacts DEF CloseSocket
<1>4. HasFailed
  BY <1>3, EndedFailed DEF Inv
<1>5. Next
  BY DEF Next, SocketStep
<1>. QED  BY <1>4, <1>5, FailingIs, FailingStays

(* Every step of the session is a step of its promise, or a stutter.       *)
LEMMA StepRefines ==
  ASSUME Inv, Inv', [Next]_vars
  PROVE  [Promise!Next]_(Promise!vars)
<1>1. /\ TypeInv /\ WriteInv
      /\ TypeInv' /\ WriteInv'
      /\ socketOpen \in BOOLEAN
  <2>1. socketOpen \in BOOLEAN
    BY Zenon DEF Inv, TypeInv, FlagTypes
  <2>. QED  BY <2>1 DEF Inv
<1>s. ASSUME UNCHANGED <<stage = "open", socketOpen, delivered, Outbox, wire>>
      PROVE  [Promise!Next]_(Promise!vars)
  BY <1>s, Stutters DEF Promise!Next
<1>2. CASE UNCHANGED vars
  <2>1. Outbox' = Outbox
    BY <1>2 DEF vars, objectVars, socketVars, Outbox, Waiting
  <2>. QED  BY <1>2, <1>s, <2>1 DEF vars, objectVars, socketVars, historyVars
<1>3. CASE AsyncWrite \/ HandleWrite
  <2>1. Outbox' = Outbox
    BY <1>1, <1>3, WriteOutbox
  <2>2. UNCHANGED <<stage, socketOpen, delivered, wire>>
    BY <1>3 DEF AsyncWrite, HandleWrite, objectVars, socketVars, historyVars
  <2>. QED  BY <1>s, <2>1, <2>2
<1>4. CASE \E result \in Result : CompleteWrite(result)
  <2>1. PICK result \in Result : CompleteWrite(result)
    BY <1>4
  <2>2. /\ Outbox # <<>>
        /\ Head(Outbox) = writing
        /\ Outbox' = Tail(Outbox)
        /\ UNCHANGED <<stage, socketOpen, delivered>>
    BY <1>1, <2>1, CompleteOutbox DEF CompleteWrite, objectVars
  <2>3. CASE result = "ok"
    <3>1. wire' = Append(wire, writing) /\ Failing' = Failing
      BY <2>1, <2>3, WriteEnds DEF CompleteWrite
    <3>2. Promise!Transmit
      BY <2>2, <3>1 DEF Promise!Transmit
    <3>. QED  BY <3>2 DEF Promise!Next
  <2>4. CASE result # "ok"
    <3>1. wire' = wire /\ Failing' = TRUE
      BY <2>1, <2>4, WriteEnds DEF CompleteWrite
    <3>2. Promise!Lose
      BY <2>2, <3>1 DEF Promise!Lose
    <3>. QED  BY <3>2 DEF Promise!Next
  <2>. QED  BY <2>3, <2>4
<1>5. CASE CloseSocket
  <2>1. UNCHANGED <<stage, delivered, wire>> /\ socketOpen' = FALSE
    BY <1>5 DEF CloseSocket
  <2>2. CASE socketOpen = TRUE
    <3>1. Promise!Close
      BY <1>1, <1>5, <2>1, <2>2, ClosesFailed, CloseOutbox DEF Promise!Close
    <3>. QED  BY <3>1 DEF Promise!Next
  <2>3. CASE socketOpen = FALSE
    <3>1. Outbox' = Outbox
      BY <1>1, <1>5, <2>3, CloseOutbox
    <3>. QED  BY <1>s, <2>1, <2>3, <3>1
  <2>. QED  BY <1>1, <2>2, <2>3
<1>6. CASE HandleHandshake /\ HandshakeSucceeded
  BY <1>6, HandshakeOpens DEF Promise!Next
<1>7. CASE Receive /\ ~WriteStep /\ ~CloseSocket
  BY <1>7, ReceiveDelivers DEF Promise!Next
<1>8. CASE /\ Next
           /\ ~WriteStep /\ ~CloseSocket /\ ~Receive
           /\ ~(HandleHandshake /\ HandshakeSucceeded)
  <2>1. /\ UNCHANGED <<socketOpen, delivered, wire>>
        /\ writeQueue' = writeQueue
    BY <1>8 DEF Next, SocketStep, WriteStep, Resolve, HandleResolve,
       HandleConnect, AsyncHandshake, HandleHandshake, HandleRead,
       MessageRead, Abandoned, Failed, CancelSocket, CommitClose,
       CompleteRead, objectVars, socketVars, historyVars
  <2>2. (stage' = "open") = (stage = "open")
    BY <1>8 DEF Next, SocketStep, WriteStep, Resolve, HandleResolve,
       HandleConnect, Open, OpenThrows, AsyncHandshake, HandleHandshake,
       HandleRead, MessageRead, Abandoned, Failed, CancelSocket, CommitClose,
       CompleteRead, objectVars
  <2>3. Outbox' = Outbox
    BY <1>1, <1>8, <2>1, OnlyQueueSteps, QuietOutbox
  <2>. QED  BY <1>s, <2>1, <2>2, <2>3
<1>. QED
  BY <1>2, <1>3, <1>4, <1>5, <1>6, <1>7, <1>8 DEF WriteStep

(* The session implements SessionPromise: it opens once and closes once;   *)
(* messages reach receiveHandler_ in the order they were read, none twice; *)
(* and those it was given to send leave in that order, none twice, and     *)
(* none is left out unless the session has failed.                         *)
THEOREM Refinement == Spec => KeepsPromise
<1>1. Init => Promise!Init
  BY ConcatEmptySeq DEF Init, Promise!Init, Outbox, Failing, Waiting
<1>2. Inv /\ Inv' /\ [Next]_vars => [Promise!Next]_(Promise!vars)
  BY StepRefines
<1>3. Spec => []Inv
  BY TypeInvariant, StartInvariant, WriteInvariant, LiveInvariant,
     ReadInvariant, PTL DEF Inv
<1>. QED  BY <1>1, <1>2, <1>3, PTL DEF Spec, KeepsPromise, Promise!Spec

=============================================================================
