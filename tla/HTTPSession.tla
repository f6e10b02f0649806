----------------------------- MODULE HTTPSession -----------------------------
(***************************************************************************)
(* Net::ClientHTTPSession: a TLS connection to a web server.  Like Session *)
(* it lives in the handlers of a pool, on socketStrand_ and readStrand_,   *)
(* and close() is two steps; it has no timer, no frames and no Ping, and   *)
(* the bytes of any read go to receiveHandler_ as they are.                *)
(*                                                                         *)
(* The owner is http_client, which resolves, connects, and sends one       *)
(* request when the session opens; what its receiveHandler_ may do is a    *)
(* constant.                                                               *)
(***************************************************************************)
EXTENDS Integers, Sequences, FiniteSets, WriteQueue

CONSTANTS
  MaxReads,    \* bound: how many reads succeed
  MaxBacklog,  \* bound: handlers that wait in socketStrand_ when one does
  Replies      \* what receiveHandler_ may do: "nothing", "send", "drop"

ASSUME HTTPSessionAssumption ==
  /\ MaxReads \in Nat
  /\ MaxBacklog \in Nat
  /\ Replies \subseteq {"nothing", "send", "drop"}

VARIABLES
  stage,        \* "new", "resolving", "connecting", "opening", "open", or
                \*   "abandoned" if open() was not called or has thrown
  isConnected,  \* isConnected_
  writeQueue,   \* writeQueue_
  socketStrand, \* handlers posted to socketStrand_, oldest first
  readStrand,   \* messages posted to readStrand_ for receiveHandler_
  closing,      \* contexts inside close(), past the test of isConnected_
  socketOpen,   \* FALSE once the socket was closed
  reading,      \* the handshake or read in progress, "none" if there is none
  writing,      \* the message being written, NoMessage if there is none
  doomed,       \* the operations among "read", "write" that will end aborted
  received,     \* history: reads that succeeded; numbers a message
  delivered,    \* history: the last message given to receiveHandler_
  wire,         \* history: messages written in full
  closes        \* history: calls of closeHandler_

objectVars == <<stage, isConnected, writeQueue, closing>>
socketVars == <<socketOpen, reading, writing, doomed>>
historyVars == <<received, delivered, wire, closes>>
vars == <<objectVars, socketStrand, readStrand, socketVars, historyVars>>

-----------------------------------------------------------------------------

(* A message is the number of the message it answers; the request is 1.    *)
Outgoing == 1 .. MaxReads + 1
NoMessage == 0

(* The result of an operation; "empty" is a read of no bytes.              *)
Result == {"ok", "empty", "aborted", "error"}

SocketTask ==
  [op : {"asyncHandshake", "handleHandshake", "handleRead", "asyncWrite",
         "handleWrite", "cancel", "close"},
   result : Result,
   message : Outgoing \cup {NoMessage}]

Task(op) == [op |-> op, result |-> "ok", message |-> NoMessage]
Completion(op, result) == [Task(op) EXCEPT !.result = result]
WriteTask(m) == [Task("asyncWrite") EXCEPT !.message = m]

(* Where close() can be called from.  "write" is handleWrite(), which      *)
(* holds queueMutex_; "read" is receiveHandler_ on readStrand_.            *)
Context == {"socket", "write", "read"}

QueueMutexFree == "write" \notin closing

SocketTurn(op) ==
  /\ closing \cap {"socket", "write"} = {}
  /\ socketStrand # <<>>
  /\ Head(socketStrand).op = op

-----------------------------------------------------------------------------
(* send() and close(), with "strand" socketStrand as it is at the call.    *)

WriteNext(q, strand) ==
  IF q # <<>> THEN Append(strand, WriteTask(Head(q))) ELSE strand

(* Mutant: a write is posted whether or not one is under way.              *)
SendAlways(m, strand) ==
  /\ writeQueue' = Append(writeQueue, m)
  /\ socketStrand' = WriteNext(writeQueue', strand)

(* send(): the front of the queue is the message being written.            *)
Send(m, strand) ==
  /\ writeQueue' = Append(writeQueue, m)
  /\ socketStrand' =
       IF writeQueue = <<>> THEN WriteNext(writeQueue', strand) ELSE strand

(* close(), up to and including the test of isConnected_.                  *)
CallClose(context, strand) ==
  /\ socketStrand' = Append(strand, Task("cancel"))
  /\ closing' = IF isConnected THEN closing \cup {context} ELSE closing

(* close(), from the assignment of isConnected_ on.                        *)
CommitClose(context) ==
  /\ context \in closing
  /\ closing' = closing \ {context}
  /\ isConnected' = FALSE
  /\ socketStrand' = Append(socketStrand, Task("close"))
  /\ UNCHANGED <<stage, writeQueue, readStrand, socketVars, historyVars>>

-----------------------------------------------------------------------------
(* The program: async_resolve, then async_connect, whose handler calls     *)
(* open() whatever the result.  On a socket that no attempt to connect     *)
(* left open, set_option() throws in open().                               *)

Resolve ==
  /\ stage = "new"
  /\ stage' = "resolving"
  /\ UNCHANGED <<isConnected, writeQueue, closing, socketStrand, readStrand,
                 socketVars, historyVars>>

HandleResolve ==
  /\ stage = "resolving"
  /\ stage' \in {"connecting", "abandoned"}
  /\ UNCHANGED <<isConnected, writeQueue, closing, socketStrand, readStrand,
                 socketVars, historyVars>>

Open ==
  /\ ~isConnected
  /\ stage' = "opening"
  /\ isConnected' = TRUE
  /\ socketStrand' = Append(socketStrand, Task("asyncHandshake"))

OpenThrows ==
  /\ stage' = "abandoned"
  /\ UNCHANGED <<isConnected, socketStrand>>

HandleConnect ==
  /\ stage = "connecting"
  /\ Open \/ OpenThrows
  /\ UNCHANGED <<writeQueue, closing, readStrand, socketVars, historyVars>>

-----------------------------------------------------------------------------
(* Handshake and reads.                                                    *)

AsyncHandshake ==
  /\ SocketTurn("asyncHandshake")
  /\ socketStrand' = Tail(socketStrand)
  /\ reading' = "handshake"
  /\ UNCHANGED <<objectVars, readStrand, socketOpen, writing, doomed,
                 historyVars>>

(* A handler that was aborted does nothing.                                *)
Abandoned ==
  /\ Head(socketStrand).result = "aborted"
  /\ socketStrand' = Tail(socketStrand)
  /\ UNCHANGED <<stage, writeQueue, closing, readStrand, reading>>

Failed(results) ==
  /\ Head(socketStrand).result \in results
  /\ CallClose("socket", Tail(socketStrand))
  /\ UNCHANGED <<stage, writeQueue, readStrand, reading>>

(* openHandler_ sends the request.                                         *)
OpenedHandle(strand) == Send(1, strand)

HandshakeSucceeded ==
  /\ Head(socketStrand).result = "ok"
  /\ reading' = "read"
  /\ stage' = "open"
  /\ OpenedHandle(Tail(socketStrand))
  /\ UNCHANGED <<closing, readStrand>>

HandleHandshake ==
  /\ SocketTurn("handleHandshake")
  /\ HandshakeSucceeded \/ Abandoned \/ Failed({"error"})
  /\ UNCHANGED <<isConnected, socketOpen, writing, doomed, historyVars>>

(* Mutant: the message is named after the read before.                     *)
MessageReadStale ==
  /\ Head(socketStrand).result = "ok"
  /\ socketStrand' = Tail(socketStrand)
  /\ readStrand' =
       IF isConnected THEN Append(readStrand, received - 1) ELSE readStrand
  /\ reading' = "read"
  /\ UNCHANGED <<stage, writeQueue, closing>>

(* Mutant: no readNext() while receiveHandler_ has messages to handle.     *)
MessageReadLazy ==
  /\ Head(socketStrand).result = "ok"
  /\ socketStrand' = Tail(socketStrand)
  /\ readStrand' =
       IF isConnected THEN Append(readStrand, received) ELSE readStrand
  /\ reading' = IF readStrand = <<>> THEN "read" ELSE "none"
  /\ UNCHANGED <<stage, writeQueue, closing>>

(* handleMessage(), then readNext().                                       *)
MessageRead ==
  /\ Head(socketStrand).result = "ok"
  /\ socketStrand' = Tail(socketStrand)
  /\ readStrand' =
       IF isConnected THEN Append(readStrand, received) ELSE readStrand
  /\ reading' = "read"
  /\ UNCHANGED <<stage, writeQueue, closing>>

HandleRead ==
  /\ SocketTurn("handleRead")
  /\ MessageRead \/ Abandoned \/ Failed({"empty", "error"})
  /\ UNCHANGED <<isConnected, socketOpen, writing, doomed, historyVars>>

(* receiveHandler_ on readStrand_.                                         *)
Receive ==
  /\ readStrand # <<>>
  /\ "read" \notin closing
  /\ readStrand' = Tail(readStrand)
  /\ delivered' = Head(readStrand)
  /\ \/ /\ "nothing" \in Replies
        /\ UNCHANGED <<writeQueue, socketStrand, closing>>
     \/ /\ "send" \in Replies
        /\ QueueMutexFree
        /\ Send(Head(readStrand), socketStrand)
        /\ UNCHANGED closing
     \/ /\ "drop" \in Replies
        /\ CallClose("read", socketStrand)
        /\ UNCHANGED writeQueue
  /\ UNCHANGED <<stage, isConnected, socketVars, received, wire, closes>>

-----------------------------------------------------------------------------
(* Writes, and the handlers that close() posts.                            *)

(* On a closed socket the write fails without waiting.                     *)
AsyncWrite ==
  /\ SocketTurn("asyncWrite")
  /\ IF socketOpen
     THEN /\ writing' = Head(socketStrand).message
          /\ socketStrand' = Tail(socketStrand)
     ELSE /\ socketStrand' =
               Append(Tail(socketStrand), Completion("handleWrite", "error"))
          /\ UNCHANGED writing
  /\ UNCHANGED <<objectVars, readStrand, socketOpen, reading, doomed,
                 historyVars>>

(* Mutant: the next message is looked up before the front is popped.       *)
HandleWriteUnpopped ==
  /\ SocketTurn("handleWrite")
  /\ writeQueue' = Dequeue(writeQueue)
  /\ LET rest == Tail(socketStrand) IN
     \/ /\ Head(socketStrand).result = "ok"
        /\ socketStrand' = WriteNext(writeQueue, rest)
        /\ UNCHANGED closing
     \/ /\ Head(socketStrand).result = "aborted"
        /\ socketStrand' = rest
        /\ UNCHANGED closing
     \/ /\ Head(socketStrand).result = "error"
        /\ CallClose("write", rest)
  /\ UNCHANGED <<stage, isConnected, readStrand, socketVars, historyVars>>

HandleWrite ==
  /\ SocketTurn("handleWrite")
  /\ writeQueue' = Dequeue(writeQueue)
  /\ LET rest == Tail(socketStrand) IN
     \/ /\ Head(socketStrand).result = "ok"
        /\ socketStrand' = WriteNext(writeQueue', rest)
        /\ UNCHANGED closing
     \/ /\ Head(socketStrand).result = "aborted"
        /\ socketStrand' = rest
        /\ UNCHANGED closing
     \/ /\ Head(socketStrand).result = "error"
        /\ CallClose("write", rest)
  /\ UNCHANGED <<stage, isConnected, readStrand, socketVars, historyVars>>

Pending == (IF reading = "none" THEN {} ELSE {"read"})
           \cup (IF writing = NoMessage THEN {} ELSE {"write"})

(* An operation that does not wait in the reactor at this moment goes on.  *)
AbortSome == \E hit \in SUBSET Pending : doomed' = doomed \cup hit

CancelSocket ==
  /\ SocketTurn("cancel")
  /\ socketStrand' = Tail(socketStrand)
  /\ AbortSome
  /\ UNCHANGED <<objectVars, readStrand, socketOpen, reading, writing,
                 historyVars>>

(* Mutant: the socket is shut down, but not closed.                        *)
CloseSocketOnly ==
  /\ SocketTurn("close")
  /\ socketStrand' = Tail(socketStrand)
  /\ writeQueue' = <<>>
  /\ AbortSome
  /\ closes' = closes + 1
  /\ UNCHANGED <<stage, isConnected, closing, readStrand, socketOpen, reading,
                 writing, received, delivered, wire>>

CloseSocket ==
  /\ SocketTurn("close")
  /\ socketStrand' = Tail(socketStrand)
  /\ writeQueue' = <<>>
  /\ socketOpen' = FALSE
  /\ AbortSome
  /\ closes' = closes + 1
  /\ UNCHANGED <<stage, isConnected, closing, readStrand, reading, writing,
                 received, delivered, wire>>

-----------------------------------------------------------------------------
(* Asio, the TLS stream and the web server.                                *)

CompleteRead(result) ==
  /\ reading # "none"
  /\ result = "aborted" <=> "read" \in doomed
  /\ result = "empty" => reading = "read"
  /\ reading' = "none"
  /\ doomed' = doomed \ {"read"}
  /\ socketStrand' =
       Append(socketStrand,
              Completion(IF reading = "read" THEN "handleRead"
                         ELSE "handleHandshake", result))
  /\ IF reading = "read" /\ result = "ok"
     THEN /\ received < MaxReads
          /\ Len(socketStrand) <= MaxBacklog
          /\ received' = received + 1
     ELSE UNCHANGED received
  /\ UNCHANGED <<objectVars, readStrand, socketOpen, writing, delivered,
                 wire, closes>>

CompleteWrite(result) ==
  /\ writing # NoMessage
  /\ result # "empty"
  /\ result = "aborted" <=> "write" \in doomed
  /\ writing' = NoMessage
  /\ doomed' = doomed \ {"write"}
  /\ socketStrand' = Append(socketStrand, Completion("handleWrite", result))
  /\ wire' = IF result = "ok" THEN Append(wire, writing) ELSE wire
  /\ UNCHANGED <<objectVars, readStrand, socketOpen, reading, received,
                 delivered, closes>>

-----------------------------------------------------------------------------

Init ==
  /\ stage = "new"
  /\ isConnected = FALSE
  /\ writeQueue = <<>>
  /\ socketStrand = <<>>
  /\ readStrand = <<>>
  /\ closing = {}
  /\ socketOpen = TRUE
  /\ reading = "none"
  /\ writing = NoMessage
  /\ doomed = {}
  /\ received = 0
  /\ delivered = 0
  /\ wire = <<>>
  /\ closes = 0

SocketStep ==
  \/ AsyncHandshake \/ HandleHandshake \/ HandleRead
  \/ AsyncWrite \/ HandleWrite \/ CancelSocket \/ CloseSocket

(* Ends that cannot fail to come.                                          *)
EndRead ==
  /\ "read" \in doomed \/ ~socketOpen
  /\ \E result \in Result : CompleteRead(result)

EndWrite ==
  /\ "write" \in doomed \/ ~socketOpen
  /\ \E result \in Result : CompleteWrite(result)

Next ==
  \/ Resolve
  \/ HandleResolve
  \/ HandleConnect
  \/ SocketStep
  \/ Receive
  \/ \E context \in Context : CommitClose(context)
  \/ \E result \in Result : CompleteRead(result) \/ CompleteWrite(result)

Spec == Init /\ [][Next]_vars

(* The pool runs what is ready; an operation ends if it was aborted or its *)
(* socket is closed.  The network owes nothing.                            *)
FairSpec ==
  /\ Spec
  /\ WF_vars(SocketStep)
  /\ WF_vars(Receive)
  /\ \A context \in Context : WF_vars(CommitClose(context))
  /\ WF_vars(EndRead)
  /\ WF_vars(EndWrite)

-----------------------------------------------------------------------------

(* Type invariant.                                                         *)
TypeOK ==
  /\ stage \in {"new", "resolving", "connecting", "opening", "open",
                "abandoned"}
  /\ isConnected \in BOOLEAN
  /\ writeQueue \in Seq(Outgoing)
  /\ socketStrand \in Seq(SocketTask)
  /\ readStrand \in Seq(1 .. MaxReads)
  /\ closing \subseteq Context
  /\ socketOpen \in BOOLEAN
  /\ reading \in {"none", "handshake", "read"}
  /\ writing \in Outgoing \cup {NoMessage}
  /\ doomed \subseteq {"read", "write"}
  /\ received \in 0 .. MaxReads
  /\ delivered \in 0 .. MaxReads
  /\ wire \in Seq(Outgoing)
  /\ closes \in Nat

Waiting(ops) == {i \in DOMAIN socketStrand : socketStrand[i].op \in ops}
WriteTurns == Waiting({"asyncWrite", "handleWrite"})

(* One write at most is under way, from the post of asyncWrite() to the    *)
(* end of handleWrite(), and one more for each handler of close() that     *)
(* cleared the queue, although send() is called on two strands.  As long   *)
(* as the socket is open it writes the front of writeQueue_, which         *)
(* handleWrite() pops unseen.                                              *)
OneWriteOfFront ==
  LET inFlight == IF writing = NoMessage THEN 0 ELSE 1
      served == IF writeQueue = <<>> THEN 0 ELSE 1
  IN  /\ Cardinality(WriteTurns) + inFlight <= served + closes
      /\ socketOpen =>
           /\ writing # NoMessage =>
                writeQueue # <<>> /\ Head(writeQueue) = writing
           /\ \A i \in WriteTurns :
                socketStrand[i].op = "asyncWrite" =>
                  /\ writeQueue # <<>>
                  /\ socketStrand[i].message = Head(writeQueue)

(* A session that counts as connected is at work: its handshake or read is *)
(* in progress or the handler of it will run, and if there is a message in *)
(* writeQueue_ so is a write.  Without the first nobody would ever notice  *)
(* that the server hung up, without the second no send() would write.      *)
ConnectedIsBusy ==
  isConnected /\ closing = {} =>
    /\ \/ reading # "none"
       \/ Waiting({"asyncHandshake", "handleHandshake", "handleRead"}) # {}
    /\ writeQueue # <<>> => writing # NoMessage \/ WriteTurns # {}

(* A session that was closed, by whichever side and from however many      *)
(* strands at once, is let go: no handler or operation that holds a        *)
(* pointer to it is left.  Nothing else would delete it.                   *)
ClosedIsLetGo ==
  stage \in {"opening", "open"} /\ ~isConnected
  ~> /\ socketStrand = <<>> /\ readStrand = <<>>
     /\ reading = "none" /\ writing = NoMessage

(* Messages accepted and neither sent nor lost, as in SessionProperties.   *)
Outbox ==
  LET inFlight == IF writing # NoMessage THEN <<writing>> ELSE <<>>
      written == writing # NoMessage \/ Waiting({"handleWrite"}) # {}
      waiting == IF ~socketOpen THEN <<>>
                 ELSE IF written THEN Dequeue(writeQueue) ELSE writeQueue
  IN  inFlight \o waiting

(* It is being closed, or no longer connected, or a write has failed.      *)
Failing ==
  \/ closing # {}
  \/ stage \in {"opening", "open"} /\ ~isConnected
  \/ \E i \in Waiting({"handleWrite"}) : socketStrand[i].result # "ok"

Promise == INSTANCE SessionPromise WITH
  Payload <- 1 .. MaxReads,
  Requests <- TRUE,
  Answers <- {reply = "send" : reply \in Replies},
  opened <- stage = "open",
  failing <- Failing,
  closed <- ~socketOpen,
  outbox <- Outbox

(* ClientHTTPSession keeps the promise of Session: opened once, closed     *)
(* once, messages in order and none twice, in both directions.             *)
KeepsPromise == Promise!Spec

=============================================================================
