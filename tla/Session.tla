------------------------------ MODULE Session -------------------------------
(***************************************************************************)
(* Net::Session: one TLS connection, driven by handlers that Boost.Asio    *)
(* runs on the threads of a pool.  Three strands serialise the handlers    *)
(* (socketStrand_, readStrand_, readTimerStrand_); handlers of different   *)
(* strands, and the calls of the session's owner, run concurrently.  They  *)
(* share writeQueue_, under queueMutex_, and isConnected_, under nothing.  *)
(*                                                                         *)
(* The owner is Net::Server (the session joins the SessionManager, answers *)
(* each request, may be closed by Server::stop) or Net::Client (the        *)
(* session sends one request, is dropped on the answer, and is cancelled   *)
(* by the request's timer).                                                *)
(*                                                                         *)
(* One step is one handler, except that close() is two steps: it reads     *)
(* isConnected_ in one and writes it in the other, as nothing keeps two    *)
(* strands from both reading TRUE.                                         *)
(***************************************************************************)
EXTENDS Integers, Sequences, WriteQueue

CONSTANTS
  Role,         \* "server" or "client": who configured the session
  Frames,       \* the frames the peer may send
  MaxFrames,    \* bound: how many frames the peer sends before it is silent
  MaxBacklog,   \* bound: a new frame, or the expiry of the read timer, finds
                \*   at most this many handlers waiting in its strand
  MaxTimeOut,   \* MaxTimeOut, counted in periods of the read timer
  Faults,       \* what may disturb the session, besides a silent peer
  Periods       \* how much time one expiry of the read timer may take

(* What a reader tells apart in a received frame: the type of the header   *)
(* ("Other" is Invalid, Last and beyond), whether its size is 0, and       *)
(* whether verifyHeader() and verifyBody() accept it.                      *)
Frame == [type : MessageType \cup {"Other"}, empty : BOOLEAN,
          headerOk : BOOLEAN, bodyOk : BOOLEAN]

(* A MetaMessage into which nothing was read yet.                          *)
BlankFrame ==
  [type |-> "Other", empty |-> TRUE, headerOk |-> FALSE, bodyOk |-> FALSE]

ASSUME SessionAssumption ==
  /\ Role \in {"server", "client"}
  /\ Frames \subseteq Frame
  /\ MaxFrames \in Nat
  /\ MaxBacklog \in Nat
  /\ MaxTimeOut \in Nat
  /\ Faults \subseteq {"network", "owner", "memory"}
  /\ Periods \subseteq Nat

VARIABLES
  stage,        \* "new", "opening" after open(), "open" after openHandler_
  isConnected,  \* isConnected_
  writeQueue,   \* writeQueue_
  socketStrand, \* handlers posted to socketStrand_, oldest first
  readStrand,   \* payloads posted to readStrand_ for receiveHandler_
  timerStrand,  \* handlers posted to readTimerStrand_
  closing,      \* contexts inside close(), past the test of isConnected_
  socketOpen,   \* FALSE once the socket was closed
  reading,      \* the handshake or read in progress, "none" if there is none
  incoming,     \* the MetaMessage the last header was read into
  writing,      \* the message being written, NoMessage if there is none
  doomed,       \* the operations among "read", "write" that will end aborted
  timerArmed,   \* readTimer_ has a wait that has not expired
  fired,        \* expired waits whose handleReadTimeOut has not run
  idle,         \* now - lastTimeRead_, counted in periods, cut off
  ownerActed,   \* the server's close() or the client's cancel was called
  received,     \* history: frames whose header was read; names a payload
  delivered,    \* history: the last payload given to receiveHandler_
  wire,         \* history: payloads of the Data frames written in full
  closes,       \* history: calls of closeHandler_
  asked         \* history: a Ping was sent after the session heard the peer,
                \*   at the time that lastTimeRead_ holds

objectVars == <<stage, isConnected, writeQueue, closing, ownerActed>>
strandVars == <<socketStrand, readStrand, timerStrand>>
socketVars == <<socketOpen, reading, incoming, writing, doomed>>
timerVars == <<timerArmed, fired, idle, asked>>
historyVars == <<received, delivered, wire, closes>>
vars == <<objectVars, strandVars, socketVars, timerVars, historyVars>>

-----------------------------------------------------------------------------
(* Handlers waiting in the strands.                                        *)

NoMessage == [type |-> "None", id |-> 0]

Error == {"ok", "aborted", "error"}

SocketTask == [op : {"asyncHandshake", "handleHandshake", "handleReadHeader",
                     "handleReadBody", "asyncWrite", "handleWrite",
                     "cancel", "close"},
               error : Error,
               message : Message \cup {NoMessage}]

(* "again" is the restartReadTimer() that follows a ping().                *)
TimerTask == {"stamp", "restart", "again", "cancel", "timeout"}

Task(op) == [op |-> op, error |-> "ok", message |-> NoMessage]
Completion(op, error) == [op |-> op, error |-> error, message |-> NoMessage]
WriteTask(m) == [op |-> "asyncWrite", error |-> "ok", message |-> m]

(* Where close() can be called from.  "write" is handleWrite(), which runs *)
(* on socketStrand_ and calls close() with queueMutex_ held; "owner" is    *)
(* the strand of the SessionManager.                                       *)
Context == {"socket", "write", "read", "timer", "owner"}

SocketStrandFree == closing \cap {"socket", "write"} = {}
QueueMutexFree == "write" \notin closing

(* The strand is about to run a handler of this name.                      *)
SocketTurn(op) ==
  /\ SocketStrandFree
  /\ socketStrand # <<>>
  /\ Head(socketStrand).op = op

ReadTurn == readStrand # <<>> /\ "read" \notin closing

TimerTurn(task) ==
  /\ "timer" \notin closing
  /\ timerStrand # <<>>
  /\ Head(timerStrand) = task

-----------------------------------------------------------------------------
(* send() and writeNext().  "strand" is socketStrand as it is when the     *)
(* call is made.                                                           *)

(* Mutant: post a write for every message, in progress or not.             *)
PostAlways(q, m, strand) == Append(strand, WriteTask(m))

PostIfIdle(q, m, strand) ==
  IF q = <<>> THEN Append(strand, WriteTask(m)) ELSE strand

(* Mutant: the completion of a write does not start the next one.          *)
PostNothing(q, strand) == strand

WriteNext(q, strand) ==
  IF q # <<>> THEN Append(strand, WriteTask(Head(q))) ELSE strand

Send(m, strand) ==
  /\ writeQueue' = Enqueue(writeQueue, m)
  /\ socketStrand' = PostIfIdle(writeQueue, m, strand)

-----------------------------------------------------------------------------
(* close(), up to and including the test of isConnected_, whose value is   *)
(* "connected".                                                            *)

(* Mutant: the test is missing.                                            *)
CallCloseUntested(context, connected, strand, timers) ==
  /\ socketStrand' = Append(strand, Task("cancel"))
  /\ timerStrand' = Append(timers, "cancel")
  /\ closing' = closing \cup {context}

CallClose(context, connected, strand, timers) ==
  /\ socketStrand' = Append(strand, Task("cancel"))
  /\ timerStrand' = Append(timers, "cancel")
  /\ closing' = IF connected THEN closing \cup {context} ELSE closing

(* Mutant: isConnected_ is left as it is.                                  *)
CommitCloseConnected(context) ==
  /\ context \in closing
  /\ closing' = closing \ {context}
  /\ socketStrand' = Append(socketStrand, Task("close"))
  /\ UNCHANGED <<stage, isConnected, writeQueue, ownerActed, readStrand,
                 timerStrand, socketVars, timerVars, historyVars>>

(* close(), from the assignment of isConnected_ on.                        *)
CommitClose(context) ==
  /\ context \in closing
  /\ closing' = closing \ {context}
  /\ isConnected' = FALSE
  /\ socketStrand' = Append(socketStrand, Task("close"))
  /\ UNCHANGED <<stage, writeQueue, ownerActed, readStrand, timerStrand,
                 socketVars, timerVars, historyVars>>

-----------------------------------------------------------------------------
(* Opening.                                                                *)

(* open(), called once: by Server::handleAccept or by the handler of the   *)
(* client's async_connect, whatever that connect returned.                 *)
Open ==
  /\ stage = "new"
  /\ ~isConnected
  /\ stage' = "opening"
  /\ isConnected' = TRUE
  /\ socketStrand' = Append(socketStrand, Task("asyncHandshake"))
  /\ UNCHANGED <<writeQueue, closing, ownerActed, readStrand, timerStrand,
                 socketVars, timerVars, historyVars>>

AsyncHandshake ==
  /\ SocketTurn("asyncHandshake")
  /\ socketStrand' = Tail(socketStrand)
  /\ reading' = "handshake"
  /\ UNCHANGED <<objectVars, readStrand, timerStrand, socketOpen, incoming,
                 writing, doomed, timerVars, historyVars>>

(* openHandler_: the server's is SessionManager::join, which only posts to *)
(* the manager's strand; the client's sends the request.                   *)
OpenHandler(strand) ==
  IF Role = "client"
  THEN Send(Data(1), strand)
  ELSE writeQueue' = writeQueue /\ socketStrand' = strand

(* Mutant: lastTimeRead_ keeps its first value.                            *)
HandshakeSucceededUnstamped ==
  /\ Head(socketStrand).error = "ok"
  /\ timerStrand' = Append(timerStrand, "restart")
  /\ reading' = "header"
  /\ stage' = "open"
  /\ OpenHandler(Tail(socketStrand))
  /\ UNCHANGED closing

HandshakeSucceeded ==
  /\ Head(socketStrand).error = "ok"
  /\ timerStrand' = Append(Append(timerStrand, "stamp"), "restart")
  /\ reading' = "header"
  /\ stage' = "open"
  /\ OpenHandler(Tail(socketStrand))
  /\ UNCHANGED closing

HandshakeAborted ==
  /\ Head(socketStrand).error = "aborted"
  /\ socketStrand' = Tail(socketStrand)
  /\ UNCHANGED <<timerStrand, reading, stage, writeQueue, closing>>

HandshakeFailed ==
  /\ Head(socketStrand).error = "error"
  /\ CallClose("socket", TRUE, Tail(socketStrand), timerStrand)
  /\ UNCHANGED <<reading, stage, writeQueue>>

HandleHandshake ==
  /\ SocketTurn("handleHandshake")
  /\ isConnected' = TRUE
  /\ HandshakeSucceeded \/ HandshakeAborted \/ HandshakeFailed
  /\ UNCHANGED <<ownerActed, readStrand, socketOpen, incoming, writing,
                 doomed, timerVars, historyVars>>

-----------------------------------------------------------------------------
(* Reading.                                                                *)

(* Mutant: the payload of the frame before is passed on.                   *)
OnMessageReceivedStale(strand) ==
  /\ IF incoming.type = "Ping"
     THEN Send(Pong, strand)
     ELSE writeQueue' = writeQueue /\ socketStrand' = strand
  /\ readStrand' = IF incoming.type = "Data" /\ isConnected
                   THEN Append(readStrand, received - 1)
                   ELSE readStrand

(* onMessageReceived() and handleMessage(): answer a Ping, pass Data on,   *)
(* ignore a Pong and log anything else.                                    *)
OnMessageReceived(strand) ==
  /\ IF incoming.type = "Ping"
     THEN Send(Pong, strand)
     ELSE writeQueue' = writeQueue /\ socketStrand' = strand
  /\ readStrand' = IF incoming.type = "Data" /\ isConnected
                   THEN Append(readStrand, received)
                   ELSE readStrand

(* Mutant: the read that follows is not guarded by the read timer.         *)
StartReadUnguarded(op) ==
  /\ reading' = op
  /\ incoming' = IF op = "header" THEN BlankFrame ELSE incoming
  /\ timerStrand' = Append(timerStrand, "cancel")

(* readNext() or asyncReadBody(), called by a handler that began with      *)
(* cancelReadTimer().                                                      *)
StartRead(op) ==
  /\ reading' = op
  /\ incoming' = IF op = "header" THEN BlankFrame ELSE incoming
  /\ timerStrand' = Append(Append(timerStrand, "cancel"), "restart")

(* A read handler that only ran cancelReadTimer().                         *)
ReadAbandoned ==
  /\ socketStrand' = Tail(socketStrand)
  /\ timerStrand' = Append(timerStrand, "cancel")
  /\ UNCHANGED <<writeQueue, readStrand, closing, reading, incoming>>

ReadFailed ==
  /\ CallClose("socket", isConnected, Tail(socketStrand),
               Append(timerStrand, "cancel"))
  /\ UNCHANGED <<writeQueue, readStrand, reading, incoming>>

MessageRead ==
  /\ OnMessageReceived(Tail(socketStrand))
  /\ StartRead("header")
  /\ UNCHANGED closing

BodyFollows ==
  /\ StartRead("body")
  /\ socketStrand' = Tail(socketStrand)
  /\ UNCHANGED <<writeQueue, readStrand, closing>>

(* For the body, fitToSize() makes room for the size the header states,    *)
(* whatever it is; when that throws, the thread of the pool goes on.       *)
HandleReadHeader ==
  /\ SocketTurn("handleReadHeader")
  /\ \/ Head(socketStrand).error = "aborted" /\ ReadAbandoned
     \/ Head(socketStrand).error = "error" /\ ReadFailed
     \/ /\ Head(socketStrand).error = "ok"
        /\ \/ ~incoming.headerOk /\ ReadFailed
           \/ incoming.headerOk /\ incoming.empty /\ MessageRead
           \/ /\ incoming.headerOk /\ ~incoming.empty
              /\ BodyFollows \/ ("memory" \in Faults /\ ReadAbandoned)
  /\ UNCHANGED <<stage, isConnected, ownerActed, socketOpen, writing, doomed,
                 timerVars, historyVars>>

HandleReadBody ==
  /\ SocketTurn("handleReadBody")
  /\ \/ Head(socketStrand).error = "aborted" /\ ReadAbandoned
     \/ Head(socketStrand).error = "error" /\ ReadFailed
     \/ /\ Head(socketStrand).error = "ok"
        /\ \/ ~incoming.bodyOk /\ ReadFailed
           \/ incoming.bodyOk /\ MessageRead
  /\ UNCHANGED <<stage, isConnected, ownerActed, socketOpen, writing, doomed,
                 timerVars, historyVars>>

(* The server's receiveHandler_ is the onReceived() of the program's       *)
(* handler mapper, which answers whatever it is given.                     *)
OnReceived(payload) ==
  /\ Role = "server"
  /\ QueueMutexFree
  /\ Send(Data(payload), socketStrand)
  /\ UNCHANGED <<timerStrand, closing>>

(* The client's hands the answer over and drops the session.               *)
ReceivedHandle ==
  /\ Role = "client"
  /\ CallClose("read", isConnected, socketStrand, timerStrand)
  /\ UNCHANGED writeQueue

(* receiveHandler_ on readStrand_.                                         *)
Receive ==
  /\ ReadTurn
  /\ readStrand' = Tail(readStrand)
  /\ delivered' = Head(readStrand)
  /\ OnReceived(Head(readStrand)) \/ ReceivedHandle
  /\ UNCHANGED <<stage, isConnected, ownerActed, socketVars, timerVars,
                 received, wire, closes>>

-----------------------------------------------------------------------------
(* Writing.                                                                *)

(* asyncWrite().  On a closed socket the write fails without waiting for   *)
(* anything.                                                               *)
AsyncWrite ==
  /\ SocketTurn("asyncWrite")
  /\ IF socketOpen
     THEN /\ writing' = Head(socketStrand).message
          /\ socketStrand' = Tail(socketStrand)
     ELSE /\ socketStrand' =
               Append(Tail(socketStrand), Completion("handleWrite", "error"))
          /\ UNCHANGED writing
  /\ UNCHANGED <<objectVars, readStrand, timerStrand, socketOpen, reading,
                 incoming, doomed, timerVars, historyVars>>

(* Mutant: the next message is looked up before the front is popped.       *)
HandleWriteSwapped ==
  /\ SocketTurn("handleWrite")
  /\ writeQueue' = Dequeue(writeQueue)
  /\ LET rest == Tail(socketStrand) IN
     \/ /\ Head(socketStrand).error = "ok"
        /\ socketStrand' = WriteNext(writeQueue, rest)
        /\ UNCHANGED <<timerStrand, closing>>
     \/ /\ Head(socketStrand).error = "aborted"
        /\ socketStrand' = rest
        /\ UNCHANGED <<timerStrand, closing>>
     \/ /\ Head(socketStrand).error = "error"
        /\ CallClose("write", isConnected, rest, timerStrand)
  /\ UNCHANGED <<stage, isConnected, ownerActed, readStrand, socketVars,
                 timerVars, historyVars>>

(* handleWrite(): pop the front; then write the next message, or close()   *)
(* on an error, or leave the queue alone if the write was aborted.         *)
HandleWrite ==
  /\ SocketTurn("handleWrite")
  /\ writeQueue' = Dequeue(writeQueue)
  /\ LET rest == Tail(socketStrand) IN
     \/ /\ Head(socketStrand).error = "ok"
        /\ socketStrand' = WriteNext(Dequeue(writeQueue), rest)
        /\ UNCHANGED <<timerStrand, closing>>
     \/ /\ Head(socketStrand).error = "aborted"
        /\ socketStrand' = rest
        /\ UNCHANGED <<timerStrand, closing>>
     \/ /\ Head(socketStrand).error = "error"
        /\ CallClose("write", isConnected, rest, timerStrand)
  /\ UNCHANGED <<stage, isConnected, ownerActed, readStrand, socketVars,
                 timerVars, historyVars>>

-----------------------------------------------------------------------------
(* Closing.                                                                *)

Pending == (IF reading = "none" THEN {} ELSE {"read"})
           \cup (IF writing = NoMessage THEN {} ELSE {"write"})

(* Cancelling or closing the socket aborts the operations that wait in the *)
(* reactor.  One whose intermediate handler is already on its way goes on: *)
(* it starts its next part afterwards.                                     *)
AbortSome == \E hit \in SUBSET Pending : doomed' = doomed \cup hit

(* The handler posted by cancelAllPendingOperations().                     *)
CancelSocket ==
  /\ SocketTurn("cancel")
  /\ socketStrand' = Tail(socketStrand)
  /\ AbortSome
  /\ UNCHANGED <<objectVars, readStrand, timerStrand, socketOpen, reading,
                 incoming, writing, timerVars, historyVars>>

(* The handler posted by close(): clear the queue, close the socket, call  *)
(* closeHandler_ (the server's is SessionManager::leave, which only posts  *)
(* to the manager's strand; the client's does nothing).                    *)
CloseSocket ==
  /\ SocketTurn("close")
  /\ socketStrand' = Tail(socketStrand)
  /\ writeQueue' = <<>>
  /\ socketOpen' = FALSE
  /\ AbortSome
  /\ closes' = closes + 1
  /\ UNCHANGED <<stage, isConnected, closing, ownerActed, readStrand,
                 timerStrand, reading, incoming, writing,
                 timerVars, received, delivered, wire>>

(* Server::stop, through SessionManager::forEach: the session joined, so   *)
(* openHandler_ ran before.                                                *)
OwnerClose ==
  /\ Role = "server"
  /\ stage = "open"
  /\ ~ownerActed
  /\ "owner" \in Faults
  /\ ownerActed' = TRUE
  /\ CallClose("owner", isConnected, socketStrand, timerStrand)
  /\ UNCHANGED <<stage, isConnected, writeQueue, readStrand, socketVars,
                 timerVars, historyVars>>

(* The timer of Client::request, started before open(), has expired.       *)
OwnerCancel ==
  /\ Role = "client"
  /\ stage # "new"
  /\ ~ownerActed
  /\ "owner" \in Faults
  /\ ownerActed' = TRUE
  /\ socketStrand' = Append(socketStrand, Task("cancel"))
  /\ UNCHANGED <<stage, isConnected, writeQueue, closing, readStrand,
                 timerStrand, socketVars, timerVars, historyVars>>

-----------------------------------------------------------------------------
(* The read timer.  A wait that restartReadTimer() or cancelReadTimer()    *)
(* aborts runs handleReadTimeOut(operation_aborted), which returns at      *)
(* once; one that expired before is past cancelling.                       *)

RunTimerTask(task) ==
  /\ TimerTurn(task)
  /\ timerStrand' = Tail(timerStrand)
  /\ UNCHANGED <<objectVars, socketStrand, readStrand, socketVars, fired,
                 historyVars>>

(* lastTimeRead_ is set by a handler, posted when the peer was heard: of   *)
(* the pings, those count that were sent after that post.                  *)
SetLastTimeRead ==
  /\ idle' = 0
  /\ asked' = \E i \in DOMAIN timerStrand : timerStrand[i] = "again"

(* Posted by handleHandshake(): the first value of lastTimeRead_.          *)
StampLastTimeRead ==
  /\ RunTimerTask("stamp")
  /\ SetLastTimeRead
  /\ UNCHANGED timerArmed

RestartReadTimer ==
  /\ RunTimerTask("restart") \/ RunTimerTask("again")
  /\ timerArmed' = TRUE
  /\ UNCHANGED <<idle, asked>>

CancelReadTimer ==
  /\ RunTimerTask("cancel")
  /\ SetLastTimeRead
  /\ timerArmed' = FALSE

(* The timer expires: time has passed.  Beyond MaxTimeOut the exact value  *)
(* of idle does not matter.                                                *)
TimerExpires ==
  /\ timerArmed
  /\ fired + Len(timerStrand) <= MaxBacklog
  /\ timerArmed' = FALSE
  /\ fired' = fired + 1
  /\ \E p \in Periods :
       idle' = IF idle + p > MaxTimeOut THEN MaxTimeOut + 1 ELSE idle + p
  /\ UNCHANGED <<objectVars, strandVars, socketVars, asked, historyVars>>

(* handleReadTimeOut() on any thread, for a wait that expired.             *)
HandleReadTimeOut ==
  /\ fired > 0
  /\ fired' = fired - 1
  /\ timerStrand' = Append(timerStrand, "timeout")
  /\ UNCHANGED <<objectVars, socketStrand, readStrand, socketVars,
                 timerArmed, idle, asked, historyVars>>

(* Mutant: ping() without restartReadTimer().                              *)
CheckReadTimeOutOnce ==
  /\ TimerTurn("timeout")
  /\ \/ /\ idle > MaxTimeOut
        /\ CallClose("timer", isConnected, socketStrand, Tail(timerStrand))
        /\ UNCHANGED <<writeQueue, asked>>
     \/ /\ idle <= MaxTimeOut
        /\ QueueMutexFree
        /\ Send(Ping, socketStrand)
        /\ asked' = TRUE
        /\ timerStrand' = Tail(timerStrand)
        /\ UNCHANGED closing
  /\ UNCHANGED <<stage, isConnected, ownerActed, readStrand, socketVars,
                 timerArmed, fired, idle, historyVars>>

(* The handler it posts: close() after a long silence, else ping() and     *)
(* restartReadTimer().                                                     *)
CheckReadTimeOut ==
  /\ TimerTurn("timeout")
  /\ \/ /\ idle > MaxTimeOut
        /\ CallClose("timer", isConnected, socketStrand, Tail(timerStrand))
        /\ UNCHANGED <<writeQueue, asked>>
     \/ /\ idle <= MaxTimeOut
        /\ QueueMutexFree
        /\ Send(Ping, socketStrand)
        /\ asked' = TRUE
        /\ timerStrand' = Append(Tail(timerStrand), "again")
        /\ UNCHANGED closing
  /\ UNCHANGED <<stage, isConnected, ownerActed, readStrand, socketVars,
                 timerArmed, fired, idle, historyVars>>

-----------------------------------------------------------------------------
(* Asio, the TLS stream and the peer.                                      *)

CompletionHandler ==
  [handshake |-> "handleHandshake", header |-> "handleReadHeader",
   body |-> "handleReadBody"]

(* The handshake or read ends: aborted if it was, else with success or an  *)
(* error.  A read may succeed after the socket was closed, when the TLS    *)
(* stream already holds the bytes.                                         *)
CompleteRead(error) ==
  /\ reading # "none"
  /\ error = "aborted" <=> "read" \in doomed
  /\ error = "error" => ~socketOpen \/ "network" \in Faults
  /\ reading' = "none"
  /\ doomed' = doomed \ {"read"}
  /\ socketStrand' =
       Append(socketStrand, Completion(CompletionHandler[reading], error))
  /\ IF reading = "header" /\ error = "ok"
     THEN /\ received < MaxFrames
          /\ Len(socketStrand) <= MaxBacklog
          /\ received' = received + 1
          /\ incoming' \in Frames
     ELSE UNCHANGED <<received, incoming>>
  /\ UNCHANGED <<objectVars, readStrand, timerStrand, socketOpen, writing,
                 timerVars, delivered, wire, closes>>

(* The write in progress ends.                                             *)
CompleteWrite(error) ==
  /\ writing # NoMessage
  /\ error = "aborted" <=> "write" \in doomed
  /\ error = "error" => ~socketOpen \/ "network" \in Faults
  /\ writing' = NoMessage
  /\ doomed' = doomed \ {"write"}
  /\ socketStrand' = Append(socketStrand, Completion("handleWrite", error))
  /\ wire' = IF error = "ok" /\ writing.type = "Data"
             THEN Append(wire, writing.id)
             ELSE wire
  /\ UNCHANGED <<objectVars, readStrand, timerStrand, socketOpen, reading,
                 incoming, timerVars, received, delivered, closes>>

-----------------------------------------------------------------------------

Init ==
  /\ stage = "new"
  /\ isConnected = FALSE
  /\ writeQueue = <<>>
  /\ socketStrand = <<>>
  /\ readStrand = <<>>
  /\ timerStrand = <<>>
  /\ closing = {}
  /\ socketOpen = TRUE
  /\ reading = "none"
  /\ incoming = BlankFrame
  /\ writing = NoMessage
  /\ doomed = {}
  /\ timerArmed = FALSE
  /\ fired = 0
  /\ idle = MaxTimeOut + 1      \* lastTimeRead_ starts at the clock's epoch
  /\ ownerActed = FALSE
  /\ received = 0
  /\ delivered = 0
  /\ wire = <<>>
  /\ closes = 0
  /\ asked = FALSE

SocketStep ==
  \/ AsyncHandshake \/ HandleHandshake \/ HandleReadHeader \/ HandleReadBody
  \/ AsyncWrite \/ HandleWrite \/ CancelSocket \/ CloseSocket

TimerStep ==
  \/ StampLastTimeRead \/ RestartReadTimer \/ CancelReadTimer
  \/ CheckReadTimeOut

(* Ends that cannot fail to come.                                          *)
EndRead ==
  /\ "read" \in doomed \/ ~socketOpen
  /\ \E error \in Error : CompleteRead(error)

EndWrite ==
  /\ "write" \in doomed \/ ~socketOpen
  /\ \E error \in Error : CompleteWrite(error)

OwnerStep == Open \/ OwnerClose \/ OwnerCancel

NetworkStep ==
  \E error \in Error : CompleteRead(error) \/ CompleteWrite(error)

Next ==
  \/ OwnerStep
  \/ SocketStep
  \/ Receive
  \/ TimerStep
  \/ \E context \in Context : CommitClose(context)
  \/ TimerExpires
  \/ HandleReadTimeOut
  \/ NetworkStep

Spec == Init /\ [][Next]_vars

(* The pool runs every handler that is ready and the clock goes on; an     *)
(* operation ends if it was aborted or the socket is closed.  Nothing      *)
(* obliges the peer to answer or to read.                                  *)
Fairness ==
  /\ WF_vars(SocketStep)
  /\ WF_vars(Receive)
  /\ WF_vars(TimerStep)
  /\ \A context \in Context : WF_vars(CommitClose(context))
  /\ WF_vars(TimerExpires)
  /\ WF_vars(HandleReadTimeOut)
  /\ WF_vars(EndRead)
  /\ WF_vars(EndWrite)

FairSpec == Spec /\ Fairness

=============================================================================
