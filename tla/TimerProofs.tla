---------------------------- MODULE TimerProofs -----------------------------
(***************************************************************************)
(* The two users of Timer: one request of Client, for every number of      *)
(* answers, and the periodic timer, for every number of calls of cancel(). *)
(* What a user can count on after cancel() hangs on the order in which the *)
(* one strand of the timer runs what was posted to it.                     *)
(***************************************************************************)
EXTENDS ClientRequest, PeriodicTimer, StrandLemmas

-----------------------------------------------------------------------------
(* The request: its time-out, and the cancel() that an answer brings.      *)

Starts == {Start(TimeOut)}

Cancels == {Cancel}

(* The handlers that lead to a call of onError.                            *)
Pending == {Start(TimeOut), Fire(TimeOut)}

Tasks == Pending \cup Cancels

(* The types, and what the request posts to the strand of its timer.       *)
TypeInv ==
  /\ TypeOK
  /\ arrived <= MaxAnswers
  /\ timerStrand \in Seq(Tasks)
  /\ wait \in {NoWait, TimeOut}

(* Until async_connect has ended nobody has started the timer, and the     *)
(* session has read nothing.                                               *)
Untouched ==
  stage \in {"new", "connecting"} =>
    wait = NoWait /\ timerStrand = <<>> /\ errors = 0 /\ arrived = 0

(* The one time-out of a request waits to start, runs, has expired or has  *)
(* been reported, and is in one of these states only.                      *)
OneTimeOut ==
  /\ AtMostOneWaits(Pending, timerStrand)
  /\ wait # NoWait => ~Waits(Pending, timerStrand)
  /\ errors \in {0, 1}
  /\ errors = 1 => wait = NoWait /\ ~Waits(Pending, timerStrand)

(* The cancel() of receivedHandle stands behind the start() that it is     *)
(* meant for, until it has stopped the wait.                               *)
CancelInv ==
  answered > 0 =>
    /\ Followed(Starts, Cancels, timerStrand)
    /\ wait # NoWait => Waits(Cancels, timerStrand)

IInv == TypeInv /\ Untouched /\ OneTimeOut /\ CancelInv

-----------------------------------------------------------------------------

(* What the request posts, and how its handlers differ.                    *)
LEMMA TaskFacts ==
  /\ Tasks \subseteq TimerTask
  /\ Start(TimeOut) \in Tasks /\ Fire(TimeOut) \in Tasks /\ Cancel \in Tasks
  /\ TimeOut \in Handle /\ TimeOut # NoWait
  /\ Start(TimeOut) \in Pending /\ Fire(TimeOut) \in Pending
  /\ Cancel \notin Pending
  /\ Start(TimeOut) \in Starts /\ Fire(TimeOut) \notin Starts
  /\ Cancel \notin Starts
  /\ Start(TimeOut) \notin Cancels /\ Fire(TimeOut) \notin Cancels
  /\ Cancel \in Cancels
  /\ \A task \in Tasks :
       /\ task.op = "start" => task = Start(TimeOut)
       /\ task.op = "fire" => task = Fire(TimeOut)
       /\ task.op = "cancel" => task = Cancel
  /\ Start(TimeOut).handle = TimeOut
<1>. USE DEF Start, Fire, Cancel
<1>1. TimeOut \in Handle /\ NoHandle \in Handle /\ TimeOut # NoWait
  BY TimerAssumption DEF TimeOut, Handle, NoWait
<1>2. Tasks = {Start(TimeOut), Fire(TimeOut), Cancel}
  BY DEF Tasks, Pending, Cancels
<1>3. Tasks \subseteq TimerTask
  BY <1>1, <1>2 DEF TimerTask
<1>4. /\ Start(TimeOut).op = "start" /\ Start(TimeOut).handle = TimeOut
      /\ Fire(TimeOut).op = "fire" /\ Cancel.op = "cancel"
  OBVIOUS
<1>. HIDE DEF Start, Fire, Cancel
<1>. QED  BY <1>1, <1>2, <1>3, <1>4 DEF Pending, Starts, Cancels

(* The strand of the timer is one of the handlers that the request posts.  *)
LEMMA StrandTypes ==
  ASSUME NEW line \in Seq(Tasks)
  PROVE  line \in Seq(TimerTask)
<1>1. /\ Len(line) \in Nat
      /\ \A i \in 1 .. Len(line) : line[i] \in TimerTask
  BY ElementFacts, TaskFacts
<1>2. line = [i \in 1 .. Len(line) |-> line[i]]
  OBVIOUS
<1>. QED  BY <1>1, <1>2

(* What is known when the pool runs a handler of the timer's strand.       *)
LEMMA TurnFacts ==
  ASSUME TypeInv, NEW op, Turn(op)
  PROVE  /\ timerStrand # <<>>
         /\ timerStrand' = Tail(timerStrand)
         /\ timerStrand' \in Seq(Tasks)
         /\ Head(timerStrand) \in Tasks
         /\ op = "start" => Head(timerStrand) = Start(TimeOut)
         /\ op = "fire" => Head(timerStrand) = Fire(TimeOut)
         /\ op = "cancel" => Head(timerStrand) = Cancel
BY TailFacts, TaskFacts DEF TypeInv, Turn

-----------------------------------------------------------------------------

(* A request starts with an idle timer.                                    *)
LEMMA InitInv == Init => IInv
<1>. SUFFICES ASSUME Init PROVE IInv
  OBVIOUS
<1>1. TypeInv
  BY RequestAssumption, TimerAssumption
     DEF Init, TimerInit, TypeInv, TypeOK, TimerTypes, Handle
<1>2. Untouched
  BY DEF Init, TimerInit, Untouched
<1>3. OneTimeOut
  BY NoneWaits DEF Init, TimerInit, OneTimeOut
<1>4. CancelInv
  BY DEF Init, CancelInv
<1>. QED  BY <1>1, <1>2, <1>3, <1>4 DEF IInv

(* Each step preserves the types.                                          *)
LEMMA TypeStep == TypeInv /\ Untouched /\ [Next]_vars => TypeInv'
<1>. SUFFICES ASSUME TypeInv, Untouched, [Next]_vars PROVE TypeInv'
  OBVIOUS
<1>. USE DEF TypeInv, TypeOK, TimerTypes
<1>1. \A task \in Tasks : Post(task) => timerStrand' \in Seq(Tasks)
  BY AppendFacts DEF Post
<1>2. timerStrand' \in Seq(Tasks) => timerStrand' \in Seq(TimerTask)
  BY StrandTypes
<1>3. CASE Request
  BY <1>3, <1>2 DEF Request, timer
<1>4. CASE HandleConnect
  BY <1>4, <1>1, <1>2, TaskFacts DEF HandleConnect
<1>5. CASE OpenedHandle
  BY <1>5, <1>2 DEF OpenedHandle, timer
<1>6. CASE ClosedHandle
  BY <1>6, <1>2 DEF ClosedHandle, timer
<1>7. CASE AnswerArrives
  BY <1>7, <1>2, RequestAssumption DEF AnswerArrives, timer
<1>8. CASE ReceivedHandle
  BY <1>8, <1>1, <1>2, TaskFacts, RequestAssumption DEF ReceivedHandle
<1>9. CASE OnTimeOut
  BY <1>9, <1>2, TurnFacts DEF OnTimeOut, RunFire
<1>10. CASE TimerStep
  <2>1. CASE RunStart
    BY <1>10, <2>1, <1>2, TurnFacts, TaskFacts DEF TimerStep, RunStart
  <2>2. CASE RunCancel
    BY <1>10, <2>2, <1>2, TurnFacts DEF TimerStep, RunCancel, Handle
  <2>. QED  BY <1>10, <2>1, <2>2 DEF TimerStep
<1>11. CASE TimeGoesOn
  BY <1>11, <1>1, <1>2, TaskFacts DEF TimeGoesOn, Expire
<1>12. CASE Kill
  BY <1>12, <1>2 DEF Kill, timer
<1>13. CASE Killed
  BY <1>13, <1>2 DEF Killed, timer
<1>14. CASE UNCHANGED vars
  BY <1>14, <1>2 DEF vars, timer
<1>. QED
  BY <1>3, <1>4, <1>5, <1>6, <1>7, <1>8, <1>9, <1>10, <1>11, <1>12, <1>13,
     <1>14 DEF Next

(* The timer starts when the connect has ended, and not again.             *)
LEMMA UntouchedStep == TypeInv /\ Untouched /\ [Next]_vars => Untouched'
<1>. SUFFICES ASSUME TypeInv, Untouched, [Next]_vars,
                     stage' \in {"new", "connecting"}
              PROVE  /\ wait' = NoWait
                     /\ timerStrand' = <<>>
                     /\ errors' = 0
                     /\ arrived' = 0
  BY DEF Untouched
<1>1. stage \in {"new", "connecting"}
  BY DEF Next, vars, timer, Request, HandleConnect, OpenedHandle, ClosedHandle,
         AnswerArrives, ReceivedHandle, OnTimeOut, TimerStep, TimeGoesOn, Kill,
         Killed
<1>2. /\ wait = NoWait /\ timerStrand = <<>>
      /\ errors = 0 /\ arrived = 0 /\ answers = 0
  BY <1>1 DEF Untouched, TypeInv, TypeOK
<1>. QED
  BY <1>1, <1>2
     DEF Next, vars, timer, Request, HandleConnect, OpenedHandle, ClosedHandle,
         AnswerArrives, ReceivedHandle, OnTimeOut, RunFire, Turn, TimerStep,
         RunStart, RunCancel, TimeGoesOn, Expire, Kill, Killed

(* Each step preserves that there is one time-out: only the handler of     *)
(* async_connect posts a start(), the wait takes it from the strand, and   *)
(* the expiry puts it back as a fire, which is run once.                   *)
LEMMA OneTimeOutStep ==
  TypeInv /\ Untouched /\ OneTimeOut /\ [Next]_vars => OneTimeOut'
<1>. SUFFICES ASSUME TypeInv, Untouched, OneTimeOut, [Next]_vars
              PROVE  OneTimeOut'
  OBVIOUS
<1>1. timerStrand \in Seq(Tasks)
  BY DEF TypeInv
<1>2. CASE UNCHANGED <<wait, timerStrand, errors>>
  BY <1>2 DEF OneTimeOut
<1>3. CASE HandleConnect
  <2>1. wait = NoWait /\ timerStrand = <<>> /\ errors = 0
    BY <1>3 DEF Untouched, HandleConnect
  <2>2. ~Waits(Pending, timerStrand) /\ AtMostOneWaits(Pending, timerStrand)
    BY <2>1, NoneWaits
  <2>3. AtMostOneWaits(Pending, timerStrand')
    BY <1>1, <1>3, <2>2, WaitsAppend, TaskFacts DEF HandleConnect, Post
  <2>. QED  BY <1>3, <2>1, <2>3 DEF HandleConnect, OneTimeOut
<1>4. CASE ReceivedHandle
  <2>1. /\ Waits(Pending, timerStrand') <=> Waits(Pending, timerStrand)
        /\ AtMostOneWaits(Pending, timerStrand')
    BY <1>1, <1>4, WaitsAppend, TaskFacts DEF ReceivedHandle, Post, OneTimeOut
  <2>. QED  BY <1>4, <2>1 DEF ReceivedHandle, OneTimeOut
<1>5. CASE OnTimeOut
  <2>1. /\ timerStrand # <<>> /\ Head(timerStrand) \in Pending
        /\ timerStrand' = Tail(timerStrand)
    BY <1>5, TurnFacts, TaskFacts DEF OnTimeOut, RunFire
  <2>2. /\ Waits(Pending, timerStrand)
        /\ ~Waits(Pending, timerStrand')
        /\ AtMostOneWaits(Pending, timerStrand')
    BY <1>1, <2>1, WaitsTail DEF OneTimeOut
  <2>3. wait = NoWait /\ errors = 0
    BY <2>2 DEF OneTimeOut
  <2>. QED  BY <1>5, <2>2, <2>3 DEF OnTimeOut, RunFire, OneTimeOut
<1>6. CASE TimerStep /\ RunStart
  <2>1. /\ timerStrand # <<>> /\ Head(timerStrand) \in Pending
        /\ timerStrand' = Tail(timerStrand)
    BY <1>6, TurnFacts, TaskFacts DEF RunStart
  <2>2. /\ Waits(Pending, timerStrand)
        /\ ~Waits(Pending, timerStrand')
        /\ AtMostOneWaits(Pending, timerStrand')
    BY <1>1, <2>1, WaitsTail DEF OneTimeOut
  <2>3. errors = 0 /\ errors' = 0
    BY <1>6, <2>2 DEF OneTimeOut, TimerStep
  <2>. QED  BY <2>2, <2>3 DEF OneTimeOut
<1>7. CASE TimerStep /\ RunCancel
  <2>1. timerStrand # <<>> /\ timerStrand' = Tail(timerStrand)
    BY <1>7, TurnFacts DEF RunCancel
  <2>2. /\ Waits(Pending, timerStrand') => Waits(Pending, timerStrand)
        /\ AtMostOneWaits(Pending, timerStrand')
    BY <1>1, <2>1, WaitsTail DEF OneTimeOut
  <2>. QED  BY <1>7, <2>2 DEF TimerStep, RunCancel, OneTimeOut
<1>8. CASE TimeGoesOn
  <2>1. /\ wait = TimeOut /\ wait' = NoWait /\ errors' = errors
        /\ timerStrand' = Append(timerStrand, Fire(TimeOut))
    BY <1>8 DEF TimeGoesOn, Expire, Post, TypeInv
  <2>2. errors = 0 /\ ~Waits(Pending, timerStrand)
    BY <2>1, TaskFacts DEF OneTimeOut
  <2>3. AtMostOneWaits(Pending, timerStrand')
    BY <1>1, <2>1, <2>2, WaitsAppend, TaskFacts DEF OneTimeOut
  <2>. QED  BY <2>1, <2>2, <2>3 DEF OneTimeOut
<1>. QED
  BY <1>2, <1>3, <1>4, <1>5, <1>6, <1>7, <1>8
     DEF Next, vars, timer, Request, OpenedHandle, ClosedHandle, AnswerArrives,
         TimerStep, Kill, Killed

(* Each step preserves that the cancel() comes after the start(): the      *)
(* start() was posted before the session could read anything, and the      *)
(* strand runs what it is given in that order.                             *)
LEMMA CancelStep ==
  TypeInv /\ Untouched /\ CancelInv /\ [Next]_vars => CancelInv'
<1>. SUFFICES ASSUME TypeInv, Untouched, CancelInv, [Next]_vars
              PROVE  CancelInv'
  OBVIOUS
<1>1. /\ timerStrand \in Seq(Tasks)
      /\ answered \in Nat
  BY DEF TypeInv, TypeOK
<1>2. CASE UNCHANGED <<wait, timerStrand, answered>>
  BY <1>2 DEF CancelInv
<1>3. CASE HandleConnect
  <2>1. answered' = 0
    BY <1>3 DEF Untouched, HandleConnect, TypeInv, TypeOK
  <2>. QED  BY <2>1 DEF CancelInv
<1>4. CASE ReceivedHandle
  <2>1. timerStrand' = Append(timerStrand, Cancel)
    BY <1>4 DEF ReceivedHandle, Post
  <2>2. Followed(Starts, Cancels, timerStrand')
    BY <1>1, <2>1, FollowedAppend, TaskFacts
  <2>3. Waits(Cancels, timerStrand')
    BY <1>1, <2>1, WaitsAppend, TaskFacts
  <2>. QED  BY <2>2, <2>3 DEF CancelInv
<1>5. CASE OnTimeOut
  <2>1. /\ timerStrand # <<>> /\ Head(timerStrand) \notin Cancels
        /\ timerStrand' = Tail(timerStrand)
    BY <1>5, TurnFacts, TaskFacts DEF OnTimeOut, RunFire
  <2>2. Waits(Cancels, timerStrand) => Waits(Cancels, timerStrand')
    BY <1>1, <2>1, WaitsTail
  <2>3. Followed(Starts, Cancels, timerStrand)
        => Followed(Starts, Cancels, timerStrand')
    BY <1>1, <2>1, FollowedTail
  <2>. QED  BY <1>5, <2>2, <2>3 DEF OnTimeOut, RunFire, CancelInv
<1>6. CASE TimerStep /\ RunStart
  <2>1. /\ timerStrand # <<>> /\ Head(timerStrand) \in Starts
        /\ timerStrand' = Tail(timerStrand)
    BY <1>6, TurnFacts, TaskFacts DEF RunStart
  <2>2. Followed(Starts, Cancels, timerStrand)
        => /\ Followed(Starts, Cancels, timerStrand')
           /\ Waits(Cancels, timerStrand')
    BY <1>1, <2>1, FollowedTail
  <2>. QED  BY <1>6, <2>2 DEF TimerStep, CancelInv
<1>7. CASE TimerStep /\ RunCancel
  <2>1. /\ timerStrand # <<>> /\ timerStrand' = Tail(timerStrand)
        /\ wait' = NoWait
    BY <1>7, TurnFacts DEF RunCancel
  <2>2. Followed(Starts, Cancels, timerStrand)
        => Followed(Starts, Cancels, timerStrand')
    BY <1>1, <2>1, FollowedTail
  <2>. QED  BY <1>7, <2>1, <2>2 DEF TimerStep, CancelInv
<1>8. CASE TimeGoesOn
  <2>1. /\ wait = TimeOut /\ wait' = NoWait /\ answered' = answered
        /\ timerStrand' = Append(timerStrand, Fire(TimeOut))
    BY <1>8 DEF TimeGoesOn, Expire, Post, TypeInv
  <2>2. Followed(Starts, Cancels, timerStrand)
        => Followed(Starts, Cancels, timerStrand')
    BY <1>1, <2>1, FollowedAppend, TaskFacts
  <2>. QED  BY <2>1, <2>2 DEF CancelInv
<1>. QED
  BY <1>2, <1>3, <1>4, <1>5, <1>6, <1>7, <1>8
     DEF Next, vars, timer, Request, OpenedHandle, ClosedHandle, AnswerArrives,
         TimerStep, Kill, Killed

-----------------------------------------------------------------------------

(* The invariant of a request.                                             *)
LEMMA Invariance == Spec => []IInv
<1>1. IInv /\ [Next]_vars => IInv'
  BY TypeStep, UntouchedStep, OneTimeOutStep, CancelStep DEF IInv
<1>. QED  BY InitInv, <1>1, PTL DEF Spec

(* The invariant in the words of the property: with no cancel() waiting, a *)
(* start() would have nobody behind it.                                    *)
LEMMA FinalCancel == IInv => CancelIsFinal
<1>. SUFFICES ASSUME IInv, answered > 0, Cancel \notin Waiting
              PROVE  wait = NoWait /\ Start(TimeOut) \notin Waiting
  BY DEF IInv, OneTimeOut, CancelIsFinal
<1>1. timerStrand \in Seq(Tasks)
  BY DEF IInv, TypeInv
<1>2. ~Waits(Cancels, timerStrand)
  BY <1>1, ElementFacts DEF Waiting, Waits, Cancels
<1>3. wait = NoWait
  BY <1>2 DEF IInv, CancelInv
<1>4. ASSUME NEW i \in 1 .. Len(timerStrand)
      PROVE  timerStrand[i] # Start(TimeOut)
  <2>1. \A j \in i + 1 .. Len(timerStrand) : timerStrand[j] \notin Cancels
    BY <1>1, <1>2, ElementFacts DEF Waits
  <2>. QED  BY <2>1, TaskFacts DEF IInv, CancelInv, Followed
<1>. QED  BY <1>1, <1>3, <1>4, ElementFacts DEF Waiting

(* For every number of answers the variables keep their types, and each    *)
(* answer that the session read is reported once or still waits to be.     *)
THEOREM TypeCorrect == Spec => []TypeOK
BY Invariance, PTL DEF IInv, TypeInv

(* onError is called at most once, and an answer in time silences the      *)
(* timer as soon as the cancel() that receivedHandle posted has run.       *)
THEOREM CancelSilences == Spec => []CancelIsFinal
BY Invariance, FinalCancel, PTL

-----------------------------------------------------------------------------
(* The periodic timer: one round at a time, and at most one tick after a   *)
(* cancel().                                                               *)

(* The handlers that lead to a tick, and those that lead to another round: *)
(* a round with an empty handle runs nothing.                              *)
Live == {Start(Tick), Fire(Tick)}

TicksToCome == Live \cup {Start(NoHandle), Fire(NoHandle)}

TickTasks == TicksToCome \cup {Cancel}

TickTypes ==
  /\ timerStrand \in Seq(TickTasks)
  /\ wait \in {NoWait, NoHandle, Tick}
  /\ timerHandle \in {NoHandle, Tick}
  /\ state \in {"new", "going", "declined"}
  /\ cancels \in 0 .. MaxCancels
  /\ late \in Nat

(* Before shedule() there is nothing.                                      *)
NewInv ==
  state = "new" =>
    wait = NoWait /\ timerStrand = <<>> /\ cancels = 0 /\ late = 0

(* One round at a time.                                                    *)
RoundInv ==
  /\ AtMostOneWaits(TicksToCome, timerStrand)
  /\ wait # NoWait => ~Waits(TicksToCome, timerStrand)

(* As long as nobody cancels and sheduleHandle wants more, the timer keeps *)
(* its handle and the pending round will call it.                          *)
GoingInv ==
  cancels = 0 =>
    /\ ~Waits({Cancel}, timerStrand)
    /\ state = "going" =>
         timerHandle = Tick /\ (wait = Tick \/ Waits(Live, timerStrand))

(* A late tick found no handle to start, and there will be none.           *)
LateInv ==
  /\ late <= 1
  /\ late = 1 =>
       timerHandle = NoHandle /\ wait # Tick /\ ~Waits(Live, timerStrand)

PeriodicInv == TickTypes /\ NewInv /\ RoundInv /\ GoingInv /\ LateInv

-----------------------------------------------------------------------------

(* The handlers that the timer posts, and how they differ.                 *)
LEMMA TickTaskFacts ==
  /\ Tick # NoHandle /\ Tick # NoWait /\ NoHandle # NoWait
  /\ TickTasks = Live \cup {Start(NoHandle), Fire(NoHandle), Cancel}
  /\ TicksToCome \subseteq TickTasks /\ Live \subseteq TicksToCome
  /\ \A handle \in {NoHandle, Tick} :
       /\ Start(handle) \in TicksToCome /\ Fire(handle) \in TicksToCome
       /\ Start(handle) \in Live <=> handle = Tick
       /\ Fire(handle) \in Live <=> handle = Tick
       /\ Start(handle).op = "start" /\ Start(handle).handle = handle
       /\ Fire(handle).op = "fire" /\ Fire(handle).handle = handle
       /\ Start(handle) # Cancel /\ Fire(handle) # Cancel
  /\ Cancel \in TickTasks \ TicksToCome /\ Cancel.op = "cancel"
  /\ \A task \in TickTasks :
       /\ task.handle \in {NoHandle, Tick}
       /\ task.op = "start" => task = Start(task.handle)
       /\ task.op = "fire" => task = Fire(task.handle)
       /\ task.op = "cancel" => task = Cancel
       /\ task \in TicksToCome <=> task.op \in {"start", "fire"}
<1>1. Tick \in Handles
  BY TimerAssumption DEF Tick
<1>2. Tick # NoHandle /\ Tick # NoWait /\ NoHandle # NoWait
  BY <1>1, TimerAssumption DEF NoHandle, NoWait
<1>. HIDE DEF Tick, NoHandle
<1>. QED
  BY <1>2 DEF TickTasks, TicksToCome, Live, Start, Fire, Cancel

(* What is known when the pool runs a handler of the timer's strand.       *)
LEMMA TickTurnFacts ==
  ASSUME TickTypes, timerStrand # <<>>
  PROVE  /\ Head(timerStrand) \in TickTasks
         /\ Tail(timerStrand) \in Seq(TickTasks)
BY TailFacts DEF TickTypes

(* What a tick posts, one after the other.                                 *)
LEMMA PostingFacts ==
  ASSUME NEW S, NEW line \in Seq(S), NEW a \in S, NEW b \in S
  PROVE  /\ line \o (<<>> \o <<>>) = line
         /\ line \o (<<a>> \o <<>>) = Append(line, a)
         /\ line \o (<<>> \o <<b>>) = Append(line, b)
         /\ line \o (<<a>> \o <<b>>) = Append(Append(line, a), b)
OBVIOUS

(* A tick leaves the strand, posts a cancel() or not, and then the next    *)
(* start() or not.                                                         *)
LEMMA TickFacts ==
  ASSUME TickTypes, RunTick
  PROVE  \E line \in Seq(TickTasks) :
           /\ \/ line = Tail(timerStrand) /\ cancels' = cancels
              \/ /\ line = Append(Tail(timerStrand), Cancel)
                 /\ cancels' = cancels + 1 /\ cancels < MaxCancels
           /\ \/ timerStrand' = line /\ state' = "declined"
              \/ /\ timerStrand' = Append(line, Start(timerHandle))
                 /\ state' = state
           /\ timerStrand' \in Seq(TickTasks)
<1>. DEFINE rest == Tail(timerStrand)
            next == Start(timerHandle)
<1>1. rest \in Seq(TickTasks) /\ Cancel \in TickTasks /\ next \in TickTasks
  BY TickTurnFacts, TickTaskFacts DEF RunTick, TickTypes
<1>2. PICK again \in BOOLEAN,
           cancel \in {0} \cup (IF cancels < MaxCancels THEN {1} ELSE {}) :
        /\ timerStrand' = rest \o ((IF cancel = 1 THEN <<Cancel>> ELSE <<>>)
                                   \o (IF again THEN <<next>> ELSE <<>>))
        /\ cancels' = cancels + cancel
        /\ state' = IF again THEN state ELSE "declined"
  BY DEF RunTick, Posting, Restart
<1>. HIDE DEF rest, next
<1>3. cancel = 0 \/ (cancel = 1 /\ cancels < MaxCancels)
  OBVIOUS
<1>. DEFINE line == IF cancel = 1 THEN Append(rest, Cancel) ELSE rest
<1>4. line \in Seq(TickTasks)
  BY <1>1, AppendFacts
<1>5. timerStrand' = IF again = TRUE THEN Append(line, next) ELSE line
  <2>1. CASE cancel = 1 /\ again = TRUE
    BY <1>1, <1>2, <2>1, PostingFacts
  <2>2. CASE cancel = 1 /\ again = FALSE
    BY <1>1, <1>2, <2>2, PostingFacts
  <2>3. CASE cancel = 0 /\ again = TRUE
    BY <1>1, <1>2, <2>3, PostingFacts
  <2>4. CASE cancel = 0 /\ again = FALSE
    BY <1>1, <1>2, <2>4, PostingFacts
  <2>. QED  BY <1>3, <2>1, <2>2, <2>3, <2>4
<1>6. timerStrand' \in Seq(TickTasks)
  BY <1>1, <1>4, <1>5, AppendFacts
<1>7. \/ line = rest /\ cancels' = cancels
      \/ /\ line = Append(rest, Cancel)
         /\ cancels' = cancels + 1 /\ cancels < MaxCancels
  BY <1>2, <1>3 DEF TickTypes
<1>8. \/ timerStrand' = line /\ state' = "declined"
      \/ timerStrand' = Append(line, next) /\ state' = state
  BY <1>2, <1>5
<1>. QED  BY <1>4, <1>6, <1>7, <1>8 DEF rest, next

-----------------------------------------------------------------------------

(* Nothing runs at first.                                                  *)
LEMMA PeriodicInitInv == PeriodicInit => PeriodicInv
<1>. SUFFICES ASSUME PeriodicInit PROVE PeriodicInv
  OBVIOUS
<1>1. TickTypes
  BY PeriodicAssumption DEF PeriodicInit, TimerInit, TickTypes
<1>2. NewInv
  BY DEF PeriodicInit, TimerInit, NewInv
<1>3. RoundInv
  BY NoneWaits DEF PeriodicInit, TimerInit, RoundInv
<1>4. GoingInv
  BY NoneWaits DEF PeriodicInit, TimerInit, GoingInv
<1>5. LateInv
  BY DEF PeriodicInit, LateInv
<1>. QED  BY <1>1, <1>2, <1>3, <1>4, <1>5 DEF PeriodicInv

(* Each step preserves the types.                                          *)
LEMMA TickTypeStep == TickTypes /\ [PeriodicNext]_periodicVars => TickTypes'
<1>. SUFFICES ASSUME TickTypes,
     [PeriodicNext]_periodicVars PROVE TickTypes'
  OBVIOUS
<1>. USE DEF TickTypes
<1>1. \A task \in TickTasks : Post(task) => timerStrand' \in Seq(TickTasks)
  BY AppendFacts DEF Post
<1>2. CASE SheduleTick
  BY <1>1, <1>2, TickTaskFacts DEF SheduleTick, Shedule
<1>3. CASE CallCancel
  BY <1>1, <1>3, TickTaskFacts, PeriodicAssumption DEF CallCancel
<1>4. CASE RunTick
  <2>1. late' \in Nat
    BY <1>4 DEF RunTick
  <2>2. /\ timerStrand' \in Seq(TickTasks)
        /\ state' \in {"new", "going", "declined"}
        /\ cancels' \in 0 .. MaxCancels
    BY <1>4, TickFacts, PeriodicAssumption
  <2>. QED  BY <1>4, <2>1, <2>2 DEF RunTick
<1>5. CASE RunNothing
  BY <1>5, TickTurnFacts DEF RunNothing, RunFire, Turn
<1>6. CASE PeriodicTimerStep
  BY <1>6, TickTurnFacts, TickTaskFacts
       DEF PeriodicTimerStep, RunStart, RunCancel, Turn
<1>7. CASE PeriodicTimeGoesOn
  BY <1>7, <1>1, TickTaskFacts DEF PeriodicTimeGoesOn, Expire
<1>8. CASE UNCHANGED periodicVars
  BY <1>8 DEF periodicVars, timer
<1>. QED  BY <1>2, <1>3, <1>4, <1>5, <1>6, <1>7, <1>8 DEF PeriodicNext

(* Only shedule() takes the timer out of its first state.                  *)
LEMMA NewStep == TickTypes /\ NewInv /\ [PeriodicNext]_periodicVars => NewInv'
<1>. SUFFICES ASSUME TickTypes, NewInv,
                     [PeriodicNext]_periodicVars, state' = "new"
              PROVE  /\ wait' = NoWait
                     /\ timerStrand' = <<>>
                     /\ cancels' = 0
                     /\ late' = 0
  BY DEF NewInv
<1>1. ~RunTick /\ ~SheduleTick
  <2>1. CASE RunTick
    <3>1. state = "new"
      BY <2>1, TickFacts
    <3>. QED  BY <2>1, <3>1 DEF RunTick, NewInv
  <2>. QED  BY <2>1 DEF SheduleTick
<1>2. state = "new"
  BY <1>1
     DEF PeriodicNext, periodicVars, CallCancel, RunNothing,
         PeriodicTimerStep, PeriodicTimeGoesOn
<1>3. wait = NoWait /\ timerStrand = <<>> /\ cancels = 0 /\ late = 0
  BY <1>2 DEF NewInv
<1>. QED
  BY <1>1, <1>2, <1>3
     DEF PeriodicNext, periodicVars, timer, CallCancel, RunNothing, RunFire,
         Turn, PeriodicTimerStep, RunStart, RunCancel, PeriodicTimeGoesOn,
         Expire

-----------------------------------------------------------------------------

(* What a tick leaves behind: the fire that ran was the one round, and the *)
(* start() that it may post is the next one.                               *)
LEMMA TickRounds ==
  ASSUME TickTypes, RoundInv, RunTick
  PROVE  /\ wait = NoWait
         /\ AtMostOneWaits(TicksToCome, timerStrand')
         /\ Waits(Live, timerStrand') => timerHandle = Tick
         /\ state' = "declined"
            \/ (state' = state
                /\ (timerHandle = Tick => Waits(Live, timerStrand')))
         /\ \/ cancels' = cancels
               /\ (~Waits({Cancel}, timerStrand)
                   => ~Waits({Cancel}, timerStrand'))
            \/ cancels' = cancels + 1
<1>. DEFINE rest == Tail(timerStrand)
            next == Start(timerHandle)
<1>1. /\ timerStrand # <<>> /\ Head(timerStrand) = Fire(Tick)
      /\ timerStrand \in Seq(TickTasks) /\ rest \in Seq(TickTasks)
      /\ timerHandle \in {NoHandle, Tick}
  BY TickTurnFacts DEF RunTick, TickTypes
<1>2. /\ next \in TickTasks /\ next \in TicksToCome /\ next # Cancel
      /\ next \in Live => timerHandle = Tick
      /\ timerHandle = Tick => next \in Live
      /\ Cancel \in TickTasks /\ Cancel \notin TicksToCome /\ Cancel \notin Live
      /\ Fire(Tick) \in TicksToCome
      /\ Live \subseteq TicksToCome
  BY <1>1, TickTaskFacts
<1>3. Waits(TicksToCome, timerStrand)
      /\ ~Waits(TicksToCome, rest) /\ AtMostOneWaits(TicksToCome, rest)
      /\ (~Waits({Cancel}, timerStrand) => ~Waits({Cancel}, rest))
  BY <1>1, <1>2, WaitsTail DEF RoundInv
<1>4. wait = NoWait
  BY <1>3 DEF RoundInv
<1>5. PICK line \in Seq(TickTasks) :
        /\ \/ line = rest /\ cancels' = cancels
           \/ line = Append(rest, Cancel) /\ cancels' = cancels + 1
        /\ \/ timerStrand' = line /\ state' = "declined"
           \/ timerStrand' = Append(line, next) /\ state' = state
  BY TickFacts
<1>. HIDE DEF rest, next
<1>6. ~Waits(TicksToCome, line) /\ AtMostOneWaits(TicksToCome, line)
  <2>1. CASE line = rest
    BY <1>3, <2>1
  <2>2. CASE line = Append(rest, Cancel)
    BY <1>1, <1>2, <1>3, <2>2, WaitsAppend
  <2>. QED  BY <1>5, <2>1, <2>2
<1>7. ~Waits(Live, line)
  BY <1>2, <1>6 DEF Waits
<1>8. CASE timerStrand' = line /\ state' = "declined"
  BY <1>3, <1>4, <1>5, <1>6, <1>7, <1>8
<1>9. CASE timerStrand' = Append(line, next) /\ state' = state
  <2>1. /\ AtMostOneWaits(TicksToCome, timerStrand')
        /\ Waits(Live, timerStrand') <=> next \in Live
        /\ Waits({Cancel}, timerStrand') => Waits({Cancel}, line)
    BY <1>2, <1>6, <1>7, <1>9, WaitsAppend
  <2>. QED  BY <1>2, <1>3, <1>4, <1>5, <1>6, <1>9, <2>1
<1>. QED  BY <1>5, <1>8, <1>9

(* Each step preserves that there is one round.                            *)
LEMMA RoundStep ==
  TickTypes /\ NewInv /\ RoundInv /\ [PeriodicNext]_periodicVars => RoundInv'
<1>. SUFFICES ASSUME TickTypes, NewInv, RoundInv,
                     [PeriodicNext]_periodicVars
              PROVE  RoundInv'
  OBVIOUS
<1>1. timerStrand \in Seq(TickTasks) /\ timerHandle \in {NoHandle, Tick}
  BY DEF TickTypes
<1>2. CASE SheduleTick
  <2>1. /\ wait' = NoWait /\ timerStrand = <<>>
        /\ timerStrand' = Append(timerStrand, Start(Tick))
    BY <1>2 DEF SheduleTick, Shedule, Post, NewInv
  <2>2. /\ ~Waits(TicksToCome, timerStrand)
        /\ AtMostOneWaits(TicksToCome, timerStrand)
    BY <2>1, NoneWaits
  <2>3. Start(Tick) \in TickTasks
    BY TickTaskFacts
  <2>4. AtMostOneWaits(TicksToCome, timerStrand')
    BY <1>1, <2>1, <2>2, <2>3, WaitsAppend
  <2>. QED  BY <2>1, <2>4 DEF RoundInv
<1>3. CASE CallCancel
  <2>1. wait' = wait /\ timerStrand' = Append(timerStrand, Cancel)
    BY <1>3 DEF CallCancel, Post
  <2>2. /\ Waits(TicksToCome, timerStrand') <=> Waits(TicksToCome, timerStrand)
        /\ AtMostOneWaits(TicksToCome, timerStrand')
    BY <1>1, <2>1, WaitsAppend, TickTaskFacts DEF RoundInv
  <2>. QED  BY <2>1, <2>2 DEF RoundInv
<1>4. CASE RunTick
  BY <1>4, TickRounds DEF RunTick, RoundInv
<1>5. CASE RunNothing \/ PeriodicTimerStep
  <2>1. /\ timerStrand # <<>> /\ timerStrand' = Tail(timerStrand)
        /\ \/ wait' = wait \/ wait' = NoWait
           \/ Head(timerStrand).op = "start"
    BY <1>5
       DEF RunNothing, RunFire, PeriodicTimerStep, RunStart, RunCancel, Turn
  <2>2. Head(timerStrand).op = "start" => Head(timerStrand) \in TicksToCome
    BY <2>1, TickTurnFacts, TickTaskFacts
  <2>3. /\ Waits(TicksToCome, timerStrand') => Waits(TicksToCome, timerStrand)
        /\ AtMostOneWaits(TicksToCome, timerStrand')
        /\ Head(timerStrand) \in TicksToCome =>
             ~Waits(TicksToCome, timerStrand')
    BY <1>1, <2>1, WaitsTail DEF RoundInv
  <2>. QED  BY <2>1, <2>2, <2>3 DEF RoundInv
<1>6. CASE PeriodicTimeGoesOn
  <2>1. /\ wait \in {NoHandle, Tick} /\ wait # NoWait /\ wait' = NoWait
        /\ timerStrand' = Append(timerStrand, Fire(wait))
    BY <1>6 DEF PeriodicTimeGoesOn, Expire, Post, TickTypes
  <2>2. Fire(wait) \in TickTasks /\ ~Waits(TicksToCome, timerStrand)
    BY <2>1, TickTaskFacts DEF RoundInv
  <2>3. AtMostOneWaits(TicksToCome, timerStrand')
    BY <1>1, <2>1, <2>2, WaitsAppend DEF RoundInv
  <2>. QED  BY <2>1, <2>3 DEF RoundInv
<1>7. CASE UNCHANGED periodicVars
  BY <1>7 DEF periodicVars, timer, RoundInv
<1>. QED  BY <1>2, <1>3, <1>4, <1>5, <1>6, <1>7 DEF PeriodicNext

(* Each step preserves that a schedule that nobody stops goes on: while no *)
(* cancel() was called no handler of one can empty timerHandle_, so every  *)
(* round starts the next with the handle it ran.                           *)
LEMMA GoingStep ==
  TickTypes /\ NewInv /\ RoundInv /\ GoingInv /\ [PeriodicNext]_periodicVars
    => GoingInv'
<1>. SUFFICES ASSUME TickTypes, NewInv, RoundInv, GoingInv,
                     [PeriodicNext]_periodicVars,
                     cancels' = 0
              PROVE  /\ ~Waits({Cancel}, timerStrand')
                     /\ state' = "going" =>
                          /\ timerHandle' = Tick
                          /\ wait' = Tick \/ Waits(Live, timerStrand')
  BY DEF GoingInv
<1>1. timerStrand \in Seq(TickTasks) /\ timerHandle \in {NoHandle, Tick}
      /\ cancels \in Nat
  BY PeriodicAssumption DEF TickTypes
<1>2. cancels = 0 /\ cancels' = cancels /\ ~CallCancel
  <2>1. CASE RunTick
    BY <1>1, <2>1, TickFacts DEF RunTick, CallCancel
  <2>. QED
    BY <1>1, <2>1
       DEF PeriodicNext, periodicVars, SheduleTick, CallCancel, RunNothing,
           PeriodicTimerStep, PeriodicTimeGoesOn
<1>3. /\ ~Waits({Cancel}, timerStrand)
      /\ state = "going" =>
           timerHandle = Tick /\ (wait = Tick \/ Waits(Live, timerStrand))
  BY <1>2 DEF GoingInv
<1>4. CASE SheduleTick
  <2>1. /\ timerHandle' = Tick
        /\ timerStrand' = Append(timerStrand, Start(Tick))
    BY <1>4 DEF SheduleTick, Shedule, Post
  <2>2. /\ Start(Tick) \in TickTasks /\ Start(Tick) \in Live
        /\ Start(Tick) # Cancel
    BY TickTaskFacts
  <2>3. Waits(Live, timerStrand')
    BY <1>1, <2>1, <2>2, WaitsAppend
  <2>4. ~Waits({Cancel}, timerStrand')
    BY <1>1, <1>3, <2>1, <2>2, WaitsAppend
  <2>. QED  BY <2>1, <2>3, <2>4
<1>5. CASE RunTick
  <2>1. ~Waits({Cancel}, timerStrand')
    BY <1>1, <1>2, <1>3, <1>5, TickRounds
  <2>2. state' = "going" =>
          timerHandle' = Tick /\ Waits(Live, timerStrand')
    BY <1>3, <1>5, TickRounds DEF RunTick
  <2>. QED  BY <2>1, <2>2
<1>6. CASE RunNothing \/ PeriodicTimerStep
  <2>1. /\ timerStrand # <<>> /\ timerStrand' = Tail(timerStrand)
        /\ state' = state
    BY <1>6
         DEF RunNothing, RunFire, PeriodicTimerStep, RunStart, RunCancel, Turn
  <2>2. /\ ~Waits({Cancel}, timerStrand')
        /\ Head(timerStrand) # Cancel
        /\ Waits(Live, timerStrand) =>
             Head(timerStrand) \in Live \/ Waits(Live, timerStrand')
    BY <1>1, <1>3, <2>1, WaitsTail
  <2>3. CASE RunNothing
    <3>1. /\ Head(timerStrand) = Fire(NoHandle)
          /\ UNCHANGED <<wait, timerHandle>>
      BY <2>3, TickTurnFacts, TickTaskFacts
           DEF RunNothing, RunFire, Turn
    <3>2. Head(timerStrand) \notin Live
      BY <3>1, TickTaskFacts
    <3>. QED  BY <1>3, <2>1, <2>2, <3>1, <3>2
  <2>4. CASE RunStart
    <3>1. /\ Head(timerStrand) = Start(Head(timerStrand).handle)
          /\ Head(timerStrand).handle \in {NoHandle, Tick}
          /\ wait' = Head(timerStrand).handle /\ timerHandle' = timerHandle
      BY <2>1, <2>4, TickTurnFacts, TickTaskFacts DEF RunStart, Turn
    <3>2. Head(timerStrand) \in TicksToCome
      BY <3>1, TickTaskFacts
    <3>3. Waits(TicksToCome, timerStrand)
      BY <1>1, <2>1, <3>2, WaitsTail
    <3>4. wait = NoWait /\ ~Waits(TicksToCome, timerStrand')
      BY <1>1, <2>1, <3>2, <3>3, WaitsTail DEF RoundInv
    <3>5. ~Waits(Live, timerStrand')
      BY <3>4, TickTaskFacts DEF Waits
    <3>6. state = "going" => wait' = Tick
      BY <1>3, <2>2, <3>1, <3>4, <3>5, TickTaskFacts
    <3>. QED  BY <1>3, <2>1, <2>2, <3>1, <3>6
  <2>5. ~RunCancel
    BY <2>1, <2>2, TickTurnFacts, TickTaskFacts DEF RunCancel, Turn
  <2>. QED  BY <1>6, <2>3, <2>4, <2>5 DEF PeriodicTimerStep
<1>7. CASE PeriodicTimeGoesOn
  <2>1. /\ wait \in {NoHandle, Tick} /\ state' = state
        /\ timerHandle' = timerHandle
        /\ timerStrand' = Append(timerStrand, Fire(wait))
    BY <1>7 DEF PeriodicTimeGoesOn, Expire, Post, TickTypes
  <2>2. /\ Fire(wait) \in TickTasks /\ Fire(wait) # Cancel
        /\ wait = Tick => Fire(wait) \in Live
    BY <2>1, TickTaskFacts
  <2>3. ~Waits({Cancel}, timerStrand')
    BY <1>1, <1>3, <2>1, <2>2, WaitsAppend
  <2>4. wait = Tick \/ Waits(Live, timerStrand) =>
          Waits(Live, timerStrand')
    BY <1>1, <2>1, <2>2, WaitsAppend
  <2>. QED  BY <1>3, <2>1, <2>3, <2>4
<1>8. CASE UNCHANGED periodicVars
  BY <1>3, <1>8 DEF periodicVars, timer
<1>. QED  BY <1>2, <1>4, <1>5, <1>6, <1>7, <1>8 DEF PeriodicNext

(* Each step preserves that a late tick is the last: the round it was part *)
(* of was the only one, and it started the next with no handle.            *)
LEMMA LateStep ==
  TickTypes /\ NewInv /\ RoundInv /\ LateInv /\ [PeriodicNext]_periodicVars
    => LateInv'
<1>. SUFFICES ASSUME TickTypes, NewInv, RoundInv, LateInv,
                     [PeriodicNext]_periodicVars
              PROVE  LateInv'
  OBVIOUS
<1>1. timerStrand \in Seq(TickTasks) /\ timerHandle \in {NoHandle, Tick}
      /\ late \in Nat
  BY DEF TickTypes
<1>2. CASE SheduleTick
  BY <1>2 DEF SheduleTick, NewInv, LateInv
<1>3. CASE CallCancel
  <2>1. /\ UNCHANGED <<wait, timerHandle, late>>
        /\ timerStrand' = Append(timerStrand, Cancel)
    BY <1>3 DEF CallCancel, Post
  <2>2. Cancel \in TickTasks /\ Cancel \notin Live
    BY TickTaskFacts
  <2>3. Waits(Live, timerStrand') <=> Waits(Live, timerStrand)
    BY <1>1, <2>1, <2>2, WaitsAppend
  <2>. QED  BY <2>1, <2>3 DEF LateInv
<1>4. CASE RunTick
  <2>1. Waits(Live, timerStrand)
    <3>1. /\ timerStrand # <<>> /\ Head(timerStrand) = Fire(Tick)
          /\ Fire(Tick) \in Live
      BY <1>4, TickTaskFacts DEF RunTick
    <3>. QED  BY <1>1, <3>1, WaitsTail
  <2>2. late = 0
    BY <1>1, <2>1 DEF LateInv
  <2>3. /\ wait' = NoWait /\ timerHandle' = timerHandle
        /\ timerHandle = NoHandle => ~Waits(Live, timerStrand')
        /\ late' = IF timerHandle = NoHandle THEN 1 ELSE 0
    BY <1>4, <2>2, TickRounds, TickTaskFacts DEF RunTick
  <2>. QED  BY <2>3, TickTaskFacts DEF LateInv
<1>5. CASE RunNothing \/ PeriodicTimerStep
  <2>1. /\ timerStrand # <<>> /\ timerStrand' = Tail(timerStrand)
        /\ late' = late
        /\ timerHandle' = timerHandle \/ timerHandle' = NoHandle
        /\ \/ wait' = wait \/ wait' = NoWait
           \/ /\ Head(timerStrand).op = "start"
              /\ wait' = Head(timerStrand).handle
    BY <1>5
       DEF RunNothing, RunFire, PeriodicTimerStep, RunStart, RunCancel, Turn
  <2>2. ~Waits(Live, timerStrand) =>
          ~Waits(Live, timerStrand') /\ Head(timerStrand) \notin Live
    BY <1>1, <2>1, WaitsTail
  <2>3. Head(timerStrand).op = "start" /\ Head(timerStrand) \notin Live =>
          Head(timerStrand).handle # Tick
    BY <2>1, TickTurnFacts, TickTaskFacts
  <2>. QED  BY <2>1, <2>2, <2>3, TickTaskFacts DEF LateInv
<1>6. CASE PeriodicTimeGoesOn
  <2>1. /\ wait \in {NoHandle, Tick} /\ wait' = NoWait /\ late' = late
        /\ timerHandle' = timerHandle
        /\ timerStrand' = Append(timerStrand, Fire(wait))
    BY <1>6 DEF PeriodicTimeGoesOn, Expire, Post, TickTypes
  <2>2. /\ Fire(wait) \in TickTasks
        /\ wait # Tick => Fire(wait) \notin Live
    BY <2>1, TickTaskFacts
  <2>3. wait # Tick /\ ~Waits(Live, timerStrand) =>
          ~Waits(Live, timerStrand')
    BY <1>1, <2>1, <2>2, WaitsAppend
  <2>. QED  BY <2>1, <2>3, TickTaskFacts DEF LateInv
<1>7. CASE UNCHANGED periodicVars
  BY <1>7 DEF periodicVars, timer, LateInv
<1>. QED  BY <1>2, <1>3, <1>4, <1>5, <1>6, <1>7 DEF PeriodicNext

-----------------------------------------------------------------------------

(* The invariant of the periodic timer.                                    *)
LEMMA PeriodicInvariance == PeriodicSpec => []PeriodicInv
<1>1. PeriodicInv /\ [PeriodicNext]_periodicVars => PeriodicInv'
  BY TickTypeStep, NewStep, RoundStep, GoingStep, LateStep DEF PeriodicInv
<1>. QED  BY PeriodicInitInv, <1>1, PTL DEF PeriodicSpec

(* The invariant in the words of the property, which counts the wait as    *)
(* round 0 and the rounds in the strand by their places.                   *)
LEMMA RoundsArePending == PeriodicInv => OneRound
<1>. SUFFICES ASSUME PeriodicInv PROVE OneRound
  OBVIOUS
<1>1. timerStrand \in Seq(TickTasks)
  BY DEF PeriodicInv, TickTypes
<1>2. /\ DOMAIN timerStrand = 1 .. Len(timerStrand) /\ Len(timerStrand) \in Nat
      /\ \A i \in 1 .. Len(timerStrand) :
           timerStrand[i].op \in {"start", "fire"}
             <=> timerStrand[i] \in TicksToCome
  BY <1>1, ElementFacts, TickTaskFacts
<1>3. \A i : i \in Rounds <=>
        \/ i = 0 /\ wait # NoWait
        \/ i \in 1 .. Len(timerStrand) /\ timerStrand[i] \in TicksToCome
  BY <1>2 DEF Rounds
<1>4. \A i, j \in Rounds : i = j
  BY <1>3 DEF PeriodicInv, RoundInv, AtMostOneWaits, Waits
<1>5. ASSUME state = "going", cancels = 0 PROVE Rounds # {}
  <2>1. wait = Tick \/ Waits(Live, timerStrand)
    BY <1>5 DEF PeriodicInv, GoingInv
  <2>2. CASE wait = Tick
    BY <1>3, <2>2, TickTaskFacts
  <2>3. CASE Waits(Live, timerStrand)
    <3>1. PICK i \in 1 .. Len(timerStrand) : timerStrand[i] \in Live
      BY <2>3 DEF Waits
    <3>. QED  BY <1>3, <3>1, TickTaskFacts
  <2>. QED  BY <2>1, <2>2, <2>3
<1>. QED  BY <1>4, <1>5 DEF OneRound

(* The schedule neither doubles nor dies: one round at most is pending,    *)
(* and one is, as long as the user has neither cancelled nor declined.     *)
THEOREM OneRoundAtATime == PeriodicSpec => []OneRound
BY PeriodicInvariance, RoundsArePending, PTL

(* sheduleHandle is called at most once after the handler of a cancel()    *)
(* has run.                                                                *)
THEOREM LastTick == PeriodicSpec => []OneLateTick
<1>1. PeriodicInv => OneLateTick
  BY DEF PeriodicInv, LateInv, OneLateTick
<1>. QED  BY PeriodicInvariance, <1>1, PTL

=============================================================================
