------------------------------- MODULE Timer --------------------------------
(***************************************************************************)
(* Timer: a deadline timer whose handlers run on a strand of its own.      *)
(* start() and cancel() only post to that strand; shedule() keeps a handle *)
(* that starts the timer again.  The modules that extend this one are the  *)
(* timer's users: they say what a handle does.                             *)
(***************************************************************************)
EXTENDS Naturals, Sequences

CONSTANT Handles  \* the handles that users give to start()

NoHandle == "none"    \* an empty function
NoWait == "no wait"

ASSUME TimerAssumption ==
  /\ Handles # {}
  /\ {NoHandle, NoWait} \cap Handles = {}

VARIABLES
  wait,        \* the handle of the wait of timer_ that has not expired
  timerHandle, \* timerHandle_, which is not empty while sheduled
  timerStrand  \* handlers posted to strand_, oldest first

timer == <<wait, timerHandle, timerStrand>>

Handle == Handles \cup {NoHandle}

TimerTask == [op : {"start", "fire", "cancel"}, handle : Handle]

TimerTypes ==
  /\ wait \in Handle \cup {NoWait}
  /\ timerHandle \in Handle
  /\ timerStrand \in Seq(TimerTask)

TimerInit ==
  /\ wait = NoWait
  /\ timerHandle = NoHandle
  /\ timerStrand = <<>>

-----------------------------------------------------------------------------
(* What start() and cancel() post, and what an expired wait posts.         *)

Start(handle) == [op |-> "start", handle |-> handle]
Cancel == [op |-> "cancel", handle |-> NoHandle]
Fire(handle) == [op |-> "fire", handle |-> handle]

Waiting == {timerStrand[i] : i \in DOMAIN timerStrand}

Post(task) == timerStrand' = Append(timerStrand, task)

Idle == wait = NoWait /\ timerStrand = <<>>

(* shedule(), on the caller's thread: it sets timerHandle_ and starts.     *)
Shedule(handle) ==
  /\ timerHandle' = handle
  /\ Post(Start(handle))
  /\ UNCHANGED wait

Turn(op) ==
  /\ timerStrand # <<>>
  /\ Head(timerStrand).op = op
  /\ timerStrand' = Tail(timerStrand)

(* The handler of start(): expires_from_now() aborts the wait before.      *)
RunStart ==
  /\ Turn("start")
  /\ wait' = Head(timerStrand).handle
  /\ UNCHANGED timerHandle

(* Mutant: timer_.cancel() is missing.                                     *)
RunCancelLater ==
  /\ Turn("cancel")
  /\ timerHandle' = NoHandle
  /\ UNCHANGED wait

(* Mutant: timerHandle_ stays.                                             *)
RunCancelWait ==
  /\ Turn("cancel")
  /\ wait' = NoWait
  /\ UNCHANGED timerHandle

(* The handler of cancel().                                                *)
RunCancel ==
  /\ Turn("cancel")
  /\ timerHandle' = NoHandle
  /\ wait' = NoWait

(* The wait expires: from now on its handler can no longer be aborted.     *)
Expire ==
  /\ wait # NoWait
  /\ wait' = NoWait
  /\ Post(Fire(wait))
  /\ UNCHANGED timerHandle

(* The handler of an expired wait, which calls its handle if it has one.   *)
RunFire(handle) ==
  /\ Turn("fire")
  /\ Head(timerStrand).handle = handle
  /\ UNCHANGED <<wait, timerHandle>>

=============================================================================
