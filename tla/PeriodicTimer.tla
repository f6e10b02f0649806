---------------------------- MODULE PeriodicTimer ----------------------------
(***************************************************************************)
(* A user of Timer::shedule(): it is called once, its sheduleHandle ticks  *)
(* until it returns FALSE, and cancel() is called on any thread, also by   *)
(* the sheduleHandle itself.  Its names tell it apart from ClientRequest,  *)
(* as one module of proofs is about both users of Timer.                   *)
(***************************************************************************)
EXTENDS Timer

CONSTANT MaxCancels  \* bound: calls of cancel()

ASSUME PeriodicAssumption == MaxCancels \in Nat

(* The sheduleHandle.                                                      *)
Tick == CHOOSE handle \in Handles : TRUE

VARIABLES
  state,    \* "new", "going", "declined" once sheduleHandle returned FALSE
  cancels,  \* calls of cancel()
  late      \* history: ticks since the handler of a cancel() ran, up to 2

periodicVars == <<timer, state, cancels, late>>

-----------------------------------------------------------------------------

SheduleTick ==
  /\ state = "new"
  /\ state' = "going"
  /\ Shedule(Tick)
  /\ UNCHANGED <<cancels, late>>

CallCancel ==
  /\ state # "new"
  /\ cancels < MaxCancels
  /\ cancels' = cancels + 1
  /\ Post(Cancel)
  /\ UNCHANGED <<wait, timerHandle, state, late>>

(* The strand after the handler that runs, and what sheduleHandle and then *)
(* the lambda of shedule() post.                                           *)
Posting(tasks) == timerStrand' = Tail(timerStrand) \o tasks

(* Mutant: the lambda starts the handle that just ran.                     *)
RestartSame == <<Start(Head(timerStrand).handle)>>

(* Mutant: the timer is not started again.                                 *)
RestartNever == <<>>

(* start(period, timerHandle_), with timerHandle_ as it is now.            *)
Restart == <<Start(timerHandle)>>

(* sheduleHandle is called.  It may call cancel() first, and still return  *)
(* TRUE.                                                                   *)
RunTick ==
  /\ timerStrand # <<>>
  /\ Head(timerStrand) = Fire(Tick)
  /\ \E again \in BOOLEAN, cancel \in {0} \cup (IF cancels < MaxCancels
                                                THEN {1} ELSE {}) :
       /\ Posting((IF cancel = 1 THEN <<Cancel>> ELSE <<>>)
                  \o (IF again THEN Restart ELSE <<>>))
       /\ cancels' = cancels + cancel
       /\ state' = IF again THEN state ELSE "declined"
  /\ late' = IF timerHandle = NoHandle /\ late < 2 THEN late + 1 ELSE late
  /\ UNCHANGED <<wait, timerHandle>>

(* A wait that was started with an empty handle.                           *)
RunNothing == RunFire(NoHandle) /\ UNCHANGED <<state, cancels, late>>

PeriodicTimerStep ==
  (RunStart \/ RunCancel) /\ UNCHANGED <<state, cancels, late>>

PeriodicTimeGoesOn == Expire /\ UNCHANGED <<state, cancels, late>>

-----------------------------------------------------------------------------

PeriodicInit ==
  /\ TimerInit
  /\ state = "new"
  /\ cancels = 0
  /\ late = 0

PeriodicNext ==
  SheduleTick \/ CallCancel \/ RunTick \/ RunNothing \/ PeriodicTimerStep
  \/ PeriodicTimeGoesOn

PeriodicSpec == PeriodicInit /\ [][PeriodicNext]_periodicVars

PeriodicFairSpec ==
  /\ PeriodicSpec
  /\ WF_periodicVars(RunTick)
  /\ WF_periodicVars(RunNothing)
  /\ WF_periodicVars(PeriodicTimerStep)
  /\ WF_periodicVars(PeriodicTimeGoesOn)

-----------------------------------------------------------------------------

(* The waits, starts and expiries that are pending.                        *)
Rounds ==
  (IF wait = NoWait THEN {} ELSE {0}) \cup
  {i \in DOMAIN timerStrand : timerStrand[i].op \in {"start", "fire"}}

(* The schedule neither dies nor doubles: at most one round is pending,    *)
(* and exactly one as long as the user has neither cancelled nor declined. *)
OneRound ==
  /\ \A i, j \in Rounds : i = j
  /\ state = "going" /\ cancels = 0 => Rounds # {}

(* cancel() does not promise that nothing follows: an expiry or a start()  *)
(* may be queued on the other side of it.  But sheduleHandle is called at  *)
(* most once after the handler of cancel() has run.                        *)
OneLateTick == late <= 1

(* And then the timer falls silent: whatever was queued when cancel() was  *)
(* called, it comes to wait for nothing, and only shedule() could start it *)
(* again.                                                                  *)
CancelStops == cancels > 0 ~> Idle

=============================================================================
