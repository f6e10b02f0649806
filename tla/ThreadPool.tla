----------------------------- MODULE ThreadPool ------------------------------
(***************************************************************************)
(* ThreadPool: threads that run one io_context, and stop(), called once on *)
(* a thread outside the pool.  The io_context stops when no handler, no    *)
(* operation and no work guard is left, and nobody restarts it.            *)
(***************************************************************************)
EXTENDS Naturals, FiniteSets

CONSTANTS
  Threads,      \* the threads of the pool
  MaxHandlers,  \* bound: handlers and operations that are ever started
  GiveUp        \* what exceptionHandler_ returns; FALSE if there is none

ASSUME ThreadPoolAssumption == MaxHandlers \in Nat /\ GiveUp \in BOOLEAN

VARIABLES
  guard,       \* work_ holds the io_context
  stopped,     \* the io_context has stopped
  thread,      \* of each: "running" in ioService_.run(), "handling" when
               \*   that has called a handler, "ended" after run()
  queue,       \* handlers that are ready
  operations,  \* operations that will post a handler when they end
  stop,        \* "no", "joining" in join_all(), "returned"
  started,     \* handlers and operations started so far
  late         \* history: those of them started by others when the
               \*   io_context had stopped

vars == <<guard, stopped, thread, queue, operations, stop, started, late>>

-----------------------------------------------------------------------------

Handling == {t \in Threads : thread[t] = "handling"}
HasWork == guard \/ queue + operations > 0 \/ Handling # {}

(* The io_context stops with the last piece of work, and for good.         *)
StopsWithoutWork == stopped' = (stopped \/ ~HasWork')

(* The caller, outside the pool, posts a handler or starts an operation.   *)
Request ==
  /\ started < MaxHandlers
  /\ started' = started + 1
  /\ \/ queue' = queue + 1 /\ UNCHANGED operations
     \/ operations' = operations + 1 /\ UNCHANGED queue
  /\ late' = IF stopped THEN late + 1 ELSE late
  /\ UNCHANGED <<guard, stopped, thread, stop>>

(* An operation ends: its handler is ready.                                *)
Complete ==
  /\ operations > 0
  /\ operations' = operations - 1
  /\ queue' = queue + 1
  /\ UNCHANGED <<guard, stopped, thread, stop, started, late>>

-----------------------------------------------------------------------------
(* run(), on one thread of the pool.                                       *)

Handle(t) ==
  /\ thread[t] = "running"
  /\ ~stopped
  /\ queue > 0
  /\ queue' = queue - 1
  /\ thread' = [thread EXCEPT ![t] = "handling"]
  /\ UNCHANGED <<guard, stopped, operations, stop, started, late>>

(* A handler, while it runs, posts another one or starts an operation.     *)
HandlerStarts(t) ==
  /\ thread[t] = "handling"
  /\ started < MaxHandlers
  /\ started' = started + 1
  /\ \/ queue' = queue + 1 /\ UNCHANGED operations
     \/ operations' = operations + 1 /\ UNCHANGED queue
  /\ UNCHANGED <<guard, stopped, thread, stop, late>>

HandlerReturns(t) ==
  /\ thread[t] = "handling"
  /\ thread' = [thread EXCEPT ![t] = "running"]
  /\ UNCHANGED <<guard, queue, operations, stop, started, late>>
  /\ StopsWithoutWork

(* Mutant: an exception ends the thread.                                   *)
HandlerThrowsOut(t) ==
  /\ thread[t] = "handling"
  /\ thread' = [thread EXCEPT ![t] = "ended"]
  /\ UNCHANGED <<guard, queue, operations, stop, started, late>>
  /\ StopsWithoutWork

(* An exception leaves ioService_.run(); the loop calls it again, unless   *)
(* the exception handler says otherwise.                                   *)
HandlerThrows(t) ==
  /\ thread[t] = "handling"
  /\ thread' = [thread EXCEPT ![t] = IF GiveUp THEN "ended" ELSE "running"]
  /\ UNCHANGED <<guard, queue, operations, stop, started, late>>
  /\ StopsWithoutWork

(* ioService_.run() returns, and with it run().                            *)
End(t) ==
  /\ thread[t] = "running"
  /\ stopped
  /\ thread' = [thread EXCEPT ![t] = "ended"]
  /\ UNCHANGED <<guard, stopped, queue, operations, stop, started, late>>

-----------------------------------------------------------------------------
(* stop(): reset the guard, join_all().                                    *)

(* Mutant: ioService_.stop() instead of work_.reset().                     *)
StopNow ==
  /\ stop = "no"
  /\ stop' = "joining"
  /\ stopped' = TRUE
  /\ UNCHANGED <<guard, thread, queue, operations, started, late>>

(* Mutant: work_.reset() is missing.                                       *)
StopGuarded ==
  /\ stop = "no"
  /\ stop' = "joining"
  /\ UNCHANGED <<guard, stopped, thread, queue, operations, started, late>>

Stop ==
  /\ stop = "no"
  /\ stop' = "joining"
  /\ guard' = FALSE
  /\ UNCHANGED <<thread, queue, operations, started, late>>
  /\ StopsWithoutWork

Joined ==
  /\ stop = "joining"
  /\ \A t \in Threads : thread[t] = "ended"
  /\ stop' = "returned"
  /\ UNCHANGED <<guard, stopped, thread, queue, operations, started, late>>

-----------------------------------------------------------------------------

Init ==
  /\ guard = TRUE
  /\ stopped = FALSE
  /\ thread = [t \in Threads |-> "running"]
  /\ queue = 0
  /\ operations = 0
  /\ stop = "no"
  /\ started = 0
  /\ late = 0

PoolStep(t) ==
  Handle(t) \/ HandlerReturns(t) \/ HandlerThrows(t) \/ End(t)

Next ==
  \/ Request
  \/ Complete
  \/ \E t \in Threads : PoolStep(t) \/ HandlerStarts(t)
  \/ Stop
  \/ Joined

Spec == Init /\ [][Next]_vars

(* Threads are scheduled and handlers end; nothing obliges an operation to *)
(* end.                                                                    *)
FairSpec ==
  /\ Spec
  /\ \A t \in Threads : WF_vars(PoolStep(t))
  /\ WF_vars(Joined)

-----------------------------------------------------------------------------

(* No thread is lost before stop(), whatever the handlers throw: otherwise *)
(* the pool would shrink with every exception until nothing runs.          *)
NoThreadIsLost ==
  guard /\ ~GiveUp => ~stopped /\ \A t \in Threads : thread[t] # "ended"

(* stop() drains: the io_context stops only when all that was started is   *)
(* done.  What others start afterwards, as a request() after kill(), is    *)
(* never run, and nobody is told.                                          *)
Drained == stopped => Handling = {} /\ queue + operations = late

(* stop() returns, unless an operation does not end.                       *)
StopJoins == stop = "joining" ~> stop = "returned" \/ operations > 0

=============================================================================
