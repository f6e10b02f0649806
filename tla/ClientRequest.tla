--------------------------- MODULE ClientRequest ----------------------------
(***************************************************************************)
(* Net::Client::request(): one request, the timer that watches it, and the *)
(* callbacks onSuccess and onError of the caller; and kill(), which waits  *)
(* until the pool has nothing left to do.                                  *)
(*                                                                         *)
(* The session is seen from outside (Session has the inside): it opens or  *)
(* closes, it delivers answers on readStrand_, and cancelling its          *)
(* operations may leave it with nothing to wait for, without closing it.   *)
(***************************************************************************)
EXTENDS Timer

CONSTANT MaxAnswers  \* bound: payloads that the server sends

ASSUME RequestAssumption == MaxAnswers \in Nat \ {0}

(* The handle that request() gives to start().                             *)
TimeOut == CHOOSE handle \in Handles : TRUE

VARIABLES
  stage,     \* "new", "unresolved", "connecting", then that of the session:
             \*   "opening", "open", "quiet" (nothing pending), "closed"
  arrived,   \* history: answers read by the session
  answers,   \* of these, those waiting for receivedHandle in readStrand_
  answered,  \* history: calls of onSuccess
  errors,    \* history: calls of onError
  killing    \* "no", "joining" during kill(), "done" when it has returned

vars == <<timer, stage, arrived, answers, answered, errors, killing>>

-----------------------------------------------------------------------------
(* The request.                                                            *)

(* request(): if the name has no address it returns, calling nobody.       *)
Request ==
  /\ stage = "new"
  /\ killing = "no"
  /\ stage' \in {"unresolved", "connecting"}
  /\ UNCHANGED <<timer, arrived, answers, answered, errors, killing>>

(* The handler of async_connect, which does not look at the error.         *)
HandleConnect ==
  /\ stage = "connecting"
  /\ Post(Start(TimeOut))
  /\ stage' = "opening"
  /\ UNCHANGED <<wait, timerHandle, arrived, answers, answered, errors,
                 killing>>

(* Mutant: the timer, of the variable connectTimeOut, watches no more than *)
(* the opening of the session.                                             *)
OpenedHandleCancels ==
  /\ stage = "opening"
  /\ stage' = "open"
  /\ Post(Cancel)
  /\ UNCHANGED <<wait, timerHandle, arrived, answers, answered, errors,
                 killing>>

(* openedHandle sends the payload.                                         *)
OpenedHandle ==
  /\ stage = "opening"
  /\ stage' = "open"
  /\ UNCHANGED <<timer, arrived, answers, answered, errors, killing>>

(* The handshake, a read or a write fails: closedHandle tells nobody.      *)
ClosedHandle ==
  /\ stage \in {"opening", "open"}
  /\ stage' = "closed"
  /\ UNCHANGED <<timer, arrived, answers, answered, errors, killing>>

(* The session reads an answer and, being connected, posts it to           *)
(* readStrand_.                                                            *)
AnswerArrives ==
  /\ stage = "open"
  /\ arrived < MaxAnswers
  /\ arrived' = arrived + 1
  /\ answers' = answers + 1
  /\ UNCHANGED <<timer, stage, answered, errors, killing>>

(* Mutant: the session is not dropped.                                     *)
ReceivedHandleKeeps ==
  /\ answers > 0
  /\ answers' = answers - 1
  /\ Post(Cancel)
  /\ answered' = answered + 1
  /\ UNCHANGED <<wait, timerHandle, stage, arrived, errors, killing>>

(* Mutant: the answer stays in readStrand_.                                *)
ReceivedHandleTwice ==
  /\ answers > 0
  /\ Post(Cancel)
  /\ answered' = answered + 1
  /\ stage' = "closed"
  /\ UNCHANGED <<wait, timerHandle, arrived, answers, errors, killing>>

(* receivedHandle: cancel the timer, report the answer, drop the session.  *)
ReceivedHandle ==
  /\ answers > 0
  /\ answers' = answers - 1
  /\ Post(Cancel)
  /\ answered' = answered + 1
  /\ stage' = "closed"
  /\ UNCHANGED <<wait, timerHandle, arrived, errors, killing>>

(* The handle of the timer: cancelAllPendingOperations(), then onError.    *)
OnTimeOut ==
  /\ RunFire(TimeOut)
  /\ stage' \in {stage} \cup
       (IF stage \in {"opening", "open"} THEN {"quiet"} ELSE {})
  /\ errors' = errors + 1
  /\ UNCHANGED <<arrived, answers, answered, killing>>

(* kill(), on the caller's thread: threadPool_.stop().                     *)
Kill ==
  /\ killing = "no"
  /\ killing' = "joining"
  /\ UNCHANGED <<timer, stage, arrived, answers, answered, errors>>

(* Handlers and operations that hold the pool.                             *)
PoolBusy ==
  stage \in {"connecting", "opening", "open"} \/ answers > 0 \/ ~Idle

Killed ==
  /\ killing = "joining"
  /\ ~PoolBusy
  /\ killing' = "done"
  /\ UNCHANGED <<timer, stage, arrived, answers, answered, errors>>

TimerStep ==
  /\ RunStart \/ RunCancel
  /\ UNCHANGED <<stage, arrived, answers, answered, errors, killing>>

TimeGoesOn ==
  /\ Expire
  /\ UNCHANGED <<stage, arrived, answers, answered, errors, killing>>

-----------------------------------------------------------------------------

Init ==
  /\ TimerInit
  /\ stage = "new"
  /\ arrived = 0
  /\ answers = 0
  /\ answered = 0
  /\ errors = 0
  /\ killing = "no"

Next ==
  \/ Request
  \/ HandleConnect
  \/ OpenedHandle
  \/ ClosedHandle
  \/ AnswerArrives
  \/ ReceivedHandle
  \/ OnTimeOut
  \/ TimerStep
  \/ TimeGoesOn
  \/ Kill
  \/ Killed

Spec == Init /\ [][Next]_vars

(* The pool runs the handlers that are ready and time goes on.  Nothing    *)
(* obliges the server or the network.                                      *)
FairSpec ==
  /\ Spec
  /\ WF_vars(TimerStep)
  /\ WF_vars(OnTimeOut)
  /\ WF_vars(TimeGoesOn)
  /\ WF_vars(ReceivedHandle)
  /\ WF_vars(Killed)

-----------------------------------------------------------------------------

(* Type invariant: each answer that arrived waits or was reported, once.   *)
TypeOK ==
  /\ TimerTypes
  /\ stage \in {"new", "unresolved", "connecting", "opening", "open", "quiet",
                "closed"}
  /\ answers \in 0 .. MaxAnswers
  /\ answered \in 0 .. MaxAnswers
  /\ arrived = answers + answered
  /\ errors \in Nat
  /\ killing \in {"no", "joining", "done"}

(* onError is called at most once, and an answer that was in time is not   *)
(* followed by it: once the cancel() that receivedHandle posted has run,   *)
(* the timer waits for nothing and no start() comes after it.  Only an     *)
(* expiry that was already waiting in the strand can still report an       *)
(* error.  Cancelling before the start() had run would cancel nothing.     *)
CancelIsFinal ==
  /\ errors <= 1
  /\ answered > 0 /\ Cancel \notin Waiting =>
       wait = NoWait /\ Start(TimeOut) \notin Waiting

(* A request that got as far as the handler of async_connect ends: the     *)
(* caller hears of an answer or of an error, whether the handshake fails,  *)
(* the server never answers or the connection breaks, since the timer is   *)
(* the only one to call onError.                                           *)
RequestEnds == stage = "opening" ~> answered + errors > 0

(* kill() returns although a request is in progress: the request's timer   *)
(* ends it.  What kill() does wait for is the network: a connect, and a    *)
(* session that the cancel of the timer has missed.                        *)
KillReturns ==
  killing = "joining" /\ stage # "connecting"
  ~> killing = "done" \/ (errors > 0 /\ stage \in {"opening", "open"})

=============================================================================
