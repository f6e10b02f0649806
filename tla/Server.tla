------------------------------- MODULE Server -------------------------------
(***************************************************************************)
(* Net::Server and its Net::SessionManager: the accept loop, the list of   *)
(* sessions, and stop(), which is called on a thread outside the pool.     *)
(*                                                                         *)
(* handleAccept() runs on any thread of the pool, one at a time, since     *)
(* only accept() asks for the next.  The manager's handlers are serialised *)
(* by sessionStrand_.  A session is seen from outside: it opens (and calls *)
(* join), it closes (and calls leave, perhaps more than once: see          *)
(* CloseHandlerBound in SessionProperties).                                *)
(***************************************************************************)
EXTENDS Naturals, Sequences, FiniteSets

CONSTANTS
  Sessions,   \* the sessions that accept() can create
  MaxLeaves   \* bound: how many times a session calls its closeHandler_

ASSUME ServerAssumption == MaxLeaves \in Nat \ {0}

VARIABLES
  status,     \* "new", "failed", "running"; in stop(): "closing" once the
              \*   acceptor is closed, "joining" in threadPool_.stop();
              \*   "stopped"
  accepts,    \* calls of async_accept whose handleAccept() has not run
  stage,      \* of each: "new", "accepting", "opening", "open" or "closed"
  leaves,     \* of each session: how often it called closeHandler_
  strand,     \* handlers posted to sessionStrand_, oldest first
  sessions,   \* sessions_: how often it holds each session
  told,       \* sessions that forEach() told to close
  late,       \* history: sessions that joined when stop() was past forEach()
  deaf        \* history: an exception has left the accept loop

vars == <<status, accepts, stage, leaves, strand, sessions, told, late, deaf>>

-----------------------------------------------------------------------------

(* An async_accept is waiting, or its result waits for handleAccept().     *)
Result == {"waiting", "ok", "error", "aborted"}
Accepting == [session : Sessions, result : Result]

Join(s) == [op |-> "join", session |-> s]
Leave(s) == [op |-> "leave", session |-> s]
ForEach == [op |-> "forEach"]
ManagerTask ==
  [op : {"join", "leave"}, session : Sessions] \cup {ForEach}

Posted(task) == \E i \in DOMAIN strand : strand[i] = task

(* Sessions whose handlers or operations keep the pool at work.            *)
Alive == {s \in Sessions : stage[s] \in {"opening", "open"}}

(* The sessions in sessions_; the order they are in matters to nobody.     *)
Joined == {s \in Sessions : sessions[s] > 0}

AcceptorOpen == status = "running"

-----------------------------------------------------------------------------
(* Accepting.                                                              *)

(* accept(), with "others" the calls that remain.  On an acceptor that     *)
(* stop() has closed the call fails with bad_descriptor, which is not      *)
(* operation_aborted.                                                      *)
Accept(others, stages, open) ==
  \E s \in Sessions :
    /\ stages[s] = "new"
    /\ stage' = [stages EXCEPT ![s] = "accepting"]
    /\ accepts' =
         others \cup {[session |-> s,
                       result |-> IF open THEN "waiting" ELSE "error"]}

(* start(): bind() and listen() may fail.                                  *)
Start ==
  /\ status = "new"
  /\ \/ /\ status' = "running"
        /\ Accept({}, stage, TRUE)
     \/ /\ status' = "failed"
        /\ UNCHANGED <<accepts, stage>>
  /\ UNCHANGED <<leaves, strand, sessions, told, late, deaf>>

(* A connection comes in, or cannot be accepted.                           *)
CompleteAccept(a) ==
  /\ a.result = "waiting"
  /\ \E result \in {"ok", "error"} :
       accepts' = (accepts \ {a}) \cup {[a EXCEPT !.result = result]}
  /\ UNCHANGED <<status, stage, leaves, strand, sessions, told, late, deaf>>

(* handleAccept().  A session that was not opened is deleted.              *)
Accepted(a) ==
  /\ a.result = "ok"
  /\ Accept(accepts \ {a}, [stage EXCEPT ![a.session] = "opening"],
            AcceptorOpen)
  /\ UNCHANGED deaf

(* Mutant: only a connection that was accepted leads to the next accept(). *)
NotAcceptedOnce(a) ==
  /\ a.result = "error"
  /\ accepts' = accepts \ {a}
  /\ stage' = [stage EXCEPT ![a.session] = "new"]
  /\ UNCHANGED deaf

NotAccepted(a) ==
  /\ a.result = "error"
  /\ Accept(accepts \ {a}, [stage EXCEPT ![a.session] = "new"], AcceptorOpen)
  /\ UNCHANGED deaf

(* The loop ends when the accept was aborted; and when open() throws, from *)
(* set_option() on a connection that is already gone: the pool's thread    *)
(* survives, but nobody calls accept().                                    *)
AcceptsNoMore(a) ==
  /\ a.result \in {"aborted", "ok"}
  /\ accepts' = accepts \ {a}
  /\ stage' = [stage EXCEPT ![a.session] = "new"]
  /\ deaf' = (deaf \/ a.result = "ok")

HandleAccept(a) ==
  /\ Accepted(a) \/ NotAccepted(a) \/ AcceptsNoMore(a)
  /\ UNCHANGED <<status, leaves, strand, sessions, told, late>>

-----------------------------------------------------------------------------
(* The sessions.                                                           *)

(* The handshake succeeded: openHandler_ is SessionManager::join.          *)
SessionOpens(s) ==
  /\ stage[s] = "opening"
  /\ stage' = [stage EXCEPT ![s] = "open"]
  /\ strand' = Append(strand, Join(s))
  /\ late' = IF status = "joining" THEN late \cup {s} ELSE late
  /\ UNCHANGED <<status, accepts, leaves, sessions, told, deaf>>

(* Mutant: close() does not test isConnected_.                             *)
SessionClosesAlways(s) ==
  /\ stage[s] \in {"opening", "open", "closed"}
  /\ stage' = [stage EXCEPT ![s] = "closed"]
  /\ leaves' = [leaves EXCEPT ![s] = @ + 1]
  /\ strand' = Append(strand, Leave(s))
  /\ UNCHANGED <<status, accepts, sessions, told, late, deaf>>

(* close(), by the session itself or because it was told to: closeHandler_ *)
(* is SessionManager::leave.                                               *)
SessionCloses(s) ==
  /\ \/ stage[s] \in {"opening", "open"}
     \/ stage[s] = "closed" /\ leaves[s] < MaxLeaves
  /\ stage' = [stage EXCEPT ![s] = "closed"]
  /\ leaves' = [leaves EXCEPT ![s] = @ + 1]
  /\ strand' = Append(strand, Leave(s))
  /\ UNCHANGED <<status, accepts, sessions, told, late, deaf>>

-----------------------------------------------------------------------------
(* The handlers of SessionManager.                                         *)

RunManagerTask(op) ==
  /\ strand # <<>>
  /\ Head(strand).op = op
  /\ strand' = Tail(strand)
  /\ UNCHANGED <<status, accepts, stage, leaves, late, deaf>>

RunJoin ==
  /\ RunManagerTask("join")
  /\ sessions' = [sessions EXCEPT ![Head(strand).session] = @ + 1]
  /\ UNCHANGED told

(* Mutant: nothing is erased.                                              *)
RunLeaveNothing ==
  /\ RunManagerTask("leave")
  /\ UNCHANGED <<sessions, told>>

RunLeave ==
  /\ RunManagerTask("leave")
  /\ sessions' = [sessions EXCEPT ![Head(strand).session] = 0]
  /\ UNCHANGED told

RunForEach ==
  /\ RunManagerTask("forEach")
  /\ told' = told \cup Joined
  /\ UNCHANGED sessions

ManagerStep == RunJoin \/ RunLeave \/ RunForEach

-----------------------------------------------------------------------------
(* stop(), called once.                                                    *)

(* cancel() and close() of the acceptor.                                   *)
StopAccepting ==
  /\ status = "running"
  /\ status' = "closing"
  /\ accepts' = {IF a.result = "waiting" THEN [a EXCEPT !.result = "aborted"]
                 ELSE a : a \in accepts}
  /\ UNCHANGED <<stage, leaves, strand, sessions, told, late, deaf>>

(* Mutant: the sessions are told on the caller's thread.                   *)
StopSessionsDirectly ==
  /\ status = "closing"
  /\ status' = "joining"
  /\ told' = told \cup Joined
  /\ UNCHANGED <<accepts, stage, leaves, strand, sessions, late, deaf>>

(* forEach(), then the beginning of threadPool_.stop().                    *)
StopSessions ==
  /\ status = "closing"
  /\ status' = "joining"
  /\ strand' = Append(strand, ForEach)
  /\ UNCHANGED <<accepts, stage, leaves, sessions, told, late, deaf>>

(* join_all() returns: the io_context has run out of work.                 *)
StopReturned ==
  /\ status = "joining"
  /\ accepts = {}
  /\ strand = <<>>
  /\ Alive = {}
  /\ status' = "stopped"
  /\ UNCHANGED <<accepts, stage, leaves, strand, sessions, told, late, deaf>>

-----------------------------------------------------------------------------

Init ==
  /\ status = "new"
  /\ accepts = {}
  /\ stage = [s \in Sessions |-> "new"]
  /\ leaves = [s \in Sessions |-> 0]
  /\ strand = <<>>
  /\ sessions = [s \in Sessions |-> 0]
  /\ told = {}
  /\ late = {}
  /\ deaf = FALSE

Next ==
  \/ Start
  \/ \E a \in accepts : CompleteAccept(a) \/ HandleAccept(a)
  \/ \E s \in Sessions : SessionOpens(s) \/ SessionCloses(s)
  \/ ManagerStep
  \/ StopAccepting
  \/ StopSessions
  \/ StopReturned

Spec == Init /\ [][Next]_vars

(* The pool runs the handlers that are ready, stop() goes on, and a        *)
(* session that was told to close does so.  Nothing obliges peers to       *)
(* connect, to finish a handshake or to leave.                             *)
Fairness ==
  /\ WF_vars(\E a \in accepts : HandleAccept(a))
  /\ WF_vars(ManagerStep)
  /\ WF_vars(StopSessions)
  /\ WF_vars(StopReturned)
  /\ \A s \in Sessions :
       WF_vars(s \in told /\ stage[s] = "open" /\ SessionCloses(s))

FairSpec == Spec /\ Fairness

-----------------------------------------------------------------------------

(* Type invariant.                                                         *)
TypeOK ==
  /\ status \in {"new", "failed", "running", "closing", "joining", "stopped"}
  /\ accepts \subseteq Accepting
  /\ stage \in [Sessions -> {"new", "accepting", "opening", "open", "closed"}]
  /\ leaves \in [Sessions -> 0 .. MaxLeaves]
  /\ strand \in Seq(ManagerTask)
  /\ sessions \in [Sessions -> Nat]
  /\ told \subseteq Sessions
  /\ late \subseteq Sessions
  /\ deaf \in BOOLEAN

(* As long as the server runs, exactly one async_accept is on its way      *)
(* round the loop, whatever its results: two would accept concurrently on  *)
(* one acceptor, none would leave the server deaf.  Nothing but an         *)
(* exception in handleAccept() does that.                                  *)
OneAcceptor ==
  status = "running" => Cardinality(accepts) = IF deaf THEN 0 ELSE 1

(* sessions_ holds each session once, and none that is closed for good:    *)
(* once the leave() of a closed session has run, no join() of it can come. *)
NoZombies ==
  /\ \A s \in Sessions : sessions[s] <= 1
  /\ \A s \in Sessions :
       stage[s] = "closed" /\ ~Posted(Leave(s)) =>
         s \notin Joined /\ ~Posted(Join(s))

(* Once the handler of forEach() has run, every open session was told to   *)
(* close by stop(), also one whose join() was still waiting in the strand  *)
(* when stop() was called; only a handshake that ends later escapes.       *)
StopTellsAll ==
  status = "joining" /\ ~Posted(ForEach) =>
    \A s \in Sessions : stage[s] = "open" => s \in told \cup late

(* stop() returns, unless a session that it did not reach is alive (one    *)
(* in its handshake, or late) or a connection was accepted behind its      *)
(* back: nothing else holds the pool.                                      *)
StopReturns ==
  /\ status = "joining"
  /\ \A a \in accepts : a.result = "aborted"
  /\ \A s \in Sessions : stage[s] # "opening"
  /\ \A s \in late : stage[s] = "closed"
  ~> status = "stopped"

=============================================================================
