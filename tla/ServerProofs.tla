---------------------------- MODULE ServerProofs -----------------------------
(***************************************************************************)
(* Safety of Server, for any number of sessions and any number of calls of *)
(* closeHandler_.                                                          *)
(***************************************************************************)
EXTENDS Server, StrandLemmas, FiniteSetTheorems

(* A session that is not yet, or no longer, open()ed by the accept loop.   *)
Outside == {"new", "accepting", "opening"}

Stage == Outside \cup {"open", "closed"}

(* Only a closed session has called closeHandler_.                         *)
TypeInv ==
  /\ TypeOK
  /\ \A s \in Sessions : stage[s] # "closed" => leaves[s] = 0

(* One result at most goes round the accept loop, with a session that is   *)
(* not used otherwise.                                                     *)
AcceptInv ==
  /\ \A a, b \in accepts : a = b
  /\ \A a \in accepts : stage[a.session] = "accepting"
  /\ status = "new" => accepts = {} /\ deaf = FALSE
  /\ status = "running" =>
       /\ deaf = TRUE => accepts = {}
       /\ accepts = {} => deaf = TRUE
       /\ \A a \in accepts : a.result # "aborted"

(* A session joins once.  Until it is open the manager knows nothing of    *)
(* it; an open one is in sessions_ or about to be; one that is closed is   *)
(* about to leave, behind its join() if that has not run yet.              *)
SessionInv(s) ==
  /\ sessions[s] <= 1
  /\ AtMostOneWaits({Join(s)}, strand)
  /\ Waits({Join(s)}, strand) => sessions[s] = 0
  /\ stage[s] \in Outside =>
       sessions[s] = 0 /\ ~Waits({Join(s), Leave(s)}, strand)
  /\ stage[s] = "open" =>
       /\ ~Waits({Leave(s)}, strand)
       /\ sessions[s] = 1 \/ Waits({Join(s)}, strand)
  /\ stage[s] = "closed" =>
       /\ sessions[s] = 1 => Waits({Leave(s)}, strand)
       /\ Followed({Join(s)}, {Leave(s)}, strand)

(* stop() posts forEach() once, behind the join() of every session that is *)
(* open at that moment.                                                    *)
StopInv ==
  /\ AtMostOneWaits({ForEach}, strand)
  /\ status \notin {"joining", "stopped"} => ~Waits({ForEach}, strand)
  /\ status = "joining" =>
       \A s \in Sessions :
         stage[s] = "open" /\ s \notin told \cup late =>
           /\ Waits({ForEach}, strand)
           /\ Followed({Join(s)}, {ForEach}, strand)

Inv == TypeInv /\ AcceptInv /\ (\A s \in Sessions : SessionInv(s)) /\ StopInv

-----------------------------------------------------------------------------
(* Lemmas on the handlers of SessionManager and the accept loop.           *)

(* The handlers of different sessions, and of different kind, differ.      *)
LEMMA TaskFacts ==
  /\ ForEach \in ManagerTask
  /\ \A s \in Sessions : Join(s) \in ManagerTask /\ Leave(s) \in ManagerTask
  /\ \A s, t \in Sessions : Join(s) = Join(t) => s = t
  /\ \A s, t \in Sessions : Leave(s) = Leave(t) => s = t
  /\ \A s, t \in Sessions : Join(s) # Leave(t)
  /\ \A s \in Sessions : Join(s) # ForEach /\ Leave(s) # ForEach
<1>1. \A s \in Sessions : Join(s).session = s /\ Leave(s).session = s
  BY DEF Join, Leave
<1>2. /\ \A s \in Sessions : Join(s).op = "join" /\ Leave(s).op = "leave"
      /\ ForEach.op = "forEach"
  BY DEF Join, Leave, ForEach
<1>3. ForEach \in ManagerTask
  BY DEF ManagerTask
<1>4. \A s \in Sessions : Join(s) \in ManagerTask /\ Leave(s) \in ManagerTask
  BY DEF ManagerTask, Join, Leave
<1>5. \A s, t \in Sessions : Join(s) = Join(t) => s = t
  BY <1>1, Zenon
<1>6. \A s, t \in Sessions : Leave(s) = Leave(t) => s = t
  BY <1>1, Zenon
<1>7. \A s, t \in Sessions : Join(s) # Leave(t)
  <2>. TAKE s, t \in Sessions
  <2>1. Join(s).op # Leave(t).op
    BY <1>2
  <2>. QED  BY <2>1, Zenon
<1>8. \A s \in Sessions : Join(s) # ForEach /\ Leave(s) # ForEach
  <2>. TAKE s \in Sessions
  <2>1. Join(s).op # ForEach.op /\ Leave(s).op # ForEach.op
    BY <1>2
  <2>. QED  BY <2>1, Zenon
<1>. QED  BY <1>3, <1>4, <1>5, <1>6, <1>7, <1>8

(* The handler at the front of the strand is what its name says.           *)
LEMMA HeadFacts ==
  ASSUME TypeOK, NEW op, RunManagerTask(op)
  PROVE  /\ strand # <<>>
         /\ strand \in Seq(ManagerTask)
         /\ strand' = Tail(strand)
         /\ op \in {"join", "leave", "forEach"}
         /\ op = "forEach" => Head(strand) = ForEach
         /\ op \in {"join", "leave"} => Head(strand).session \in Sessions
         /\ op = "join" => Head(strand) = Join(Head(strand).session)
         /\ op = "leave" => Head(strand) = Leave(Head(strand).session)
<1>1. /\ strand # <<>>
      /\ strand \in Seq(ManagerTask)
      /\ strand' = Tail(strand)
      /\ Head(strand).op = op
  BY DEF RunManagerTask, TypeOK
<1>2. Head(strand) \in ManagerTask
  BY <1>1
<1>3. CASE Head(strand) \in [op : {"join", "leave"}, session : Sessions]
  BY <1>1, <1>3 DEF Join, Leave
<1>4. CASE Head(strand) = ForEach
  <2>1. op = "forEach"
    BY <1>1, <1>4 DEF ForEach
  <2>. QED  BY <1>1, <1>4, <2>1
<1>. QED  BY <1>2, <1>3, <1>4 DEF ManagerTask

(* "a" is the one async_accept that was started.                           *)
Fresh(a) ==
  /\ a \in Accepting
  /\ a.result \in {"waiting", "error"}
  /\ accepts' = {a}

(* accept() starts one async_accept, with a session that was new.          *)
LEMMA AcceptFacts ==
  ASSUME NEW stages \in [Sessions -> Stage], NEW open,
         Accept({}, stages, open)
  PROVE  \E a \in Accepting :
           /\ Fresh(a)
           /\ stages[a.session] = "new"
           /\ stage' = [stages EXCEPT ![a.session] = "accepting"]
<1>1. PICK s \in Sessions, result \in {"waiting", "error"} :
        /\ stages[s] = "new"
        /\ stage' = [stages EXCEPT ![s] = "accepting"]
        /\ accepts' = {[session |-> s, result |-> result]}
  BY DEF Accept
<1>. DEFINE a == [session |-> s, result |-> result]
<1>2. a \in Accepting /\ a.session = s /\ a.result = result
  BY DEF Accepting, Result
<1>3. accepts' = {a}
  BY <1>1
<1>. HIDE DEF a
<1>. QED  BY <1>1, <1>2, <1>3 DEF Fresh

(* start() does so too, or fails.                                          *)
LEMMA StartFacts ==
  ASSUME TypeOK, Start
  PROVE  \/ /\ status' = "running"
            /\ \E a \in Accepting :
                 /\ Fresh(a)
                 /\ stage[a.session] = "new"
                 /\ stage' = [stage EXCEPT ![a.session] = "accepting"]
         \/ /\ status' = "failed"
            /\ UNCHANGED <<accepts, stage>>
<1>1. CASE status' = "running" /\ Accept({}, stage, TRUE)
  <2>1. stage \in [Sessions -> Stage]
    BY DEF TypeOK, Stage, Outside
  <2>. QED  BY <1>1, <2>1, AcceptFacts
<1>2. CASE status' = "failed" /\ UNCHANGED <<accepts, stage>>
  BY <1>2
<1>. QED  BY <1>1, <1>2 DEF Start

(* What handleAccept() does to the sessions: that of the result moves on,  *)
(* perhaps a new one takes its place; the others stay as they are.         *)
LEMMA HandleAcceptFacts ==
  ASSUME TypeInv, AcceptInv, NEW a \in accepts, HandleAccept(a)
  PROVE  /\ a.session \in Sessions
         /\ stage' \in [Sessions -> Stage]
         /\ \A s \in Sessions : stage'[s] # stage[s] =>
              stage[s] \in Outside /\ stage'[s] \in Outside
         /\ deaf' \in BOOLEAN
         /\ \/ accepts' = {} /\ (a.result = "aborted" \/ deaf' = TRUE)
            \/ /\ deaf' = deaf
               /\ \E b \in Accepting :
                    Fresh(b) /\ stage'[b.session] = "accepting"
<1>1. /\ a.session \in Sessions
      /\ stage[a.session] = "accepting"
      /\ accepts \ {a} = {}
      /\ stage \in [Sessions -> Stage]
  BY DEF TypeInv, TypeOK, AcceptInv, Accepting, Stage, Outside
<1>2. ASSUME NEW to \in {"new", "opening"}, NEW open,
             Accept(accepts \ {a}, [stage EXCEPT ![a.session] = to], open)
      PROVE  /\ stage' \in [Sessions -> Stage]
             /\ \A s \in Sessions : stage'[s] # stage[s] =>
                  stage[s] \in Outside /\ stage'[s] \in Outside
             /\ \E b \in Accepting :
                  Fresh(b) /\ stage'[b.session] = "accepting"
  <2>. DEFINE stages == [stage EXCEPT ![a.session] = to]
  <2>1. /\ stages \in [Sessions -> Stage]
        /\ \A s \in Sessions : stages[s] # stage[s] =>
             stage[s] \in Outside /\ stages[s] \in Outside
    BY <1>1 DEF Stage, Outside
  <2>2. Accept({}, stages, open)
    BY <1>1, <1>2
  <2>. HIDE DEF stages
  <2>3. PICK b \in Accepting :
          /\ Fresh(b)
          /\ stages[b.session] = "new"
          /\ stage' = [stages EXCEPT ![b.session] = "accepting"]
    BY <2>1, <2>2, AcceptFacts
  <2>4. b.session \in Sessions
    BY DEF Accepting
  <2>5. /\ stage' \in [Sessions -> Stage]
        /\ stage'[b.session] = "accepting"
        /\ \A t \in Sessions : stage'[t] # stages[t] => t = b.session
    BY <2>1, <2>3, <2>4 DEF Stage, Outside
  <2>6. \A t \in Sessions : stage'[t] # stage[t] =>
          stage[t] \in Outside /\ stage'[t] \in Outside
    BY <2>1, <2>3, <2>5 DEF Outside
  <2>. QED  BY <2>3, <2>5, <2>6
<1>3. deaf \in BOOLEAN
  BY DEF TypeInv, TypeOK
<1>4. CASE Accepted(a)
  BY <1>1, <1>2, <1>3, <1>4 DEF Accepted
<1>5. CASE NotAccepted(a)
  BY <1>1, <1>2, <1>3, <1>5 DEF NotAccepted
<1>6. CASE AcceptsNoMore(a)
  <2>1. /\ stage' \in [Sessions -> Stage]
        /\ \A s \in Sessions : stage'[s] # stage[s] =>
             stage[s] \in Outside /\ stage'[s] \in Outside
        /\ accepts' = {}
    BY <1>1, <1>6 DEF AcceptsNoMore, Stage, Outside
  <2>2. deaf' \in BOOLEAN /\ (a.result = "aborted" \/ deaf' = TRUE)
    BY <1>3, <1>6 DEF AcceptsNoMore
  <2>. QED  BY <1>1, <2>1, <2>2
<1>. QED  BY <1>4, <1>5, <1>6 DEF HandleAccept

-----------------------------------------------------------------------------
(* Type correctness.                                                       *)

(* The accept loop keeps the types.                                        *)
LEMMA AcceptType ==
  ASSUME TypeInv, AcceptInv,
         Start \/ \E a \in accepts : CompleteAccept(a) \/ HandleAccept(a)
  PROVE  TypeInv'
<1>1. CASE Start
  <2>1. /\ status' \in {"running", "failed"}
        /\ stage' = stage
           \/ \E s \in Sessions : /\ stage[s] = "new"
                                  /\ stage' = [stage EXCEPT ![s] = "accepting"]
        /\ accepts' \subseteq Accepting
    BY <1>1, StartFacts DEF TypeInv, TypeOK, Fresh, Accepting
  <2>2. UNCHANGED <<leaves, strand, sessions, told, late, deaf>>
    BY <1>1 DEF Start
  <2>. QED  BY <2>1, <2>2 DEF TypeInv, TypeOK
<1>2. ASSUME NEW a \in accepts, CompleteAccept(a) PROVE TypeInv'
  <2>1. accepts' \subseteq Accepting
    BY <1>2 DEF CompleteAccept, TypeInv, TypeOK, Accepting, Result
  <2>. QED  BY <1>2, <2>1 DEF CompleteAccept, TypeInv, TypeOK
<1>3. ASSUME NEW a \in accepts, HandleAccept(a) PROVE TypeInv'
  <2>1. /\ stage' \in [Sessions -> Stage]
        /\ \A s \in Sessions : stage'[s] # stage[s] => stage[s] \in Outside
    BY <1>3, HandleAcceptFacts
  <2>2. accepts' \subseteq Accepting
    BY <1>3, HandleAcceptFacts DEF Fresh
  <2>3. deaf' \in BOOLEAN
    BY <1>3, HandleAcceptFacts
  <2>4. UNCHANGED <<status, leaves, strand, sessions, told, late>>
    BY <1>3 DEF HandleAccept
  <2>5. \A s \in Sessions : stage'[s] # "closed" => leaves'[s] = 0
    BY <2>1, <2>4 DEF TypeInv, Outside
  <2>. QED  BY <2>1, <2>2, <2>3, <2>4, <2>5 DEF TypeInv, TypeOK, Stage,
            Outside
<1>. QED  BY <1>1, <1>2, <1>3

(* The sessions keep the types.                                            *)
LEMMA SessionType ==
  ASSUME TypeInv, NEW s \in Sessions, SessionOpens(s) \/ SessionCloses(s)
  PROVE  TypeInv'
<1>1. strand' \in Seq(ManagerTask)
  <2>1. Join(s) \in ManagerTask /\ Leave(s) \in ManagerTask
    BY TaskFacts
  <2>2. strand' \in {Append(strand, Join(s)), Append(strand, Leave(s))}
    BY DEF SessionOpens, SessionCloses
  <2>3. strand \in Seq(ManagerTask)
    BY DEF TypeInv, TypeOK
  <2>. QED  BY <2>1, <2>2, <2>3, AppendFacts
<1>2. CASE SessionOpens(s)
  BY <1>1, <1>2 DEF SessionOpens, TypeInv, TypeOK
<1>3. CASE SessionCloses(s)
  <2>1. leaves' \in [Sessions -> 0 .. MaxLeaves]
    BY <1>3, ServerAssumption DEF SessionCloses, TypeInv, TypeOK
  <2>. QED  BY <1>1, <1>3, <2>1 DEF SessionCloses, TypeInv, TypeOK
<1>. QED  BY <1>2, <1>3

(* The handlers of the manager keep the types.                             *)
LEMMA ManagerType ==
  ASSUME TypeInv, ManagerStep
  PROVE  TypeInv'
<1>1. PICK op : RunManagerTask(op)
  BY DEF ManagerStep, RunJoin, RunLeave, RunForEach
<1>2. strand' \in Seq(ManagerTask)
  BY <1>1, HeadFacts, TailFacts DEF TypeInv
<1>3. UNCHANGED <<status, accepts, stage, leaves, late, deaf>>
  BY <1>1 DEF RunManagerTask
<1>4. told' \subseteq Sessions
  BY DEF ManagerStep, RunJoin, RunLeave, RunForEach, TypeInv, TypeOK, Joined
<1>5. sessions' \in [Sessions -> Nat]
  <2>1. sessions \in [Sessions -> Nat]
    BY DEF TypeInv, TypeOK
  <2>2. CASE RunJoin
    <3>1. Head(strand).session \in Sessions
      BY <2>2, HeadFacts DEF RunJoin, TypeInv
    <3>. QED  BY <2>1, <2>2, <3>1 DEF RunJoin
  <2>3. CASE RunLeave \/ RunForEach
    BY <2>1, <2>3 DEF RunLeave, RunForEach
  <2>. QED  BY <2>2, <2>3 DEF ManagerStep
<1>. QED  BY <1>2, <1>3, <1>4, <1>5 DEF TypeInv, TypeOK

(* stop() keeps the types.                                                 *)
LEMMA StopType ==
  ASSUME TypeInv, StopAccepting \/ StopSessions \/ StopReturned
  PROVE  TypeInv'
<1>1. CASE StopAccepting
  <2>1. accepts' \subseteq Accepting
    BY <1>1 DEF StopAccepting, TypeInv, TypeOK, Accepting, Result
  <2>. QED  BY <1>1, <2>1 DEF StopAccepting, TypeInv, TypeOK
<1>2. CASE StopSessions
  <2>1. strand' \in Seq(ManagerTask)
    BY <1>2, TaskFacts, AppendFacts DEF StopSessions, TypeInv, TypeOK
  <2>. QED  BY <1>2, <2>1 DEF StopSessions, TypeInv, TypeOK
<1>3. CASE StopReturned
  BY <1>3 DEF StopReturned, TypeInv, TypeOK
<1>. QED  BY <1>1, <1>2, <1>3

(* Every step keeps the types.                                             *)
LEMMA NextType == TypeInv /\ AcceptInv /\ [Next]_vars => TypeInv'
<1>. SUFFICES ASSUME TypeInv, AcceptInv, [Next]_vars PROVE TypeInv'
  OBVIOUS
<1>1. CASE UNCHANGED vars
  BY <1>1 DEF vars, TypeInv, TypeOK
<1>. QED  BY <1>1, AcceptType, SessionType, ManagerType, StopType DEF Next

-----------------------------------------------------------------------------
(* The accept loop.                                                        *)

(* Every step keeps AcceptInv.                                             *)
LEMMA NextAccept == TypeInv /\ AcceptInv /\ [Next]_vars => AcceptInv'
<1>. SUFFICES ASSUME TypeInv, AcceptInv, [Next]_vars PROVE AcceptInv'
  OBVIOUS
<1>1. CASE Start
  <2>1. ASSUME NEW a \in Accepting, Fresh(a), status' = "running",
               stage' = [stage EXCEPT ![a.session] = "accepting"]
        PROVE  AcceptInv'
    <3>1. stage'[a.session] = "accepting"
      BY <2>1 DEF TypeInv, TypeOK, Accepting
    <3>2. deaf' # TRUE
      BY <1>1, Zenon DEF Start, AcceptInv
    <3>. QED  BY <2>1, <3>1, <3>2 DEF AcceptInv, Fresh
  <2>2. CASE status' = "failed" /\ UNCHANGED <<accepts, stage>>
    BY <1>1, <2>2 DEF Start, AcceptInv
  <2>. QED  BY <1>1, <2>1, <2>2, StartFacts DEF TypeInv
<1>2. ASSUME NEW a \in accepts, CompleteAccept(a) PROVE AcceptInv'
  <2>1. PICK r \in {"ok", "error"} :
          accepts' = (accepts \ {a}) \cup {[a EXCEPT !.result = r]}
    BY <1>2 DEF CompleteAccept
  <2>2. /\ a \in Accepting
        /\ accepts' = {[a EXCEPT !.result = r]}
    BY <2>1 DEF AcceptInv, TypeInv, TypeOK
  <2>3. /\ [a EXCEPT !.result = r].session = a.session
        /\ [a EXCEPT !.result = r].result = r
    BY <2>2 DEF Accepting
  <2>. QED  BY <1>2, <2>2, <2>3 DEF CompleteAccept, AcceptInv
<1>3. ASSUME NEW a \in accepts, HandleAccept(a) PROVE AcceptInv'
  <2>1. status' = status
    BY <1>3 DEF HandleAccept
  <2>2. status = "running" => a.result # "aborted"
    BY DEF AcceptInv
  <2>3. status # "new"
    BY DEF AcceptInv
  <2>4. CASE accepts' = {} /\ (a.result = "aborted" \/ deaf' = TRUE)
    BY <2>1, <2>2, <2>3, <2>4 DEF AcceptInv
  <2>5. ASSUME NEW b \in Accepting, Fresh(b),
               stage'[b.session] = "accepting", deaf' = deaf
        PROVE  AcceptInv'
    <3>1. accepts # {}
      OBVIOUS
    <3>2. status = "running" => deaf # TRUE
      BY <3>1 DEF AcceptInv
    <3>3. status' = "running" => deaf' # TRUE
      BY <2>1, <2>5, <3>2, Zenon
    <3>. QED  BY <2>1, <2>3, <2>5, <3>3 DEF AcceptInv, Fresh
  <2>. QED  BY <1>3, <2>4, <2>5, HandleAcceptFacts
<1>4. ASSUME NEW s \in Sessions, SessionOpens(s) \/ SessionCloses(s)
      PROVE  AcceptInv'
  <2>1. /\ UNCHANGED <<status, accepts, deaf>>
        /\ stage[s] # "accepting"
        /\ \A t \in Sessions \ {s} : stage'[t] = stage[t]
    BY <1>4 DEF SessionOpens, SessionCloses, TypeInv, TypeOK
  <2>2. \A a \in accepts : a.session \in Sessions
    BY DEF TypeInv, TypeOK, Accepting
  <2>. QED  BY <2>1, <2>2 DEF AcceptInv
<1>5. CASE ManagerStep
  BY <1>5 DEF ManagerStep, RunJoin, RunLeave, RunForEach, RunManagerTask,
     AcceptInv
<1>6. CASE StopAccepting
  <2>1. \A a \in accepts : [a EXCEPT !.result = "aborted"].session = a.session
    BY DEF TypeInv, TypeOK, Accepting
  <2>2. \A b \in accepts' : \E a \in accepts :
          /\ b.session = a.session
          /\ b = IF a.result = "waiting" THEN [a EXCEPT !.result = "aborted"]
                 ELSE a
    BY <1>6, <2>1 DEF StopAccepting
  <2>3. stage' = stage /\ status' = "closing"
    BY <1>6 DEF StopAccepting
  <2>4. \A b, c \in accepts' : b = c
    BY <2>2 DEF AcceptInv
  <2>5. \A b \in accepts' : stage'[b.session] = "accepting"
    BY <2>2, <2>3 DEF AcceptInv
  <2>. QED  BY <2>3, <2>4, <2>5 DEF AcceptInv
<1>7. CASE StopSessions \/ StopReturned
  BY <1>7 DEF StopSessions, StopReturned, AcceptInv
<1>8. CASE UNCHANGED vars
  BY <1>8 DEF vars, AcceptInv
<1>. QED  BY <1>1, <1>2, <1>3, <1>4, <1>5, <1>6, <1>7, <1>8 DEF Next

-----------------------------------------------------------------------------
(* The sessions and the list of them.                                      *)

(* Steps that concern neither the strand nor a session that is open.       *)
OutsideStep ==
  /\ UNCHANGED <<strand, sessions>>
  /\ \A s \in Sessions : stage'[s] # stage[s] =>
       stage[s] \in Outside /\ stage'[s] \in Outside

(* The accept loop takes such steps, and most of stop() does.              *)
LEMMA OutsideSteps ==
  ASSUME TypeInv, AcceptInv,
         \/ Start
         \/ \E a \in accepts : CompleteAccept(a) \/ HandleAccept(a)
         \/ StopAccepting \/ StopReturned \/ UNCHANGED vars
  PROVE  OutsideStep
<1>1. CASE Start
  <2>1. \/ stage' = stage
        \/ \E s \in Sessions : /\ stage[s] = "new"
                               /\ stage' = [stage EXCEPT ![s] = "accepting"]
    BY <1>1, StartFacts DEF TypeInv, Accepting
  <2>. QED  BY <1>1, <2>1 DEF Start, OutsideStep, Outside, TypeInv, TypeOK
<1>2. ASSUME NEW a \in accepts, HandleAccept(a) PROVE OutsideStep
  BY <1>2, HandleAcceptFacts DEF HandleAccept, OutsideStep
<1>3. CASE (\E a \in accepts : CompleteAccept(a)) \/ StopAccepting
           \/ StopReturned \/ UNCHANGED vars
  BY <1>3 DEF CompleteAccept, StopAccepting, StopReturned, vars, OutsideStep
<1>. QED  BY <1>1, <1>2, <1>3

(* They keep what is known of a session.                                   *)
LEMMA OutsideKeeps ==
  ASSUME OutsideStep, NEW s \in Sessions, SessionInv(s)
  PROVE  SessionInv(s)'
<1>1. UNCHANGED <<strand, sessions>>
  BY DEF OutsideStep
<1>2. stage'[s] = stage[s] \/ (stage[s] \in Outside /\ stage'[s] \in Outside)
  BY DEF OutsideStep
<1>3. "open" \notin Outside /\ "closed" \notin Outside
  BY DEF Outside
<1>. QED  BY <1>1, <1>2, <1>3 DEF SessionInv

(* Posting a handler of another session, or of none, does so too.          *)
LEMMA OtherPosted ==
  ASSUME NEW s \in Sessions, SessionInv(s), strand \in Seq(ManagerTask),
         NEW task \in ManagerTask \ {Join(s), Leave(s)},
         strand' = Append(strand, task),
         stage'[s] = stage[s], sessions'[s] = sessions[s]
  PROVE  SessionInv(s)'
<1>1. \A tasks \in SUBSET {Join(s), Leave(s)} :
        /\ Waits(tasks, strand') <=> Waits(tasks, strand)
        /\ AtMostOneWaits(tasks, strand) => AtMostOneWaits(tasks, strand')
  BY WaitsAppend
<1>2. Followed({Join(s)}, {Leave(s)}, strand)
      => Followed({Join(s)}, {Leave(s)}, strand')
  BY FollowedAppend
<1>. QED  BY <1>1, <1>2 DEF SessionInv

(* And so does running one.                                                *)
LEMMA OtherRun ==
  ASSUME NEW s \in Sessions, SessionInv(s), strand \in Seq(ManagerTask),
         strand # <<>>, Head(strand) \notin {Join(s), Leave(s)},
         strand' = Tail(strand),
         stage'[s] = stage[s], sessions'[s] = sessions[s]
  PROVE  SessionInv(s)'
<1>1. \A tasks \in SUBSET {Join(s), Leave(s)} :
        /\ Waits(tasks, strand') <=> Waits(tasks, strand)
        /\ AtMostOneWaits(tasks, strand) => AtMostOneWaits(tasks, strand')
  BY WaitsTail
<1>2. Followed({Join(s)}, {Leave(s)}, strand)
      => Followed({Join(s)}, {Leave(s)}, strand')
  BY FollowedTail
<1>. QED  BY <1>1, <1>2 DEF SessionInv

(* A session that opens is about to join; it has not joined before.        *)
LEMMA OpensInv ==
  ASSUME TypeInv, NEW s \in Sessions, SessionInv(s), SessionOpens(s)
  PROVE  SessionInv(s)'
<1>1. /\ strand \in Seq(ManagerTask)
      /\ Join(s) \in ManagerTask
      /\ Join(s) # Leave(s)
  BY TaskFacts DEF TypeInv, TypeOK
<1>2. /\ strand' = Append(strand, Join(s))
      /\ sessions' = sessions
      /\ stage'[s] = "open"
      /\ stage[s] \in Outside
  BY DEF SessionOpens, Outside, TypeInv, TypeOK
<1>3. sessions[s] = 0 /\ ~Waits({Join(s), Leave(s)}, strand)
  BY <1>2 DEF SessionInv
<1>4. ~Waits({Join(s)}, strand) /\ ~Waits({Leave(s)}, strand)
  BY <1>3 DEF Waits
<1>5. /\ AtMostOneWaits({Join(s)}, strand')
      /\ Waits({Join(s)}, strand')
      /\ ~Waits({Leave(s)}, strand')
  BY <1>1, <1>2, <1>4, WaitsAppend DEF SessionInv
<1>. QED  BY <1>2, <1>3, <1>5 DEF SessionInv, Outside

(* A session that closes is about to leave, behind its join().             *)
LEMMA ClosesInv ==
  ASSUME TypeInv, NEW s \in Sessions, SessionInv(s), SessionCloses(s)
  PROVE  SessionInv(s)'
<1>1. /\ strand \in Seq(ManagerTask)
      /\ Leave(s) \in ManagerTask
      /\ Join(s) # Leave(s)
  BY TaskFacts DEF TypeInv, TypeOK
<1>2. /\ strand' = Append(strand, Leave(s))
      /\ sessions' = sessions
      /\ stage'[s] = "closed"
  BY DEF SessionCloses, TypeInv, TypeOK
<1>3. /\ AtMostOneWaits({Join(s)}, strand')
      /\ Waits({Join(s)}, strand') <=> Waits({Join(s)}, strand)
      /\ Waits({Leave(s)}, strand')
  BY <1>1, <1>2, WaitsAppend DEF SessionInv
<1>4. Followed({Join(s)}, {Leave(s)}, strand')
  BY <1>1, <1>2, FollowedAppend
<1>. QED  BY <1>2, <1>3, <1>4 DEF SessionInv, Outside

(* The join() of a session puts it into sessions_, where it was not.       *)
LEMMA JoinInv ==
  ASSUME TypeInv, NEW s \in Sessions, SessionInv(s), RunJoin,
         Head(strand) = Join(s)
  PROVE  SessionInv(s)'
<1>1. /\ strand \in Seq(ManagerTask)
      /\ strand # <<>>
      /\ strand' = Tail(strand)
      /\ Join(s) # Leave(s)
      /\ Head(strand).session = s
  BY HeadFacts, TaskFacts DEF RunJoin, TypeInv, Join
<1>2. /\ stage' = stage
      /\ sessions' = [sessions EXCEPT ![s] = sessions[s] + 1]
  BY <1>1 DEF RunJoin, RunManagerTask
<1>3. /\ Waits({Join(s)}, strand)
      /\ ~Waits({Join(s)}, strand')
      /\ Waits({Leave(s)}, strand') <=> Waits({Leave(s)}, strand)
  BY <1>1, WaitsTail DEF SessionInv
<1>4. sessions[s] = 0 /\ sessions'[s] = 1
  BY <1>2, <1>3 DEF SessionInv, TypeInv, TypeOK
<1>5. stage[s] \notin Outside
  BY <1>3 DEF SessionInv, Waits
<1>6. AtMostOneWaits({Join(s)}, strand')
      /\ Followed({Join(s)}, {Leave(s)}, strand')
  BY <1>3, NoneWaits
<1>7. stage[s] = "closed" => Waits({Leave(s)}, strand')
  BY <1>1, FollowedTail DEF SessionInv
<1>. QED  BY <1>2, <1>3, <1>4, <1>5, <1>6, <1>7 DEF SessionInv

(* Its leave() finds it closed, and removes it wherever it is.             *)
LEMMA LeaveInv ==
  ASSUME TypeInv, NEW s \in Sessions, SessionInv(s), RunLeave,
         Head(strand) = Leave(s)
  PROVE  SessionInv(s)'
<1>1. /\ strand \in Seq(ManagerTask)
      /\ strand # <<>>
      /\ strand' = Tail(strand)
      /\ Join(s) # Leave(s)
      /\ Head(strand).session = s
  BY HeadFacts, TaskFacts DEF RunLeave, TypeInv, Leave
<1>2. /\ stage' = stage
      /\ sessions' = [sessions EXCEPT ![s] = 0]
  BY <1>1 DEF RunLeave, RunManagerTask
<1>3. Waits({Leave(s)}, strand)
  BY <1>1, WaitsTail
<1>4. stage[s] \notin Outside /\ stage[s] # "open"
  BY <1>3 DEF SessionInv, Waits
<1>5. /\ AtMostOneWaits({Join(s)}, strand')
      /\ Followed({Join(s)}, {Leave(s)}, strand)
         => Followed({Join(s)}, {Leave(s)}, strand')
  BY <1>1, WaitsTail, FollowedTail DEF SessionInv
<1>6. sessions'[s] = 0
  BY <1>2 DEF TypeInv, TypeOK
<1>. QED  BY <1>2, <1>4, <1>5, <1>6 DEF SessionInv

(* Every step keeps what is known of a session.                            *)
LEMMA NextSession ==
  ASSUME TypeInv, AcceptInv, NEW s \in Sessions, SessionInv(s), [Next]_vars
  PROVE  SessionInv(s)'
<1>1. /\ strand \in Seq(ManagerTask)
      /\ sessions \in [Sessions -> Nat]
      /\ stage \in [Sessions -> Stage]
  BY DEF TypeInv, TypeOK, Stage, Outside
<1>2. ASSUME NEW t \in Sessions, SessionOpens(t) \/ SessionCloses(t)
      PROVE  SessionInv(s)'
  <2>1. CASE t = s
    BY <1>2, <2>1, OpensInv, ClosesInv
  <2>2. CASE t # s
    <3>1. /\ stage'[s] = stage[s]
          /\ sessions' = sessions
          /\ strand' \in {Append(strand, Join(t)), Append(strand, Leave(t))}
      BY <1>1, <1>2, <2>2 DEF SessionOpens, SessionCloses
    <3>2. /\ Join(t) \in ManagerTask \ {Join(s), Leave(s)}
          /\ Leave(t) \in ManagerTask \ {Join(s), Leave(s)}
      BY <2>2, TaskFacts
    <3>. QED  BY <1>1, <3>1, <3>2, OtherPosted
  <2>. QED  BY <2>1, <2>2
<1>3. CASE StopSessions
  <2>1. ForEach \in ManagerTask \ {Join(s), Leave(s)}
    BY TaskFacts
  <2>. QED  BY <1>1, <1>3, <2>1, OtherPosted DEF StopSessions
<1>4. CASE ManagerStep
  <2>1. CASE Head(strand) = Join(s) \/ Head(strand) = Leave(s)
    <3>1. Head(strand) = Join(s) => RunJoin
      BY <1>4 DEF ManagerStep, RunLeave, RunForEach, RunManagerTask, Join
    <3>2. Head(strand) = Leave(s) => RunLeave
      BY <1>4 DEF ManagerStep, RunJoin, RunForEach, RunManagerTask, Leave
    <3>. QED  BY <2>1, <3>1, <3>2, JoinInv, LeaveInv
  <2>2. CASE Head(strand) \notin {Join(s), Leave(s)}
    <3>1. /\ strand # <<>>
          /\ strand' = Tail(strand)
          /\ stage' = stage
      BY <1>4 DEF ManagerStep, RunJoin, RunLeave, RunForEach, RunManagerTask
    <3>2. sessions'[s] = sessions[s]
      <4>1. CASE RunJoin
        <5>1. Head(strand) = Join(Head(strand).session)
          BY <4>1, HeadFacts DEF RunJoin, TypeInv
        <5>2. Head(strand).session # s
          BY <2>2, <5>1
        <5>. QED  BY <1>1, <4>1, <5>2 DEF RunJoin
      <4>2. CASE RunLeave
        <5>1. Head(strand) = Leave(Head(strand).session)
          BY <4>2, HeadFacts DEF RunLeave, TypeInv
        <5>2. Head(strand).session # s
          BY <2>2, <5>1
        <5>. QED  BY <1>1, <4>2, <5>2 DEF RunLeave
      <4>3. CASE RunForEach
        BY <4>3 DEF RunForEach
      <4>. QED  BY <1>4, <4>1, <4>2, <4>3 DEF ManagerStep
    <3>. QED  BY <1>1, <2>2, <3>1, <3>2, OtherRun
  <2>. QED  BY <2>1, <2>2
<1>. QED  BY <1>2, <1>3, <1>4, OutsideSteps, OutsideKeeps DEF Next

-----------------------------------------------------------------------------
(* stop().                                                                 *)

(* Steps of the accept loop and of stop() outside the strand.              *)
LEMMA OutsideStop ==
  ASSUME StopInv, OutsideStep, told \subseteq told', late \subseteq late',
         \/ status' \in {status, "stopped"}
         \/ {status, status'} \cap {"joining", "stopped"} = {}
  PROVE  StopInv'
<1>1. UNCHANGED strand
  BY DEF OutsideStep
<1>2. \A s \in Sessions : stage'[s] = "open" => stage[s] = "open"
  BY DEF OutsideStep, Outside
<1>. QED  BY <1>1, <1>2 DEF StopInv

(* Every step keeps StopInv.                                               *)
LEMMA NextStop ==
  ASSUME TypeInv, AcceptInv, \A s \in Sessions : SessionInv(s), StopInv,
         [Next]_vars
  PROVE  StopInv'
<1>1. /\ strand \in Seq(ManagerTask)
      /\ sessions \in [Sessions -> Nat]
      /\ stage \in [Sessions -> Stage]
      /\ ForEach \in ManagerTask
  BY TaskFacts DEF TypeInv, TypeOK, Stage, Outside
<1>2. ASSUME NEW t \in Sessions, SessionOpens(t) \/ SessionCloses(t)
      PROVE  StopInv'
  <2>1. PICK task \in {Join(t), Leave(t)} : strand' = Append(strand, task)
    BY <1>2 DEF SessionOpens, SessionCloses
  <2>2. task \in ManagerTask /\ task # ForEach
    BY <2>1, TaskFacts
  <2>3. /\ status' = status
        /\ told' = told
        /\ late \subseteq late'
        /\ \A s \in Sessions \ {t} : stage'[s] = stage[s]
        /\ status = "joining" /\ stage'[t] = "open" => t \in late'
    BY <1>1, <1>2 DEF SessionOpens, SessionCloses
  <2>4. /\ Waits({ForEach}, strand') <=> Waits({ForEach}, strand)
        /\ AtMostOneWaits({ForEach}, strand')
    BY <1>1, <2>1, <2>2, WaitsAppend DEF StopInv
  <2>5. ASSUME NEW s \in Sessions \ {t}, Followed({Join(s)}, {ForEach}, strand)
        PROVE  Followed({Join(s)}, {ForEach}, strand')
    <3>1. task # Join(s)
      BY <2>1, TaskFacts
    <3>. QED  BY <1>1, <2>1, <2>2, <2>5, <3>1, FollowedAppend
  <2>6. ASSUME NEW s \in Sessions, status' = "joining", stage'[s] = "open",
               s \notin told' \cup late'
        PROVE  /\ Waits({ForEach}, strand')
               /\ Followed({Join(s)}, {ForEach}, strand')
    <3>1. s # t /\ stage[s] = "open" /\ s \notin told \cup late
      BY <2>3, <2>6
    <3>. QED  BY <2>3, <2>4, <2>5, <2>6, <3>1 DEF StopInv
  <2>. QED  BY <2>3, <2>4, <2>6 DEF StopInv
<1>3. CASE StopSessions
  <2>1. /\ strand' = Append(strand, ForEach)
        /\ status' = "joining"
        /\ ~Waits({ForEach}, strand)
    BY <1>3 DEF StopSessions, StopInv
  <2>2. AtMostOneWaits({ForEach}, strand') /\ Waits({ForEach}, strand')
    BY <1>1, <2>1, WaitsAppend DEF StopInv
  <2>3. \A s \in Sessions : Followed({Join(s)}, {ForEach}, strand')
    <3>1. TAKE s \in Sessions
    <3>2. ForEach # Join(s)
      BY TaskFacts
    <3>. QED  BY <1>1, <2>1, <3>2, FollowedAppend
  <2>. QED  BY <2>1, <2>2, <2>3 DEF StopInv
<1>4. CASE ManagerStep
  <2>1. /\ strand # <<>>
        /\ strand' = Tail(strand)
        /\ UNCHANGED <<status, stage, late>>
        /\ told \subseteq told'
    BY <1>4 DEF ManagerStep, RunJoin, RunLeave, RunForEach, RunManagerTask
  <2>2. /\ AtMostOneWaits({ForEach}, strand')
        /\ Waits({ForEach}, strand') => Waits({ForEach}, strand)
        /\ Waits({ForEach}, strand) =>
             Head(strand) = ForEach \/ Waits({ForEach}, strand')
    BY <1>1, <2>1, WaitsTail DEF StopInv
  <2>3. \A s \in Sessions : Followed({Join(s)}, {ForEach}, strand)
                            => Followed({Join(s)}, {ForEach}, strand')
    BY <1>1, <2>1, FollowedTail
  <2>4. ASSUME NEW s \in Sessions, status' = "joining", stage'[s] = "open",
               s \notin told' \cup late'
        PROVE  /\ Waits({ForEach}, strand')
               /\ Followed({Join(s)}, {ForEach}, strand')
    <3>1. Waits({ForEach}, strand) /\ Followed({Join(s)}, {ForEach}, strand)
      BY <2>1, <2>4 DEF StopInv
    <3>2. ASSUME Head(strand) = ForEach
          PROVE  FALSE
      <4>1. ~Waits({ForEach}, strand')
        BY <1>1, <2>1, <3>2, WaitsTail DEF StopInv
      <4>2. ~Waits({Join(s)}, strand)
        <5>1. ~Waits({Join(s)}, strand')
          BY <2>1, <2>3, <3>1, <4>1 DEF Followed, Waits
        <5>2. Head(strand) # Join(s)
          BY <3>2, TaskFacts
        <5>. QED  BY <1>1, <2>1, <5>1, <5>2, WaitsTail
      <4>3. sessions[s] = 1
        BY <2>1, <2>4, <4>2 DEF SessionInv
      <4>4. RunForEach
        BY <1>4, <3>2 DEF ManagerStep, RunJoin, RunLeave, RunManagerTask,
           ForEach
      <4>. QED  BY <2>4, <4>3, <4>4 DEF RunForEach, Joined
    <3>. QED  BY <2>2, <2>3, <3>1, <3>2
  <2>. QED  BY <2>1, <2>2, <2>4 DEF StopInv
<1>5. CASE \/ Start
           \/ \E a \in accepts : CompleteAccept(a) \/ HandleAccept(a)
           \/ StopAccepting \/ StopReturned \/ UNCHANGED vars
  <2>1. OutsideStep
    BY <1>5, OutsideSteps
  <2>2. /\ UNCHANGED <<told, late>>
        /\ \/ status' \in {status, "stopped"}
           \/ {status, status'} \cap {"joining", "stopped"} = {}
    BY <1>5 DEF Start, CompleteAccept, HandleAccept, StopAccepting,
       StopReturned, vars
  <2>. QED  BY <2>1, <2>2, OutsideStop
<1>. QED  BY <1>2, <1>3, <1>4, <1>5 DEF Next

-----------------------------------------------------------------------------

(* A server that was not started has no session and nothing to accept.     *)
LEMMA InitInv == Init => Inv
<1>. SUFFICES ASSUME Init PROVE Inv
  OBVIOUS
<1>1. TypeInv
  <2>1. leaves \in [Sessions -> 0 .. MaxLeaves]
    BY ServerAssumption DEF Init
  <2>2. deaf \in BOOLEAN
    BY Zenon DEF Init
  <2>3. /\ stage \in [Sessions -> Stage]
        /\ sessions \in [Sessions -> Nat]
        /\ strand \in Seq(ManagerTask)
    BY DEF Init, Stage, Outside
  <2>4. \A s \in Sessions : leaves[s] = 0
    BY DEF Init
  <2>. QED  BY <2>1, <2>2, <2>3, <2>4 DEF Init, TypeInv, TypeOK, Stage, Outside
<1>2. AcceptInv
  BY DEF Init, AcceptInv
<1>3. \A tasks : ~Waits(tasks, strand) /\ AtMostOneWaits(tasks, strand)
  BY NoneWaits DEF Init
<1>4. \A s \in Sessions : SessionInv(s)
  BY <1>3 DEF Init, SessionInv, Outside
<1>5. StopInv
  BY <1>3 DEF Init, StopInv
<1>. QED  BY <1>1, <1>2, <1>4, <1>5 DEF Inv

(* Every step keeps the invariant.                                         *)
LEMMA NextInv == Inv /\ [Next]_vars => Inv'
<1>. SUFFICES ASSUME Inv, [Next]_vars PROVE Inv'
  OBVIOUS
<1>1. TypeInv' /\ AcceptInv'
  BY NextType, NextAccept DEF Inv
<1>2. \A s \in Sessions : SessionInv(s)'
  BY NextSession DEF Inv
<1>3. StopInv'
  BY NextStop DEF Inv
<1>. QED  BY <1>1, <1>2, <1>3 DEF Inv

(* So it holds in every reachable state.                                   *)
LEMMA Invariant == Spec => []Inv
BY InitInv, NextInv, PTL DEF Spec

(* Every variable of the server has its type.                              *)
THEOREM TypeCorrect == Spec => []TypeOK
<1>1. Inv => TypeOK
  BY DEF Inv, TypeInv
<1>. QED  BY <1>1, Invariant, PTL

(* As long as the server runs, and no exception has left the accept loop,  *)
(* there is exactly one async_accept, whatever results come.               *)
THEOREM LoopIsSingle == Spec => []OneAcceptor
<1>1. Inv => OneAcceptor
  <2>. SUFFICES ASSUME Inv, status = "running"
                PROVE  Cardinality(accepts) = IF deaf THEN 0 ELSE 1
    BY DEF OneAcceptor
  <2>1. AcceptInv /\ deaf \in BOOLEAN
    BY DEF Inv, TypeInv, TypeOK
  <2>2. CASE deaf = TRUE
    BY <2>1, <2>2, FS_EmptySet DEF AcceptInv
  <2>3. CASE deaf = FALSE
    <3>1. accepts # {}
      BY <2>1, <2>3 DEF AcceptInv
    <3>2. PICK a : accepts = {a}
      BY <2>1, <3>1 DEF AcceptInv
    <3>3. Cardinality(accepts) = 1
      BY <3>2, FS_Singleton
    <3>. QED  BY <2>3, <3>3
  <2>. QED  BY <2>1, <2>2, <2>3
<1>. QED  BY <1>1, Invariant, PTL

(* sessions_ holds a session at most once, and none that has left for      *)
(* good.                                                                   *)
THEOREM SessionsLeave == Spec => []NoZombies
<1>1. Inv => NoZombies
  <2>. SUFFICES ASSUME Inv, NEW s \in Sessions
                PROVE  /\ sessions[s] <= 1
                       /\ stage[s] = "closed" /\ ~Posted(Leave(s)) =>
                            s \notin Joined /\ ~Posted(Join(s))
    BY DEF NoZombies
  <2>1. /\ strand \in Seq(ManagerTask)
        /\ sessions[s] \in Nat
        /\ SessionInv(s)
    BY DEF Inv, TypeInv, TypeOK
  <2>2. \A task : Posted(task) <=> Waits({task}, strand)
    BY <2>1 DEF Posted, Waits
  <2>3. ASSUME stage[s] = "closed", ~Posted(Leave(s))
        PROVE  s \notin Joined /\ ~Posted(Join(s))
    <3>1. sessions[s] = 0
      BY <2>1, <2>2, <2>3 DEF SessionInv
    <3>2. ~Waits({Join(s)}, strand)
      BY <2>1, <2>2, <2>3 DEF SessionInv, Followed, Waits
    <3>. QED  BY <2>2, <3>1, <3>2 DEF Joined
  <2>. QED  BY <2>1, <2>3 DEF SessionInv
<1>. QED  BY <1>1, Invariant, PTL

(* Once forEach() has run, stop() has told every open session to close but *)
(* those whose handshake ended after it was posted.                        *)
THEOREM StopReachesAll == Spec => []StopTellsAll
<1>1. Inv => StopTellsAll
  <2>. SUFFICES ASSUME Inv PROVE StopTellsAll
    OBVIOUS
  <2>1. Posted(ForEach) <=> Waits({ForEach}, strand)
    BY DEF Posted, Waits, Inv, TypeInv, TypeOK
  <2>. QED  BY <2>1 DEF Inv, StopInv, StopTellsAll
<1>. QED  BY <1>1, Invariant, PTL

=============================================================================
