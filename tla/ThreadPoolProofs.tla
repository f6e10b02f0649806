-------------------------- MODULE ThreadPoolProofs ---------------------------
(***************************************************************************)
(* Safety of ThreadPool, for any number of threads and handlers.           *)
(***************************************************************************)
EXTENDS ThreadPool, TLAPS

ThreadState == {"running", "handling", "ended"}

Types ==
  /\ guard \in BOOLEAN
  /\ stopped \in BOOLEAN
  /\ thread \in [Threads -> ThreadState]
  /\ queue \in Nat
  /\ operations \in Nat
  /\ started \in Nat
  /\ late \in Nat

(* Drained is inductive only together with the reason why the io_context   *)
(* stops: its guard is gone.  A thread ends only then, or if it gives up.  *)
Inv ==
  /\ Types
  /\ stopped => ~guard
  /\ \A t \in Threads : thread[t] = "ended" => stopped \/ GiveUp
  /\ ~stopped => late = 0
  /\ Drained

(* At the start every thread runs and nothing is lost.                     *)
LEMMA InitInv == Init => Inv
<1>. SUFFICES ASSUME Init PROVE Inv
  OBVIOUS
<1>1. /\ thread \in [Threads -> ThreadState]
      /\ \A t \in Threads : thread[t] # "ended"
  BY DEF Init, ThreadState
<1>2. Types
  BY <1>1 DEF Init, Types
<1>3. ~stopped /\ late = 0
  BY DEF Init
<1>. QED  BY <1>1, <1>2, <1>3 DEF Inv, Drained

(* Two counts that are not positive together are both zero.                *)
LEMMA NoSum == \A m, n \in Nat : ~(m + n > 0) => m + n = 0
OBVIOUS

(* The io_context stops at a moment when nothing is left.                  *)
LEMMA NothingLeft ==
  ASSUME Inv, StopsWithoutWork, Types', UNCHANGED late,
         stopped => ~guard' /\ Handling' = {} /\
                    queue' + operations' = queue + operations
  PROVE  (stopped' => ~guard') /\ Drained' /\ (~stopped' => late' = 0)
<1>1. CASE stopped
  BY <1>1 DEF Inv, Drained, StopsWithoutWork
<1>2. CASE ~stopped
  <2>1. stopped' => ~guard' /\ Handling' = {} /\ ~(queue' + operations' > 0)
    BY <1>2 DEF StopsWithoutWork, HasWork
  <2>2. queue' \in Nat /\ operations' \in Nat
    BY Zenon DEF Types
  <2>3. late' = 0
    BY <1>2 DEF Inv
  <2>4. ~(queue' + operations' > 0) => queue' + operations' = 0
    BY Zenon, <2>2, NoSum
  <2>. QED  BY Zenon, <2>1, <2>3, <2>4 DEF Drained
<1>. QED  BY <1>1, <1>2

(* A handler that ends, by its return or by an exception.                  *)
LEMMA HandlerEnds ==
  ASSUME Inv, NEW t \in Threads, HandlerReturns(t) \/ HandlerThrows(t)
  PROVE  Inv'
<1>1. /\ Types'
      /\ thread[t] = "handling"
      /\ UNCHANGED <<guard, queue, operations, late>>
      /\ StopsWithoutWork
  BY DEF Inv, Types, ThreadState, HandlerReturns, HandlerThrows,
         StopsWithoutWork
<1>2. ~stopped
  BY <1>1 DEF Inv, Drained, Handling
<1>3. (stopped' => ~guard') /\ Drained' /\ (~stopped' => late' = 0)
  BY <1>1, <1>2, NothingLeft
<1>4. \A u \in Threads : thread'[u] = "ended" => stopped' \/ GiveUp
  BY <1>2 DEF HandlerReturns, HandlerThrows, Inv, Types
<1>. QED  BY <1>1, <1>3, <1>4 DEF Inv

(* Every step keeps the invariant.                                         *)
LEMMA NextInv == Inv /\ [Next]_vars => Inv'
<1>. SUFFICES ASSUME Inv, [Next]_vars PROVE Inv'
  OBVIOUS
<1>1. CASE Request
  BY <1>1 DEF Request, Inv, Types, Drained, Handling
<1>2. CASE Complete
  BY <1>2 DEF Complete, Inv, Types, Drained, Handling
<1>3. CASE \E t \in Threads : PoolStep(t) \/ HandlerStarts(t)
  <2>. PICK t \in Threads : PoolStep(t) \/ HandlerStarts(t)
    BY <1>3
  <2>1. CASE Handle(t)
    <3>1. Types' /\ ~stopped /\ UNCHANGED <<stopped, guard, late>>
      BY <2>1 DEF Handle, Inv, Types, ThreadState
    <3>2. \A u \in Threads : thread'[u] = "ended" => thread[u] = "ended"
      BY <2>1 DEF Handle, Inv, Types
    <3>. QED  BY <3>1, <3>2 DEF Inv, Drained
  <2>2. CASE HandlerReturns(t) \/ HandlerThrows(t)
    BY <2>2, HandlerEnds
  <2>3. CASE End(t)
    BY <2>3 DEF End, Inv, Types, ThreadState, Drained, Handling
  <2>4. CASE HandlerStarts(t)
    <3>1. ~stopped
      BY <2>4 DEF HandlerStarts, Inv, Drained, Handling
    <3>. QED  BY <2>4, <3>1 DEF HandlerStarts, Inv, Types, Drained
  <2>. QED  BY <2>1, <2>2, <2>3, <2>4 DEF PoolStep
<1>4. CASE Stop
  <2>1. /\ Types'
        /\ StopsWithoutWork
        /\ ~guard'
        /\ UNCHANGED <<thread, queue, operations, late>>
    BY <1>4 DEF Stop, Inv, Types, StopsWithoutWork
  <2>2. (stopped' => ~guard') /\ Drained' /\ (~stopped' => late' = 0)
    BY <2>1, NothingLeft DEF Inv, Drained, Handling
  <2>3. \A t \in Threads : thread'[t] = "ended" => stopped' \/ GiveUp
    BY <2>1 DEF Inv, StopsWithoutWork
  <2>. QED  BY <2>1, <2>2, <2>3 DEF Inv
<1>5. CASE Joined
  BY <1>5 DEF Joined, Inv, Types, Drained, Handling
<1>6. CASE UNCHANGED vars
  BY <1>6 DEF vars, Inv, Types, Drained, Handling
<1>. QED  BY <1>1, <1>2, <1>3, <1>4, <1>5, <1>6 DEF Next

(* The invariant holds throughout.                                         *)
LEMMA SpecInv == Spec => []Inv
BY InitInv, NextInv, PTL DEF Spec

(* As long as the work guard is held, no exception costs the pool a        *)
(* thread.                                                                 *)
THEOREM ThreadsSurvive == Spec => []NoThreadIsLost
<1>1. Inv => NoThreadIsLost
  BY DEF Inv, NoThreadIsLost, Types
<1>. QED  BY <1>1, SpecInv, PTL

(* When the io_context stops, all that was started before is done.         *)
THEOREM StopDrains == Spec => []Drained
<1>1. Inv => Drained
  BY DEF Inv
<1>. QED  BY <1>1, SpecInv, PTL

=============================================================================
