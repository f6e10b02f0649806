----------------------------- MODULE BufferPool ------------------------------
(***************************************************************************)
(* BufferProvider: a bounded pool of buffers, handed out as BufferLocks.   *)
(* get() and reset() hold the provider's mutex; the owner of a lock        *)
(* resizes and releases its buffer under none.                             *)
(*                                                                         *)
(* ~BufferLock() is two writes, busy_ and size_, and as nothing orders     *)
(* them for another thread they may be seen in either order.               *)
(***************************************************************************)
EXTENDS Naturals, FiniteSets

CONSTANTS
  Clients,          \* threads, each with at most one lock at a time
  Buffers,          \* the buffers that can be created
  Sizes,            \* the sizes that resize() is called with
  MaxBufferSize,    \* maxBufferSize_
  MaxBuffersCount   \* maxBuffersCount_

NoBuffer == "none"

ASSUME BufferPoolAssumption ==
  /\ NoBuffer \notin Buffers
  /\ Sizes \subseteq Nat
  /\ MaxBufferSize \in Nat
  /\ MaxBuffersCount \in Nat

VARIABLES
  pool,    \* buffers_
  busy,    \* busy_ of each buffer
  size,    \* size_ of each buffer
  length,  \* data_.size() of each buffer
  lock,    \* of each client: the buffer of its lock, or NoBuffer
  doing    \* of each client: {} while it uses its lock or has none; in
           \*   resize(): {"data"} until data_.resize(), {"torn"} if that
           \*   has thrown; in ~BufferLock(): the writes that are left

bufferVars == <<busy, size, length>>
vars == <<pool, bufferVars, lock, doing>>

Release == {"free", "reset"}

Using(c) == lock[c] # NoBuffer /\ doing[c] \in {{}, {"torn"}}
Releasing(c) == doing[c] \cap Release # {}

-----------------------------------------------------------------------------

(* get() finds a buffer that is not busy; which one does not matter.       *)
GetFree(c, b) ==
  /\ b \in pool
  /\ ~busy[b]
  /\ UNCHANGED <<pool, size, length>>

(* get() creates one, if all are busy and the pool is not full.  (If it is *)
(* full, get() returns no lock.)                                           *)
GetNew(c, b) ==
  /\ \A other \in pool : busy[other]
  /\ Cardinality(pool) < MaxBuffersCount
  /\ b \notin pool
  /\ \A other \in Clients : lock[other] # b
  /\ pool' = pool \cup {b}
  /\ size' = [size EXCEPT ![b] = MaxBufferSize]
  /\ length' = [length EXCEPT ![b] = MaxBufferSize]

(* The constructor of the lock takes the buffer, still under the mutex.    *)
Get(c) ==
  /\ lock[c] = NoBuffer
  /\ \E b \in Buffers :
       /\ GetFree(c, b) \/ GetNew(c, b)
       /\ busy' = [busy EXCEPT ![b] = TRUE]
       /\ lock' = [lock EXCEPT ![c] = b]
  /\ UNCHANGED doing

(* Mutant: all buffers are dropped.                                        *)
ResetPoolAll ==
  /\ pool' = {}
  /\ UNCHANGED <<bufferVars, lock, doing>>

(* reset() of the provider: drop the buffers that are not busy.            *)
ResetPool ==
  /\ pool' = {b \in pool : busy[b]}
  /\ UNCHANGED <<bufferVars, lock, doing>>

-----------------------------------------------------------------------------
(* The owner of a lock.                                                    *)

(* resize(): the first assignment.                                         *)
Resize(c) ==
  /\ Using(c)
  /\ \E n \in Sizes : size' = [size EXCEPT ![lock[c]] = n]
  /\ doing' = [doing EXCEPT ![c] = {"data"}]
  /\ UNCHANGED <<pool, busy, length, lock>>

(* data_.resize(size_), which reads size_ again, or throws.                *)
ResizeData(c) ==
  /\ doing[c] = {"data"}
  /\ \/ /\ length' = [length EXCEPT ![lock[c]] = size[lock[c]]]
        /\ doing' = [doing EXCEPT ![c] = {}]
     \/ /\ doing' = [doing EXCEPT ![c] = {"torn"}]
        /\ UNCHANGED length
  /\ UNCHANGED <<pool, busy, size, lock>>

(* The lock is destroyed.                                                  *)
Unlock(c) ==
  /\ Using(c)
  /\ doing' = [doing EXCEPT ![c] = Release]
  /\ UNCHANGED <<pool, bufferVars, lock>>

(* Mutant: the lock lets go of the buffer at the first of the two.         *)
DoneAtOnce(c, write) ==
  /\ write \in doing[c]
  /\ doing' = [doing EXCEPT ![c] = @ \ {write}]
  /\ lock' = [lock EXCEPT ![c] = NoBuffer]

Done(c, write) ==
  /\ write \in doing[c]
  /\ doing' = [doing EXCEPT ![c] = @ \ {write}]
  /\ lock' = [lock EXCEPT ![c] = IF doing[c] = {write} THEN NoBuffer ELSE @]

Free(c) ==
  /\ Done(c, "free")
  /\ busy' = [busy EXCEPT ![lock[c]] = FALSE]
  /\ UNCHANGED <<pool, size, length>>

(* Mutant: size_ is left as it is.                                         *)
ResetNothing(c) ==
  /\ Done(c, "reset")
  /\ UNCHANGED <<pool, busy, size, length>>

Reset(c) ==
  /\ Done(c, "reset")
  /\ size' = [size EXCEPT ![lock[c]] = 0]
  /\ UNCHANGED <<pool, busy, length>>

-----------------------------------------------------------------------------

Init ==
  /\ pool = {}
  /\ busy = [b \in Buffers |-> FALSE]
  /\ size = [b \in Buffers |-> 0]
  /\ length = [b \in Buffers |-> 0]
  /\ lock = [c \in Clients |-> NoBuffer]
  /\ doing = [c \in Clients |-> {}]

Next ==
  \/ \E c \in Clients :
       Get(c) \/ Resize(c) \/ ResizeData(c) \/ Unlock(c) \/ Free(c) \/ Reset(c)
  \/ ResetPool

Spec == Init /\ [][Next]_vars

-----------------------------------------------------------------------------

(* Type invariant.                                                         *)
TypeOK ==
  /\ pool \subseteq Buffers
  /\ busy \in [Buffers -> BOOLEAN]
  /\ size \in [Buffers -> Nat]
  /\ length \in [Buffers -> Nat]
  /\ lock \in [Clients -> Buffers \cup {NoBuffer}]
  /\ doing \in [Clients -> {{"data"}, {"torn"}} \cup SUBSET Release]
  /\ \A c \in Clients : lock[c] = NoBuffer => doing[c] = {}

(* Clients that have the use of a buffer: their lock has not freed it.     *)
Owners(b) ==
  {c \in Clients : lock[c] = b /\ (Releasing(c) => "free" \in doing[c])}

(* A buffer has one owner at most, exactly as long as it is marked busy    *)
(* and in the pool; so there are never more than MaxBuffersCount locks in  *)
(* use, whatever reset() drops while others get and release.               *)
Exclusive ==
  /\ Cardinality(pool) <= MaxBuffersCount
  /\ \A b \in Buffers :
       /\ \A c, d \in Owners(b) : c = d
       /\ Owners(b) # {} <=> b \in pool /\ busy[b]

(* The writes of past owners to size_ are over, and the owner has not been *)
(* interrupted in resize().                                                *)
Settled(b) ==
  \A c \in Clients : lock[c] = b => doing[c] = {}

(* size() never promises more bytes than data() has, once a buffer is      *)
(* settled: though resize() grows size_ first, and may throw, and though   *)
(* the reset of the lock before may come in the middle of it.              *)
SizeWithinData == \A b \in pool : Settled(b) => size[b] <= length[b]

=============================================================================
