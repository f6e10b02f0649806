-------------------------- MODULE BufferPoolProofs ---------------------------
(***************************************************************************)
(* Safety of BufferPool, for any clients, buffers, sizes and bounds.       *)
(***************************************************************************)
EXTENDS BufferPool, FiniteSetTheorems, TLAPS

Doing == {{"data"}, {"torn"}} \cup SUBSET Release

(* Exclusive is inductive with the types: that a client without a lock has *)
(* nothing left to write is what makes a new lock an owner.                *)
Inv == TypeOK /\ IsFiniteSet(pool) /\ Exclusive

(* A provider without buffers is well typed.                               *)
LEMMA InitType == Init => TypeOK
BY DEF Init, TypeOK, Release

(* get() hands out a buffer to a client that has none.                     *)
LEMMA GetType ==
  ASSUME TypeOK, NEW c \in Clients, Get(c) PROVE TypeOK'
BY BufferPoolAssumption DEF Get, GetFree, GetNew, TypeOK

(* The owner of a lock resizes its buffer, or starts to release it.        *)
LEMMA ResizeType ==
  ASSUME TypeOK, NEW c \in Clients, Resize(c) \/ ResizeData(c) \/ Unlock(c)
  PROVE  TypeOK'
<1>1. lock[c] \in Buffers /\ lock[c] # NoBuffer
  <2>1. doing[c] = {"data"} => lock[c] # NoBuffer
    BY DEF TypeOK
  <2>. QED  BY <2>1 DEF Resize, ResizeData, Unlock, Using, TypeOK
<1>2. \A d \in Doing : [doing EXCEPT ![c] = d] \in [Clients -> Doing]
  BY DEF TypeOK, Doing
<1>3. Release \in Doing /\ {} \in Doing /\ {"data"} \in Doing
      /\ {"torn"} \in Doing
  BY DEF Doing
<1>4. doing' \in [Clients -> Doing]
  BY <1>2, <1>3 DEF Resize, ResizeData, Unlock
<1>5. size' \in [Buffers -> Nat] /\ length' \in [Buffers -> Nat]
  BY <1>1, BufferPoolAssumption DEF Resize, ResizeData, Unlock, TypeOK,
     bufferVars
<1>6. UNCHANGED <<pool, busy, lock>>
  BY DEF Resize, ResizeData, Unlock, bufferVars
<1>7. \A d \in Clients : lock'[d] = NoBuffer => doing'[d] = {}
  BY <1>1, <1>6 DEF Resize, ResizeData, Unlock, TypeOK
<1>. QED  BY <1>4, <1>5, <1>6, <1>7 DEF TypeOK, Doing

(* One of the two writes of ~BufferLock().                                 *)
LEMMA DoneType ==
  ASSUME TypeOK, NEW c \in Clients, NEW write \in Release, Done(c, write)
  PROVE  /\ lock[c] \in Buffers
         /\ doing[c] \in SUBSET Release
         /\ doing' \in [Clients -> Doing]
         /\ lock' \in [Clients -> Buffers \cup {NoBuffer}]
         /\ \A d \in Clients : lock'[d] = NoBuffer => doing'[d] = {}
<1>1. doing[c] \in SUBSET Release /\ lock[c] \in Buffers
  BY DEF TypeOK, Done, Release
<1>2. doing[c] \ {write} \in Doing
  BY <1>1 DEF Doing
<1>3. doing' \in [Clients -> Doing]
  BY <1>2 DEF Done, TypeOK, Doing
<1>4. lock' \in [Clients -> Buffers \cup {NoBuffer}]
  BY DEF Done, TypeOK
<1>5. \A d \in Clients : lock'[d] = NoBuffer => doing'[d] = {}
  BY <1>1, BufferPoolAssumption DEF Done, TypeOK
<1>. QED  BY <1>1, <1>3, <1>4, <1>5

(* ~BufferLock() lets go of the buffer when both writes are done.          *)
LEMMA ReleaseType ==
  ASSUME TypeOK, NEW c \in Clients, Free(c) \/ Reset(c) PROVE TypeOK'
<1>1. CASE Free(c)
  BY <1>1, DoneType DEF Free, Release, TypeOK, Doing
<1>2. CASE Reset(c)
  BY <1>2, DoneType DEF Reset, Release, TypeOK, Doing
<1>. QED  BY <1>1, <1>2

(* Every step keeps the types.                                             *)
LEMMA NextType == TypeOK /\ [Next]_vars => TypeOK'
<1>. SUFFICES ASSUME TypeOK, [Next]_vars PROVE TypeOK'
  OBVIOUS
<1>1. ASSUME NEW c \in Clients,
             Get(c) \/ Resize(c) \/ ResizeData(c) \/ Unlock(c) \/ Free(c)
               \/ Reset(c)
      PROVE  TypeOK'
  BY <1>1, GetType, ResizeType, ReleaseType
<1>2. CASE ResetPool
  BY <1>2 DEF ResetPool, bufferVars, TypeOK
<1>3. CASE UNCHANGED vars
  BY <1>3 DEF vars, bufferVars, TypeOK
<1>. QED  BY <1>1, <1>2, <1>3 DEF Next

-----------------------------------------------------------------------------
(* How each step changes the owners of a buffer.                           *)

(* get() gives the buffer one more owner, and no other buffer.             *)
LEMMA GetOwners ==
  ASSUME TypeOK, NEW c \in Clients, NEW b \in Buffers,
         lock[c] = NoBuffer, lock' = [lock EXCEPT ![c] = b], UNCHANGED doing
  PROVE  /\ Owners(b)' = Owners(b) \cup {c}
         /\ \A other \in Buffers \ {b} : Owners(other)' = Owners(other)
<1>1. doing[c] = {}
  BY DEF TypeOK
<1>. QED  BY <1>1, BufferPoolAssumption DEF Owners, Releasing, TypeOK

(* The write of busy_ takes the owner away from its buffer.                *)
LEMMA FreeOwners ==
  ASSUME TypeOK, NEW c \in Clients, Free(c)
  PROVE  /\ lock[c] \in Buffers
         /\ c \in Owners(lock[c])
         /\ \A b \in Buffers :
              Owners(b)' = IF b = lock[c] THEN Owners(b) \ {c} ELSE Owners(b)
<1>1. /\ lock[c] \in Buffers
      /\ doing[c] \in SUBSET Release
      /\ "free" \in doing[c]
  BY DoneType DEF Free, Done, Release
<1>2. c \in Owners(lock[c])
  BY <1>1 DEF Owners
<1>3. /\ doing' = [doing EXCEPT ![c] = doing[c] \ {"free"}]
      /\ lock' = [lock EXCEPT ![c] = IF doing[c] = {"free"} THEN NoBuffer
                                     ELSE lock[c]]
  BY DEF Free, Done
<1>4. ~(lock'[c] \in Buffers) \/ (Releasing(c)' /\ "free" \notin doing'[c])
  BY <1>1, <1>3, BufferPoolAssumption DEF Releasing, Release, TypeOK
<1>5. \A b \in Buffers : c \notin Owners(b)'
  BY <1>4 DEF Owners
<1>6. \A b \in Buffers, d \in Clients \ {c} :
        d \in Owners(b)' <=> d \in Owners(b)
  BY <1>3 DEF Owners, Releasing, TypeOK
<1>7. \A b \in Buffers : c \in Owners(b) => b = lock[c]
  BY DEF Owners
<1>8. \A b \in Buffers : Owners(b)' \subseteq Clients
                         /\ Owners(b) \subseteq Clients
  BY DEF Owners
<1>9. \A b \in Buffers :
        Owners(b)' = IF b = lock[c] THEN Owners(b) \ {c} ELSE Owners(b)
  <2>. TAKE b \in Buffers
  <2>1. Owners(b)' = Owners(b) \ {c}
    BY <1>5, <1>6, <1>8
  <2>2. b # lock[c] => Owners(b) \ {c} = Owners(b)
    BY <1>7
  <2>. QED  BY <2>1, <2>2
<1>. QED  BY <1>1, <1>2, <1>9

(* The write of size_ changes no owner.                                    *)
LEMMA ResetOwners ==
  ASSUME TypeOK, NEW c \in Clients, Reset(c)
  PROVE  \A b \in Buffers : Owners(b)' = Owners(b)
<1>1. /\ lock[c] \in Buffers
      /\ doing[c] \in SUBSET Release
      /\ "reset" \in doing[c]
  BY DoneType DEF Reset, Done, Release
<1>2. /\ doing' = [doing EXCEPT ![c] = doing[c] \ {"reset"}]
      /\ lock' = [lock EXCEPT ![c] = IF doing[c] = {"reset"} THEN NoBuffer
                                     ELSE lock[c]]
  BY DEF Reset, Done
<1>3. \A b \in Buffers : c \in Owners(b)' <=> c \in Owners(b)
  <2>1. CASE doing[c] = {"reset"}
    BY <1>1, <1>2, <2>1, BufferPoolAssumption
    DEF Owners, Releasing, Release, TypeOK
  <2>2. CASE doing[c] # {"reset"}
    <3>1. "free" \in doing[c] /\ "free" \in doing'[c] /\ lock'[c] = lock[c]
      BY <1>1, <1>2, <2>2 DEF Release, TypeOK
    <3>. QED  BY <3>1 DEF Owners
  <2>. QED  BY <2>1, <2>2
<1>4. \A b \in Buffers, d \in Clients \ {c} :
        d \in Owners(b)' <=> d \in Owners(b)
  BY <1>2 DEF Owners, Releasing, TypeOK
<1>5. \A b \in Buffers : Owners(b)' \subseteq Clients
                         /\ Owners(b) \subseteq Clients
  BY DEF Owners
<1>. QED  BY <1>3, <1>4, <1>5

(* Neither does the use of a buffer under its lock.                        *)
LEMMA ResizeOwners ==
  ASSUME TypeOK, NEW c \in Clients, Resize(c) \/ ResizeData(c) \/ Unlock(c)
  PROVE  \A b \in Buffers : Owners(b)' = Owners(b)
<1>1. lock' = lock
  BY DEF Resize, ResizeData, Unlock
<1>2. \A d \in Clients :
        (Releasing(d) => "free" \in doing[d])'
          <=> (Releasing(d) => "free" \in doing[d])
  <2>1. doing[c] \cap Release = {}
    BY DEF Resize, ResizeData, Unlock, Using, Release
  <2>2. doing'[c] \cap Release = {} \/ "free" \in doing'[c]
    BY DEF Resize, ResizeData, Unlock, Release, TypeOK
  <2>3. \A d \in Clients \ {c} : doing'[d] = doing[d]
    BY DEF Resize, ResizeData, Unlock, TypeOK
  <2>. QED  BY <2>1, <2>2, <2>3 DEF Releasing
<1>. QED  BY <1>1, <1>2 DEF Owners

-----------------------------------------------------------------------------

(* get() hands out a buffer nobody owns, within the bound.                 *)
LEMMA GetInv ==
  ASSUME Inv, NEW c \in Clients, Get(c)
  PROVE  IsFiniteSet(pool') /\ Exclusive'
<1>. PICK b \in Buffers :
       /\ GetFree(c, b) \/ GetNew(c, b)
       /\ busy' = [busy EXCEPT ![b] = TRUE]
       /\ lock' = [lock EXCEPT ![c] = b]
  BY DEF Get
<1>1. /\ Owners(b)' = Owners(b) \cup {c}
      /\ \A other \in Buffers \ {b} : Owners(other)' = Owners(other)
  BY GetOwners DEF Get, Inv
<1>2. Owners(b) = {}
  <2>1. CASE GetFree(c, b)
    BY <2>1 DEF GetFree, Inv, Exclusive
  <2>2. CASE GetNew(c, b)
    BY <2>2 DEF GetNew, Owners
  <2>. QED  BY <2>1, <2>2
<1>3. /\ IsFiniteSet(pool')
      /\ Cardinality(pool') <= MaxBuffersCount
      /\ pool' = pool \cup {b}
  <2>1. CASE GetFree(c, b)
    BY <2>1 DEF GetFree, Inv, Exclusive
  <2>2. CASE GetNew(c, b)
    <3>1. /\ pool' = pool \cup {b}
          /\ b \notin pool
          /\ IsFiniteSet(pool)
          /\ Cardinality(pool) < MaxBuffersCount
      BY <2>2 DEF GetNew, Inv
    <3>2. /\ IsFiniteSet(pool')
          /\ Cardinality(pool') = Cardinality(pool) + 1
      BY <3>1, FS_AddElement
    <3>3. Cardinality(pool) \in Nat
      BY <3>1, FS_CardinalityType
    <3>4. Cardinality(pool') <= MaxBuffersCount
      BY <3>1, <3>2, <3>3, BufferPoolAssumption
    <3>. QED  BY <3>1, <3>2, <3>4
  <2>. QED  BY <2>1, <2>2
<1>4. /\ busy'[b] = TRUE
      /\ \A other \in Buffers \ {b} : busy'[other] = busy[other]
  BY DEF Inv, TypeOK
<1>. QED  BY <1>1, <1>2, <1>3, <1>4 DEF Inv, Exclusive

(* A buffer that is freed has lost its only owner.                         *)
LEMMA FreeInv ==
  ASSUME Inv, NEW c \in Clients, Free(c)
  PROVE  IsFiniteSet(pool') /\ Exclusive'
<1>1. /\ lock[c] \in Buffers
      /\ c \in Owners(lock[c])
      /\ \A b \in Buffers :
           Owners(b)' = IF b = lock[c] THEN Owners(b) \ {c} ELSE Owners(b)
  BY FreeOwners DEF Inv
<1>2. pool' = pool /\ busy' = [busy EXCEPT ![lock[c]] = FALSE]
  BY DEF Free
<1>3. \A d \in Owners(lock[c]) : d = c
  BY <1>1 DEF Inv, Exclusive
<1>. QED  BY <1>1, <1>2, <1>3 DEF Inv, Exclusive, TypeOK

(* reset() drops only buffers nobody owns.                                 *)
LEMMA ResetPoolInv ==
  ASSUME Inv, ResetPool
  PROVE  IsFiniteSet(pool') /\ Exclusive'
<1>1. /\ pool' = {b \in pool : busy[b]}
      /\ UNCHANGED <<busy, lock, doing>>
  BY DEF ResetPool, bufferVars
<1>2. IsFiniteSet(pool') /\ Cardinality(pool') <= Cardinality(pool)
  BY <1>1, FS_Subset DEF Inv
<1>3. Cardinality(pool') \in Nat /\ Cardinality(pool) \in Nat
  BY <1>2, FS_CardinalityType DEF Inv
<1>4. Cardinality(pool') <= MaxBuffersCount
  BY <1>2, <1>3, BufferPoolAssumption DEF Inv, Exclusive
<1>5. \A b \in Buffers : Owners(b)' = Owners(b)
  BY <1>1 DEF Owners, Releasing
<1>. QED  BY <1>1, <1>2, <1>4, <1>5 DEF Inv, Exclusive

(* Every step keeps the invariant.                                         *)
LEMMA NextInv == Inv /\ [Next]_vars => Inv'
<1>. SUFFICES ASSUME Inv, [Next]_vars PROVE Inv'
  OBVIOUS
<1>1. TypeOK'
  BY NextType DEF Inv
<1>2. ASSUME NEW c \in Clients,
             Get(c) \/ Resize(c) \/ ResizeData(c) \/ Unlock(c) \/ Free(c)
               \/ Reset(c)
      PROVE  IsFiniteSet(pool') /\ Exclusive'
  <2>1. CASE Resize(c) \/ ResizeData(c) \/ Unlock(c)
    <3>1. UNCHANGED <<pool, busy>>
      BY <2>1 DEF Resize, ResizeData, Unlock, bufferVars
    <3>. QED  BY <2>1, <3>1, ResizeOwners DEF Inv, Exclusive
  <2>2. CASE Reset(c)
    <3>1. UNCHANGED <<pool, busy>>
      BY <2>2 DEF Reset
    <3>. QED  BY <2>2, <3>1, ResetOwners DEF Inv, Exclusive
  <2>. QED  BY <1>2, <2>1, <2>2, GetInv, FreeInv
<1>3. CASE ResetPool
  BY <1>1, <1>3, ResetPoolInv DEF Inv
<1>4. CASE UNCHANGED vars
  <2>1. UNCHANGED <<pool, busy, lock, doing>>
    BY <1>4 DEF vars, bufferVars
  <2>. QED  BY <1>1, <2>1 DEF Inv, Exclusive, Owners, Releasing
<1>. QED  BY <1>1, <1>2, <1>3, <1>4 DEF Next, Inv

(* No buffer exists at first, so none has an owner.                        *)
LEMMA InitInv == Init => Inv
<1>. SUFFICES ASSUME Init PROVE Inv
  OBVIOUS
<1>1. IsFiniteSet(pool) /\ Cardinality(pool) = 0
  BY FS_EmptySet DEF Init
<1>2. \A b \in Buffers : Owners(b) = {}
  BY BufferPoolAssumption DEF Init, Owners
<1>. QED
  BY <1>1, <1>2, InitType, BufferPoolAssumption DEF Init, Inv, Exclusive

(* A buffer never has two owners, an owned buffer is never dropped by      *)
(* reset() and the pool never exceeds its bound.                           *)
THEOREM LocksAreExclusive == Spec => []Exclusive
<1>1. Spec => []Inv
  BY InitInv, NextInv, PTL DEF Spec
<1>2. Inv => Exclusive
  BY DEF Inv
<1>. QED  BY <1>1, <1>2, PTL

(* Type correctness: among it that who has no lock is not inside one of    *)
(* its operations.                                                         *)
THEOREM TypeCorrect == Spec => []TypeOK
BY InitType, NextType, PTL DEF Spec

-----------------------------------------------------------------------------
(* Sizes.                                                                  *)

(* The client has set size_ to what data_ may not have, or will clear it.  *)
Unsettled(c, b) ==
  lock[c] = b /\ doing[c] \cap {"data", "torn", "reset"} # {}

(* A buffer promises more bytes than it has only while somebody is about   *)
(* to change its size.  That this includes the lock before the present one *)
(* makes it inductive: its reset of size_ may come in the middle of a      *)
(* resize().                                                               *)
SizeInv ==
  \A b \in pool : size[b] <= length[b] \/ \E c \in Clients : Unsettled(c, b)

(* get() finds a buffer as it is, or creates one whose sizes agree.        *)
LEMMA GetSize ==
  ASSUME TypeOK, SizeInv, NEW c \in Clients, Get(c)
  PROVE  SizeInv'
<1>. PICK b \in Buffers :
       /\ GetFree(c, b) \/ GetNew(c, b)
       /\ lock' = [lock EXCEPT ![c] = b]
       /\ doing' = doing
  BY DEF Get
<1>. SUFFICES ASSUME NEW other \in pool'
              PROVE  \/ size'[other] <= length'[other]
                     \/ \E d \in Clients : Unsettled(d, other)'
  BY DEF SizeInv
<1>1. \A d \in Clients : Unsettled(d, other) => Unsettled(d, other)'
  BY BufferPoolAssumption DEF Unsettled, Get, TypeOK
<1>2. CASE GetFree(c, b)
  BY <1>1, <1>2 DEF GetFree, SizeInv
<1>3. CASE GetNew(c, b) /\ other = b
  BY <1>3, BufferPoolAssumption DEF GetNew, TypeOK
<1>4. CASE GetNew(c, b) /\ other # b
  <2>1. /\ other \in pool
        /\ size'[other] = size[other]
        /\ length'[other] = length[other]
    BY <1>4 DEF GetNew, TypeOK
  <2>. QED  BY <1>1, <2>1 DEF SizeInv
<1>. QED  BY <1>2, <1>3, <1>4

(* resize() makes the two sizes agree in the end, unless it throws.        *)
LEMMA ResizeSize ==
  ASSUME TypeOK, SizeInv, NEW c \in Clients, Resize(c) \/ ResizeData(c)
  PROVE  SizeInv'
<1>1. lock[c] \in Buffers /\ UNCHANGED <<pool, lock>>
  BY DEF Resize, ResizeData, Using, TypeOK
<1>. SUFFICES ASSUME NEW b \in pool
              PROVE  \/ size'[b] <= length'[b]
                     \/ \E d \in Clients : Unsettled(d, b)'
  BY <1>1 DEF SizeInv
<1>2. \A d \in Clients \ {c} : Unsettled(d, b) => Unsettled(d, b)'
  BY <1>1 DEF Unsettled, Resize, ResizeData, TypeOK
<1>3. CASE b # lock[c]
  <2>1. size'[b] = size[b] /\ length'[b] = length[b]
    BY <1>1, <1>3 DEF Resize, ResizeData, TypeOK
  <2>2. ~Unsettled(c, b)
    BY <1>3 DEF Unsettled
  <2>. QED  BY <1>2, <2>1, <2>2 DEF SizeInv
<1>4. CASE b = lock[c] /\ doing'[c] \in {{"data"}, {"torn"}}
  <2>1. Unsettled(c, b)'
    BY <1>1, <1>4 DEF Unsettled
  <2>. QED  BY <2>1
<1>5. CASE b = lock[c] /\ doing'[c] \notin {{"data"}, {"torn"}}
  <2>1. length' = [length EXCEPT ![b] = size[b]] /\ size' = size
    BY <1>5 DEF Resize, ResizeData, TypeOK
  <2>2. b \in Buffers /\ size[b] \in Nat
    BY <1>1, <1>5 DEF TypeOK
  <2>. QED  BY <2>1, <2>2 DEF TypeOK
<1>. QED  BY <1>3, <1>4, <1>5

(* A lock that goes clears size_, and is not forgotten before it has.      *)
LEMMA ReleaseSize ==
  ASSUME TypeOK, SizeInv, NEW c \in Clients, Unlock(c) \/ Free(c) \/ Reset(c)
  PROVE  SizeInv'
<1>. SUFFICES ASSUME NEW b \in pool
              PROVE  \/ size'[b] <= length'[b]
                     \/ \E d \in Clients : Unsettled(d, b)'
  BY DEF SizeInv, Unlock, Free, Reset
<1>1. /\ \A d \in Clients \ {c} : Unsettled(d, b) => Unsettled(d, b)'
      /\ b \in Buffers
      /\ length' = length
  BY DEF Unsettled, Unlock, Free, Reset, Done, TypeOK, bufferVars
<1>2. CASE Unlock(c)
  <2>1. Unsettled(c, b) => Unsettled(c, b)'
    BY <1>2 DEF Unsettled, Unlock, Release, TypeOK
  <2>. QED  BY <1>1, <1>2, <2>1 DEF SizeInv, Unlock, bufferVars
<1>3. CASE Free(c)
  <2>1. Unsettled(c, b) => Unsettled(c, b)'
    <3>1. doing[c] \in SUBSET Release
      BY <1>3, DoneType DEF Free, Release
    <3>. SUFFICES ASSUME Unsettled(c, b) PROVE Unsettled(c, b)'
      OBVIOUS
    <3>2. "reset" \in doing[c]
      BY <3>1 DEF Unsettled, Release
    <3>3. "reset" \in doing'[c] /\ lock'[c] = lock[c]
      BY <1>3, <3>2 DEF Free, Done, TypeOK
    <3>. QED  BY <3>3 DEF Unsettled
  <2>. QED  BY <1>1, <1>3, <2>1 DEF SizeInv, Free
<1>4. CASE Reset(c)
  <2>1. size' = [size EXCEPT ![lock[c]] = 0]
    BY <1>4 DEF Reset
  <2>2. CASE lock[c] = b
    BY <1>1, <2>1, <2>2 DEF TypeOK
  <2>3. CASE lock[c] # b
    <3>1. ~Unsettled(c, b) /\ size'[b] = size[b]
      BY <1>1, <2>1, <2>3 DEF Unsettled, TypeOK
    <3>. QED  BY <1>1, <3>1 DEF SizeInv
  <2>. QED  BY <2>2, <2>3
<1>. QED  BY <1>2, <1>3, <1>4

(* A settled buffer has the bytes it promises: neither a resize() that     *)
(* throws nor the late reset of the lock before leaves it with fewer.      *)
THEOREM SizesAgree == Spec => []SizeWithinData
<1>1. Init => SizeInv
  BY DEF Init, SizeInv
<1>2. TypeOK /\ SizeInv /\ [Next]_vars => SizeInv'
  <2>. SUFFICES ASSUME TypeOK, SizeInv, [Next]_vars PROVE SizeInv'
    OBVIOUS
  <2>1. CASE ResetPool
    BY <2>1 DEF ResetPool, bufferVars, SizeInv, Unsettled
  <2>2. CASE UNCHANGED vars
    BY <2>2 DEF vars, bufferVars, SizeInv, Unsettled
  <2>. QED  BY <2>1, <2>2, GetSize, ResizeSize, ReleaseSize DEF Next
<1>3. SizeInv => SizeWithinData
  BY DEF SizeInv, SizeWithinData, Settled, Unsettled
<1>. QED  BY <1>1, <1>2, <1>3, TypeCorrect, PTL DEF Spec

=============================================================================
