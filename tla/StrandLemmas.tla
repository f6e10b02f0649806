----------------------------- MODULE StrandLemmas ----------------------------
(***************************************************************************)
(* A strand of Boost.Asio is a queue of handlers: post() appends to it,    *)
(* the pool runs its head.  What the proofs need of such a queue: which    *)
(* handlers wait in it, whether one of a kind at most does, and whether    *)
(* those of one kind all have one of another kind behind them.             *)
(***************************************************************************)
EXTENDS Integers, Sequences, FiniteSetTheorems, FunctionTheorems, TLAPS

(* "tasks" and "others" are sets of handlers, "line" is a strand.          *)
Waits(tasks, line) == \E i \in 1 .. Len(line) : line[i] \in tasks

AtMostOneWaits(tasks, line) ==
  \A i, j \in 1 .. Len(line) :
    line[i] \in tasks /\ line[j] \in tasks => i = j

Followed(tasks, others, line) ==
  \A i \in 1 .. Len(line) :
    line[i] \in tasks => \E j \in i + 1 .. Len(line) : line[j] \in others

Places(tasks, line) == {i \in 1 .. Len(line) : line[i] \in tasks}

Count(tasks, line) == Cardinality(Places(tasks, line))

NoMore(tasks, new, old) == Count(tasks, new) <= Count(tasks, old)

-----------------------------------------------------------------------------

(* A sequence is a function of its places.                                 *)
LEMMA ElementFacts ==
  ASSUME NEW S, NEW s \in Seq(S)
  PROVE  /\ Len(s) \in Nat
         /\ DOMAIN s = 1 .. Len(s)
         /\ \A i \in 1 .. Len(s) : s[i] \in S
  OBVIOUS

(* The front of a sequence leaves: what is left is a sequence of the same  *)
(* elements, each one place further on.                                    *)
LEMMA TailFacts ==
  ASSUME NEW S, NEW s \in Seq(S), s # <<>>
  PROVE  /\ Head(s) \in S
         /\ Tail(s) \in Seq(S)
         /\ Len(s) \in Nat \ {0}
         /\ Len(Tail(s)) = Len(s) - 1
         /\ \A i \in 1 .. Len(s) - 1 : Tail(s)[i] = s[i + 1]
         /\ Head(s) = s[1]
  OBVIOUS

(* An element is appended: the others keep their places.                   *)
LEMMA AppendFacts ==
  ASSUME NEW S, NEW s \in Seq(S), NEW e \in S
  PROVE  /\ Append(s, e) \in Seq(S)
         /\ Len(s) \in Nat
         /\ Len(Append(s, e)) = Len(s) + 1
         /\ \A i \in 1 .. Len(s) : Append(s, e)[i] = s[i]
         /\ Append(s, e)[Len(s) + 1] = e
  OBVIOUS

(* Nothing waits in an empty strand.                                       *)
LEMMA NoneWaits ==
  /\ \A tasks : ~Waits(tasks, <<>>)
  /\ \A tasks, line :
       ~Waits(tasks, line) =>
         /\ AtMostOneWaits(tasks, line)
         /\ \A others : Followed(tasks, others, line)
BY DEF Waits, AtMostOneWaits, Followed

(* Posting a handler adds that handler.                                    *)
LEMMA WaitsAppend ==
  ASSUME NEW S, NEW tasks, NEW line \in Seq(S), NEW task \in S
  PROVE  /\ Waits(tasks, Append(line, task))
            <=> Waits(tasks, line) \/ task \in tasks
         /\ AtMostOneWaits(tasks, line)
            /\ (task \in tasks => ~Waits(tasks, line))
            => AtMostOneWaits(tasks, Append(line, task))
BY AppendFacts DEF Waits, AtMostOneWaits

(* Running a handler removes that handler.                                 *)
LEMMA WaitsTail ==
  ASSUME NEW S, NEW tasks, NEW line \in Seq(S), line # <<>>
  PROVE  /\ Waits(tasks, line)
            <=> Head(line) \in tasks \/ Waits(tasks, Tail(line))
         /\ AtMostOneWaits(tasks, line)
            => /\ AtMostOneWaits(tasks, Tail(line))
               /\ Head(line) \in tasks => ~Waits(tasks, Tail(line))
<1>. DEFINE rest == Tail(line)
<1>1. /\ Len(line) \in Nat \ {0}
      /\ Len(rest) = Len(line) - 1
      /\ \A i \in 1 .. Len(line) - 1 : rest[i] = line[i + 1]
      /\ Head(line) = line[1]
  BY TailFacts
<1>. HIDE DEF rest
<1>2. \A i \in 1 .. Len(line) :
        i = 1 \/ (i - 1 \in 1 .. Len(rest) /\ rest[i - 1] = line[i])
  <2>1. TAKE i \in 1 .. Len(line)
  <2>2. i # 1 => i - 1 \in 1 .. Len(line) - 1 /\ (i - 1) + 1 = i
    BY <1>1
  <2>. QED  BY <1>1, <2>2
<1>3. Waits(tasks, line) <=> Head(line) \in tasks \/ Waits(tasks, rest)
  BY <1>1, <1>2 DEF Waits
<1>4. AtMostOneWaits(tasks, line)
      => /\ AtMostOneWaits(tasks, rest)
         /\ Head(line) \in tasks => ~Waits(tasks, rest)
  BY <1>1 DEF AtMostOneWaits, Waits
<1>. QED  BY <1>3, <1>4 DEF rest

(* A handler that is posted stands behind all the others.                  *)
LEMMA FollowedAppend ==
  ASSUME NEW S, NEW tasks, NEW others, NEW line \in Seq(S), NEW task \in S,
         \/ task \in others /\ task \notin tasks
         \/ Followed(tasks, others, line) /\ task \notin tasks
  PROVE  Followed(tasks, others, Append(line, task))
<1>1. /\ Len(line) \in Nat
      /\ Len(Append(line, task)) = Len(line) + 1
      /\ \A i \in 1 .. Len(line) : Append(line, task)[i] = line[i]
      /\ Append(line, task)[Len(line) + 1] = task
  BY AppendFacts
<1>. SUFFICES ASSUME NEW i \in 1 .. Len(Append(line, task)),
                     Append(line, task)[i] \in tasks
              PROVE  \E j \in i + 1 .. Len(Append(line, task)) :
                       Append(line, task)[j] \in others
  BY DEF Followed
<1>2. i \in 1 .. Len(line) /\ line[i] \in tasks
  BY <1>1
<1>3. CASE task \in others
  BY <1>1, <1>2, <1>3
<1>4. CASE Followed(tasks, others, line)
  <2>1. PICK j \in i + 1 .. Len(line) : line[j] \in others
    BY <1>2, <1>4 DEF Followed
  <2>2. j \in 1 .. Len(line) /\ j \in i + 1 .. Len(line) + 1
    BY <1>1, <1>2, <2>1
  <2>. QED  BY <1>1, <2>1, <2>2
<1>. QED  BY <1>3, <1>4

(* The handler that runs stood behind nobody; if it was of the first kind, *)
(* one of the second still waits.                                          *)
LEMMA FollowedTail ==
  ASSUME NEW S, NEW tasks, NEW others, NEW line \in Seq(S), line # <<>>,
         Followed(tasks, others, line)
  PROVE  /\ Followed(tasks, others, Tail(line))
         /\ Head(line) \in tasks => Waits(others, Tail(line))
<1>. DEFINE rest == Tail(line)
<1>1. /\ Len(line) \in Nat \ {0}
      /\ Len(rest) = Len(line) - 1
      /\ \A i \in 1 .. Len(line) - 1 : rest[i] = line[i + 1]
      /\ Head(line) = line[1]
  BY TailFacts
<1>. HIDE DEF rest
<1>2. ASSUME NEW i \in 1 .. Len(line), line[i] \in tasks
      PROVE  \E j \in i .. Len(rest) : rest[j] \in others
  <2>1. PICK j \in i + 1 .. Len(line) : line[j] \in others
    BY <1>2 DEF Followed
  <2>2. /\ j - 1 \in i .. Len(rest)
        /\ j - 1 \in 1 .. Len(line) - 1
        /\ (j - 1) + 1 = j
    BY <1>1, <2>1
  <2>. QED  BY <1>1, <2>1, <2>2
<1>3. Followed(tasks, others, rest)
  <2>. SUFFICES ASSUME NEW i \in 1 .. Len(rest), rest[i] \in tasks
                PROVE  \E j \in i + 1 .. Len(rest) : rest[j] \in others
    BY DEF Followed
  <2>1. i + 1 \in 1 .. Len(line) /\ line[i + 1] \in tasks
    BY <1>1
  <2>. QED  BY <1>2, <2>1
<1>4. Head(line) \in tasks => Waits(others, rest)
  <2>1. 1 \in 1 .. Len(line)
    BY <1>1
  <2>2. Head(line) \in tasks => \E j \in 1 .. Len(rest) : rest[j] \in others
    BY <1>1, <1>2, <2>1
  <2>. QED  BY <2>2 DEF Waits
<1>. QED  BY <1>3, <1>4 DEF rest

(* How many handlers wait is a number; it says whether one does, and       *)
(* whether one at most does.                                               *)
LEMMA CountFacts ==
  ASSUME NEW S, NEW tasks, NEW line \in Seq(S)
  PROVE  /\ IsFiniteSet(Places(tasks, line))
         /\ Count(tasks, line) \in Nat
         /\ Waits(tasks, line) <=> Count(tasks, line) # 0
         /\ AtMostOneWaits(tasks, line) <=> Count(tasks, line) <= 1
<1>. DEFINE places == Places(tasks, line)
<1>1. IsFiniteSet(1 .. Len(line)) /\ places \subseteq 1 .. Len(line)
  BY FS_Interval DEF Places
<1>2. IsFiniteSet(places) /\ Cardinality(places) \in Nat
  BY <1>1, FS_Subset, FS_CardinalityType
<1>3. Waits(tasks, line) <=> places # {}
  BY DEF Waits, Places
<1>4. AtMostOneWaits(tasks, line) <=> \A i, j \in places : i = j
  BY DEF AtMostOneWaits, Places
<1>. HIDE DEF places
<1>5. places = {} <=> Cardinality(places) = 0
  BY <1>2, FS_EmptySet
<1>6. (\E x : places = {x}) <=> Cardinality(places) = 1
  BY <1>2, FS_Singleton
<1>7. (\A i, j \in places : i = j) <=> (places = {} \/ \E x : places = {x})
  <2>1. ASSUME \A i, j \in places : i = j, NEW x \in places
        PROVE  places = {x}
    BY <2>1
  <2>. QED  BY <2>1
<1>8. Cardinality(places) <= 1
        <=> Cardinality(places) = 0 \/ Cardinality(places) = 1
  BY <1>2
<1>. QED  BY <1>2, <1>3, <1>4, <1>5, <1>6, <1>7, <1>8 DEF Count, places

(* Posting a handler counts that handler.                                  *)
LEMMA CountAppend ==
  ASSUME NEW S, NEW tasks, NEW line \in Seq(S), NEW task \in S
  PROVE  Count(tasks, Append(line, task)) =
           Count(tasks, line) + IF task \in tasks THEN 1 ELSE 0
<1>. DEFINE longer == Append(line, task)
            end == Len(line) + 1
<1>1. /\ Len(line) \in Nat
      /\ Len(longer) = end
      /\ \A i \in 1 .. Len(line) : longer[i] = line[i]
      /\ longer[end] = task
  BY AppendFacts
<1>. HIDE DEF longer
<1>2. Places(tasks, longer) =
        Places(tasks, line) \cup IF task \in tasks THEN {end} ELSE {}
  BY <1>1 DEF Places
<1>3. end \notin Places(tasks, line)
  BY <1>1 DEF Places
<1>4. IsFiniteSet(Places(tasks, line)) /\ Count(tasks, line) \in Nat
  BY CountFacts
<1>5. CASE task \in tasks
  <2>1. Places(tasks, longer) = Places(tasks, line) \cup {end}
    BY <1>2, <1>5
  <2>. QED  BY <1>3, <1>4, <1>5, <2>1, FS_AddElement DEF Count, longer
<1>6. CASE task \notin tasks
  <2>1. Places(tasks, longer) = Places(tasks, line)
    BY <1>2, <1>6
  <2>. QED  BY <1>4, <1>6, <2>1 DEF Count, longer
<1>. QED  BY <1>5, <1>6

(* Running a handler takes it from the count.                              *)
LEMMA CountTail ==
  ASSUME NEW S, NEW tasks, NEW line \in Seq(S), line # <<>>
  PROVE  Count(tasks, line) =
           Count(tasks, Tail(line)) + IF Head(line) \in tasks THEN 1 ELSE 0
<1>. DEFINE rest == Tail(line)
            behind == Places(tasks, line) \ {1}
            shift == [i \in Places(tasks, rest) |-> i + 1]
<1>1. /\ Len(line) \in Nat \ {0}
      /\ Len(rest) = Len(line) - 1
      /\ \A i \in 1 .. Len(line) - 1 : rest[i] = line[i + 1]
      /\ Head(line) = line[1]
      /\ rest \in Seq(S)
  BY TailFacts
<1>. HIDE DEF rest
<1>2. ExistsBijection(Places(tasks, rest), behind)
  <2>1. \A i \in Places(tasks, rest) : i \in Nat /\ i + 1 \in behind
    BY <1>1 DEF Places
  <2>2. \A j \in behind : \E i \in Places(tasks, rest) : i + 1 = j
    <3>1. \A j \in behind : j - 1 \in Places(tasks, rest) /\ (j - 1) + 1 = j
      BY <1>1 DEF Places
    <3>. QED  BY <3>1
  <2>3. \A i, k \in Places(tasks, rest) : i + 1 = k + 1 => i = k
    BY <2>1
  <2>. HIDE DEF behind
  <2>4. shift \in Bijection(Places(tasks, rest), behind)
    BY <2>1, <2>2, <2>3, Fun_IsBij
  <2>. QED  BY <2>4 DEF ExistsBijection
<1>3. /\ IsFiniteSet(Places(tasks, rest)) /\ IsFiniteSet(Places(tasks, line))
      /\ Count(tasks, rest) \in Nat /\ Count(tasks, line) \in Nat
  BY <1>1, CountFacts
<1>4. Cardinality(behind) = Count(tasks, rest)
  BY <1>2, <1>3, FS_Bijection DEF Count
<1>5. 1 \in Places(tasks, line) <=> Head(line) \in tasks
  BY <1>1 DEF Places
<1>6. Cardinality(behind) =
        IF 1 \in Places(tasks, line) THEN Count(tasks, line) - 1
                                     ELSE Count(tasks, line)
  BY <1>3, FS_RemoveElement DEF Count
<1>. HIDE DEF behind
<1>. QED  BY <1>3, <1>4, <1>5, <1>6 DEF rest

(* Posting handlers of other kinds, and running handlers, leaves no more   *)
(* handlers of a kind than there were.                                     *)
LEMMA NoMoreFacts ==
  ASSUME NEW S, NEW tasks
  PROVE  /\ \A line \in Seq(S) :
              /\ NoMore(tasks, line, line)
              /\ line # <<>> => NoMore(tasks, Tail(line), line)
              /\ \A task \in S \ tasks :
                   NoMore(tasks, Append(line, task), line)
         /\ \A old, line, new \in Seq(S) :
              NoMore(tasks, new, line) /\ NoMore(tasks, line, old)
              => NoMore(tasks, new, old)
         /\ \A old, new \in Seq(S) :
              NoMore(tasks, new, old) =>
                /\ Waits(tasks, new) => Waits(tasks, old)
                /\ AtMostOneWaits(tasks, old) => AtMostOneWaits(tasks, new)
<1>1. \A line \in Seq(S) : Count(tasks, line) \in Nat
  BY CountFacts
<1>2. ASSUME NEW line \in Seq(S)
      PROVE  /\ NoMore(tasks, line, line)
             /\ line # <<>> => NoMore(tasks, Tail(line), line)
             /\ \A task \in S \ tasks :
                  NoMore(tasks, Append(line, task), line)
  <2>1. ASSUME line # <<>> PROVE NoMore(tasks, Tail(line), line)
    <3>1. Count(tasks, line) =
            Count(tasks, Tail(line)) + IF Head(line) \in tasks THEN 1 ELSE 0
      BY <2>1, CountTail
    <3>2. Tail(line) \in Seq(S)
      BY <2>1, TailFacts
    <3>3. Count(tasks, Tail(line)) \in Nat
      BY <1>1, <3>2
    <3>. QED  BY <3>1, <3>3 DEF NoMore
  <2>2. ASSUME NEW task \in S \ tasks
        PROVE  NoMore(tasks, Append(line, task), line)
    <3>1. Count(tasks, Append(line, task)) =
            Count(tasks, line) + IF task \in tasks THEN 1 ELSE 0
      BY CountAppend
    <3>. QED  BY <1>1, <3>1 DEF NoMore
  <2>3. NoMore(tasks, line, line)
    BY <1>1 DEF NoMore
  <2>. QED  BY <2>1, <2>2, <2>3
<1>3. \A old, line, new \in Seq(S) :
        NoMore(tasks, new, line) /\ NoMore(tasks, line, old)
        => NoMore(tasks, new, old)
  BY <1>1 DEF NoMore
<1>4. ASSUME NEW old \in Seq(S), NEW new \in Seq(S), NoMore(tasks, new, old)
      PROVE  /\ Waits(tasks, new) => Waits(tasks, old)
             /\ AtMostOneWaits(tasks, old) => AtMostOneWaits(tasks, new)
  BY <1>1, <1>4, CountFacts DEF NoMore
<1>. QED  BY <1>2, <1>3, <1>4

=============================================================================
