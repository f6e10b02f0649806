---------------------------- MODULE FramingProofs ----------------------------
(***************************************************************************)
(* The reader keeps step with the writer: for any sizes, width of the size *)
(* field, size of the header and number of messages.                       *)
(*                                                                         *)
(* The stream is described byte by byte, by what stands behind each byte,  *)
(* and not as the frames it is made of: so no proof needs an induction.    *)
(***************************************************************************)
EXTENDS Framing, Integers, SequenceTheorems, TLAPS

Byte == Nat \X Nat

SentFrame == [size : Nat, stated : Nat, resized : BOOLEAN]

(* The types, and that a header states the size at send().                 *)
TypeInv ==
  /\ frames \in Seq(SentFrame)
  /\ written \in 0 .. Len(frames)
  /\ stream \in Seq(Byte)
  /\ expects \in Nat
  /\ bodyOk \in BOOLEAN
  /\ open \in BOOLEAN
  /\ messages \in Seq(Seq(Byte))
  /\ \A i \in 1 .. Len(frames) :
       frames[i].resized = FALSE => frames[i].stated = Stated(frames[i].size)

(* The last byte of a frame.                                               *)
EndOf(frame) == HeaderSize + frames[frame].size

(* The byte at i and those behind it are one frame, up to its end; behind  *)
(* it starts the next, unless it was the last that was written.            *)
Chained(s, i) ==
  LET frame == s[i][1]
      last == i + EndOf(frame) - s[i][2]
  IN  /\ frame \in 1 .. written
      /\ s[i][2] \in 1 .. EndOf(frame)
      /\ last <= Len(s)
      /\ \A j \in i .. last : s[j] = <<frame, s[i][2] + j - i>>
      /\ last = Len(s) => frame = written
      /\ last < Len(s) => s[last + 1] = <<frame + 1, 1>>

StreamInv == \A i \in 1 .. Len(stream) : Chained(stream, i)

(* Of the first n messages, those that are written were sound.             *)
Sound(n) ==
  \A i \in 1 .. written :
    i <= n => frames[i].size < SizeModulus /\ frames[i].resized = FALSE

Count == Len(messages)

(* The stream starts with the frame that comes after n others.             *)
Starts(s, n) ==
  IF s = <<>> THEN n = written ELSE s[1] = <<n + 1, 1>>

(* As long as all was sound, the reader has the next frame in front of it, *)
(* or the body of the next, whose header it has read.                      *)
StepInv ==
  open = TRUE /\ Sound(Count) =>
    /\ Count <= written
    /\ expects = 0 => Starts(stream, Count)
    /\ expects > 0 =>
         /\ Count < written
         /\ bodyOk = TRUE
         /\ expects = frames[Count + 1].stated
         /\ frames[Count + 1].size > 0 =>
              stream # <<>> /\ stream[1] = <<Count + 1, HeaderSize + 1>>

(* And what it read is what was written.                                   *)
ReadInv ==
  \A n \in 1 .. Count :
    Sound(n) => n <= written /\ messages[n] = BodyOf(n)

Inv == TypeInv /\ StreamInv /\ StepInv /\ ReadInv

-----------------------------------------------------------------------------

(* A size that fits the field is stated as it is.                          *)
LEMMA StatedFits ==
  ASSUME NEW size \in Nat
  PROVE  /\ Stated(size) \in Nat
         /\ size < SizeModulus => Stated(size) = size
BY FramingAssumption DEF Stated

(* The bytes of a frame.                                                   *)
LEMMA BytesFacts ==
  ASSUME NEW frame \in Nat, NEW first \in Nat, NEW count \in Nat
  PROVE  /\ Len(Bytes(frame, first, count)) = count
         /\ \A i \in 1 .. count :
              Bytes(frame, first, count)[i] = <<frame, first + i - 1>>
         /\ first > 0 => Bytes(frame, first, count) \in Seq(Byte)
<1>1. DOMAIN Bytes(frame, first, count) = 1 .. count
  BY DEF Bytes
<1>2. Len(Bytes(frame, first, count)) = count
  BY DEF Bytes
<1>3. \A i \in 1 .. count :
        Bytes(frame, first, count)[i] = <<frame, first + i - 1>>
  BY DEF Bytes
<1>4. ASSUME first > 0
      PROVE  Bytes(frame, first, count) \in Seq(Byte)
  <2>1. \A i \in 1 .. count : <<frame, first + i - 1>> \in Byte
    BY <1>4 DEF Byte
  <2>2. Bytes(frame, first, count) \in [1 .. count -> Byte]
    BY <2>1 DEF Bytes
  <2>. QED  BY <2>2, SeqDef
<1>. QED  BY <1>2, <1>3, <1>4

(* The messages that were sent.                                            *)
LEMMA SentFacts ==
  ASSUME TypeInv
  PROVE  /\ Len(frames) \in Nat
         /\ written \in Nat
         /\ written <= Len(frames)
         /\ HeaderSize \in Nat \ {0}
         /\ \A f \in 1 .. Len(frames) :
              /\ frames[f].size \in Nat
              /\ frames[f].stated \in Nat
              /\ frames[f].resized \in BOOLEAN
              /\ EndOf(f) \in Nat
              /\ EndOf(f) = HeaderSize + frames[f].size
<1>1. Len(frames) \in Nat /\ \A f \in 1 .. Len(frames) : frames[f] \in SentFrame
  BY DEF TypeInv
<1>. QED  BY <1>1, FramingAssumption DEF TypeInv, SentFrame, EndOf

(* What asyncWrite() puts on the stream for a message.                     *)
LEMMA FrameFacts ==
  ASSUME NEW frame \in Nat, frames[frame].size \in Nat
  PROVE  /\ HeaderOf(frame) \in Seq(Byte) /\ Len(HeaderOf(frame)) = HeaderSize
         /\ BodyOf(frame) \in Seq(Byte)
         /\ Len(BodyOf(frame)) = frames[frame].size
         /\ \A i \in 1 .. HeaderSize : HeaderOf(frame)[i] = <<frame, i>>
         /\ \A i \in 1 .. frames[frame].size :
              BodyOf(frame)[i] = <<frame, HeaderSize + i>>
<1>1. HeaderSize + 1 \in Nat /\ HeaderSize + 1 > 0 /\ HeaderSize \in Nat
  BY FramingAssumption
<1>2. /\ HeaderOf(frame) \in Seq(Byte) /\ Len(HeaderOf(frame)) = HeaderSize
      /\ \A i \in 1 .. HeaderSize : HeaderOf(frame)[i] = <<frame, 1 + i - 1>>
  <2>1. 1 \in Nat /\ 1 > 0
    OBVIOUS
  <2>2. /\ Len(Bytes(frame, 1, HeaderSize)) = HeaderSize
        /\ Bytes(frame, 1, HeaderSize) \in Seq(Byte)
        /\ \A i \in 1 .. HeaderSize :
             Bytes(frame, 1, HeaderSize)[i] = <<frame, 1 + i - 1>>
    BY <1>1, <2>1, BytesFacts, Zenon
  <2>. QED  BY <2>2 DEF HeaderOf
<1>3. /\ BodyOf(frame) \in Seq(Byte)
      /\ Len(BodyOf(frame)) = frames[frame].size
      /\ \A i \in 1 .. frames[frame].size :
           BodyOf(frame)[i] = <<frame, HeaderSize + 1 + i - 1>>
  <2>. DEFINE body == Bytes(frame, HeaderSize + 1, frames[frame].size)
  <2>1. /\ Len(body) = frames[frame].size
        /\ body \in Seq(Byte)
        /\ \A i \in 1 .. frames[frame].size :
             body[i] = <<frame, HeaderSize + 1 + i - 1>>
    BY <1>1, BytesFacts, Zenon
  <2>. QED  BY <2>1 DEF BodyOf
<1>4. \A i \in Nat : 1 + i - 1 = i /\ HeaderSize + 1 + i - 1 = HeaderSize + i
  BY <1>1
<1>. QED  BY <1>1, <1>2, <1>3, <1>4

(* A chain keeps its links when its front is taken.                        *)
LEMMA ChainedSuffix ==
  ASSUME TypeInv, StreamInv, NEW d \in 0 .. Len(stream)
  PROVE  LET rest == SubSeq(stream, d + 1, Len(stream))
         IN  /\ rest \in Seq(Byte) /\ Len(rest) = Len(stream) - d
             /\ \A i \in 1 .. Len(rest) : rest[i] = stream[i + d]
             /\ \A i \in 1 .. Len(rest) : Chained(rest, i)
<1>. DEFINE rest == SubSeq(stream, d + 1, Len(stream))
<1>1. /\ rest \in Seq(Byte) /\ Len(rest) = Len(stream) - d
      /\ Len(stream) \in Nat /\ Len(rest) \in Nat /\ d \in Nat
      /\ \A i \in 1 .. Len(rest) : rest[i] = stream[i + d]
  BY DEF TypeInv, Byte
<1>. HIDE DEF rest
<1>2. ASSUME NEW i \in 1 .. Len(rest)
      PROVE  Chained(rest, i)
  <2>. DEFINE frame == rest[i][1]
              at == rest[i][2]
              last == i + EndOf(frame) - at
  <2>1. i + d \in 1 .. Len(stream) /\ rest[i] = stream[i + d]
    BY <1>1
  <2>2. Chained(stream, i + d)
    BY <2>1 DEF StreamInv
  <2>3. /\ frame \in 1 .. written
        /\ at \in 1 .. EndOf(frame)
        /\ i + d + EndOf(frame) - at <= Len(stream)
        /\ \A j \in i + d .. i + d + EndOf(frame) - at :
             stream[j] = <<frame, at + j - (i + d)>>
        /\ i + d + EndOf(frame) - at = Len(stream) => frame = written
        /\ i + d + EndOf(frame) - at < Len(stream) =>
             stream[i + d + EndOf(frame) - at + 1] = <<frame + 1, 1>>
    BY <2>1, <2>2 DEF Chained
  <2>4. EndOf(frame) \in Nat /\ at \in Nat /\ at <= EndOf(frame)
    BY <2>3, SentFacts
  <2>. HIDE DEF frame, at
  <2>5. /\ last \in Nat
        /\ last + d = i + d + EndOf(frame) - at
        /\ last >= i
        /\ last <= Len(rest)
    BY <1>1, <2>3, <2>4
  <2>. HIDE DEF last
  <2>6. ASSUME NEW j \in i .. last PROVE rest[j] = <<frame, at + j - i>>
    <3>1. j \in 1 .. Len(rest) /\ j + d \in i + d .. last + d
      BY <1>1, <2>5
    <3>2. stream[j + d] = <<frame, at + (j + d) - (i + d)>>
      BY <2>3, <2>5, <3>1
    <3>3. at + (j + d) - (i + d) = at + j - i
      BY <1>1, <2>4, <3>1
    <3>. QED  BY <1>1, <3>1, <3>2, <3>3
  <2>7. last < Len(rest) => rest[last + 1] = <<frame + 1, 1>>
    <3>1. SUFFICES ASSUME last < Len(rest)
                   PROVE  rest[last + 1] = <<frame + 1, 1>>
      OBVIOUS
    <3>2. last + 1 \in 1 .. Len(rest) /\ last + d < Len(stream)
          /\ last + 1 + d = last + d + 1
      BY <1>1, <2>5, <3>1
    <3>. QED  BY <1>1, <2>3, <2>5, <3>2
  <2>8. last = Len(rest) => frame = written
    BY <1>1, <2>3, <2>5
  <2>. QED  BY <2>3, <2>5, <2>6, <2>7, <2>8 DEF Chained, frame, at, last
<1>. QED  BY <1>1, <1>2 DEF rest

(* What asyncWrite() makes of the stream.                                  *)
LEMMA WrittenStream ==
  ASSUME TypeInv, AsyncWrite
  PROVE  /\ written' = written + 1
         /\ frames' = frames
         /\ written + 1 \in 1 .. Len(frames)
         /\ stream' \in Seq(Byte)
         /\ Len(stream') = Len(stream) + EndOf(written + 1)
         /\ \A i \in 1 .. Len(stream) : stream'[i] = stream[i]
         /\ \A i \in Len(stream) + 1 .. Len(stream) + EndOf(written + 1) :
              stream'[i] = <<written + 1, i - Len(stream)>>
<1>. DEFINE n == Len(stream)
            new == written + 1
            size == frames[new].size
            header == HeaderOf(new)
            body == BodyOf(new)
            front == stream \o header
<1>1. /\ written < Len(frames)
      /\ written' = new
      /\ frames' = frames
      /\ stream' = front \o body
  BY DEF AsyncWrite
<1>2. new \in 1 .. Len(frames) /\ new \in Nat
  BY <1>1, SentFacts
<1>3. size \in Nat /\ EndOf(new) = HeaderSize + size /\ HeaderSize \in Nat
  BY <1>2, SentFacts
<1>4. stream \in Seq(Byte) /\ n \in Nat
  BY DEF TypeInv
<1>5. /\ header \in Seq(Byte) /\ Len(header) = HeaderSize
      /\ body \in Seq(Byte) /\ Len(body) = size
      /\ \A i \in 1 .. HeaderSize : header[i] = <<new, i>>
      /\ \A i \in 1 .. size : body[i] = <<new, HeaderSize + i>>
  BY <1>2, <1>3, FrameFacts
<1>6. written' = written + 1 /\ written + 1 \in 1 .. Len(frames)
  BY <1>1, <1>2
<1>. HIDE DEF new, header, body, size
<1>7. /\ front \in Seq(Byte)
      /\ Len(front) = n + HeaderSize
      /\ \A i \in 1 .. n + HeaderSize :
           front[i] = IF i <= n THEN stream[i] ELSE header[i - n]
  BY <1>4, <1>5, ConcatProperties
<1>. HIDE DEF front
<1>8. /\ front \o body \in Seq(Byte)
      /\ Len(front \o body) = n + HeaderSize + size
      /\ \A i \in 1 .. n + HeaderSize + size :
           (front \o body)[i] = IF i <= n + HeaderSize THEN front[i]
                                ELSE body[i - (n + HeaderSize)]
  <2>1. /\ front \o body \in Seq(Byte)
        /\ Len(front \o body) = Len(front) + Len(body)
        /\ \A i \in 1 .. Len(front) + Len(body) :
             (front \o body)[i] = IF i <= Len(front) THEN front[i]
                                  ELSE body[i - Len(front)]
    <3>1. front \in Seq(Byte) /\ body \in Seq(Byte)
      BY <1>5, <1>7
    <3>. QED  BY <3>1, ConcatProperties, Zenon
  <2>. QED  BY <1>5, <1>7, <2>1
<1>9. ASSUME NEW i \in n + 1 .. n + EndOf(new)
      PROVE  stream'[i] = <<new, i - n>>
  <2>1. CASE i <= n + HeaderSize
    <3>1. i - n \in 1 .. HeaderSize /\ ~(i <= n)
          /\ i \in 1 .. n + HeaderSize /\ i \in 1 .. n + HeaderSize + size
      BY <1>3, <1>4, <2>1
    <3>. QED  BY <1>1, <1>5, <1>7, <1>8, <2>1, <3>1
  <2>2. CASE ~(i <= n + HeaderSize)
    <3>1. /\ i - (n + HeaderSize) \in 1 .. size
          /\ HeaderSize + (i - (n + HeaderSize)) = i - n
          /\ i \in 1 .. n + HeaderSize + size
      BY <1>3, <1>4, <2>2
    <3>. QED  BY <1>1, <1>5, <1>8, <2>2, <3>1
  <2>. QED  BY <2>1, <2>2
<1>10. ASSUME NEW i \in 1 .. n PROVE stream'[i] = stream[i]
  <2>1. /\ i \in 1 .. n + HeaderSize + size /\ i \in 1 .. n + HeaderSize
        /\ i <= n /\ i <= n + HeaderSize
    BY <1>3, <1>4
  <2>. QED  BY <1>1, <1>7, <1>8, <2>1
<1>11. stream' \in Seq(Byte) /\ Len(stream') = n + EndOf(new)
  BY <1>1, <1>3, <1>4, <1>8
<1>. QED  BY <1>1, <1>6, <1>9, <1>10, <1>11 DEF new

(* A link of the chain, put together.                                      *)
LEMMA LinkAfter ==
  ASSUME NEW i \in Nat, NEW frame \in 1 .. written', NEW at, NEW end, NEW last,
         stream'[i][1] = frame, stream'[i][2] = at,
         EndOf(frame)' = end, at \in 1 .. end, last = i + end - at,
         last <= Len(stream'),
         \A j \in i .. last : stream'[j] = <<frame, at + j - i>>,
         last = Len(stream') => frame = written',
         last < Len(stream') => stream'[last + 1] = <<frame + 1, 1>>
  PROVE  Chained(stream, i)'
BY DEF Chained

(* And taken apart.                                                        *)
LEMMA LinkBefore ==
  ASSUME TypeInv, StreamInv,
         NEW n \in Nat, n = Len(stream), NEW i \in 1 .. n
  PROVE  \E frame \in 1 .. written, at \in Nat, end \in Nat, last \in Nat :
           /\ stream[i][1] = frame /\ stream[i][2] = at
           /\ EndOf(frame) = end /\ at \in 1 .. end /\ last = i + end - at
           /\ last \in i .. n
           /\ \A j \in i .. last : stream[j] = <<frame, at + j - i>>
           /\ last = n => frame = written
           /\ last < n => stream[last + 1] = <<frame + 1, 1>>
<1>1. Chained(stream, i)
  BY DEF StreamInv
<1>2. PICK frame \in 1 .. written : frame = stream[i][1]
  BY <1>1 DEF Chained
<1>3. frame \in 1 .. Len(frames)
  BY SentFacts
<1>4. PICK end \in Nat : end = EndOf(frame)
  BY <1>3, SentFacts
<1>5. PICK at \in 1 .. end : at = stream[i][2]
  BY <1>1, <1>2, <1>4 DEF Chained
<1>6. PICK last \in Nat : last = i + end - at /\ last >= i
  BY <1>4, <1>5
<1>7. /\ last <= n
      /\ \A j \in i .. last : stream[j] = <<frame, at + j - i>>
      /\ last = n => frame = written
      /\ last < n => stream[last + 1] = <<frame + 1, 1>>
  BY <1>1, <1>2, <1>4, <1>5, <1>6 DEF Chained
<1>8. at \in Nat /\ last \in i .. n
  BY <1>4, <1>5, <1>6, <1>7
<1>. QED  BY <1>2, <1>4, <1>5, <1>6, <1>7, <1>8, Zenon

(* Whole frames are added to a chain at the end of its last one.           *)
LEMMA ChainedWrite ==
  ASSUME TypeInv, StreamInv, AsyncWrite
  PROVE  StreamInv'
<1>1. PICK n \in Nat : n = Len(stream)
  BY DEF TypeInv
<1>2. PICK new \in Nat : new = written + 1
  BY SentFacts
<1>3. PICK size \in Nat : size = EndOf(new)
  BY <1>2, WrittenStream, SentFacts
<1>4. /\ written' = new
      /\ Len(stream') = n + size
      /\ \A i \in 1 .. n : stream'[i] = stream[i]
      /\ \A i \in n + 1 .. n + size : stream'[i] = <<new, i - n>>
  BY <1>1, <1>2, <1>3, WrittenStream
<1>5. size > 0
  BY <1>2, <1>3, WrittenStream, SentFacts
<1>6. \A f : EndOf(f)' = EndOf(f)
  BY WrittenStream DEF EndOf
<1>7. ASSUME NEW i \in 1 .. n
      PROVE  Chained(stream, i)'
  <2>1. PICK frame \in 1 .. written, at \in Nat, end \in Nat, last \in Nat :
           /\ stream[i][1] = frame /\ stream[i][2] = at
           /\ EndOf(frame) = end /\ at \in 1 .. end /\ last = i + end - at
           /\ last \in i .. n
           /\ \A j \in i .. last : stream[j] = <<frame, at + j - i>>
           /\ last = n => frame = written
           /\ last < n => stream[last + 1] = <<frame + 1, 1>>
    BY <1>1, LinkBefore, Zenon
  <2>2. stream'[i][1] = frame /\ stream'[i][2] = at /\ EndOf(frame)' = end
    BY <1>4, <1>6, <2>1
  <2>3. \A j \in i .. last : stream'[j] = <<frame, at + j - i>>
    <3>1. \A j \in i .. last : j \in 1 .. n
      BY <2>1
    <3>. QED  BY <1>4, <2>1, <3>1
  <2>4. stream'[last + 1] = <<frame + 1, 1>>
    <3>1. CASE last < n
      <4>1. last + 1 \in 1 .. n
        BY <3>1
      <4>. QED  BY <1>4, <2>1, <3>1, <4>1
    <3>2. CASE last = n
      <4>1. frame + 1 = new
        BY <1>2, <2>1, <3>2
      <4>2. last + 1 \in n + 1 .. n + size /\ last + 1 - n = 1
        BY <1>5, <3>2
      <4>3. stream'[last + 1] = <<new, last + 1 - n>>
        BY <1>4, <4>2
      <4>. QED  BY <4>1, <4>2, <4>3
    <3>. QED  BY <2>1, <3>1, <3>2
  <2>5. /\ last <= Len(stream')
        /\ last = Len(stream') => frame = written'
    BY <1>4, <1>5, <2>1
  <2>6. frame \in 1 .. written'
    BY <1>2, <1>4, SentFacts
  <2>7. i \in Nat
    OBVIOUS
  <2>. QED  BY <2>1, <2>2, <2>3, <2>4, <2>5, <2>6, <2>7, LinkAfter, Zenon
<1>8. ASSUME NEW i \in n + 1 .. n + size
      PROVE  Chained(stream, i)'
  <2>1. PICK at \in 1 .. size : at = i - n
    OBVIOUS
  <2>2. /\ stream'[i][1] = new /\ stream'[i][2] = at
        /\ EndOf(new)' = size
    BY <1>3, <1>4, <1>6, <2>1
  <2>3. i + size - at = Len(stream') /\ i \in Nat
    BY <1>4, <2>1
  <2>4. ASSUME NEW j \in i .. n + size
        PROVE  stream'[j] = <<new, at + j - i>>
    <3>1. j \in n + 1 .. n + size /\ j - n = at + j - i
      BY <2>1
    <3>. QED  BY <1>4, <3>1
  <2>5. new \in 1 .. written'
    BY <1>2, <1>4, SentFacts
  <2>6. /\ Len(stream') <= Len(stream')
        /\ ~(Len(stream') < Len(stream'))
    BY <1>4
  <2>. QED  BY <1>4, <2>2, <2>3, <2>4, <2>5, <2>6, LinkAfter
<1>9. \A i \in 1 .. Len(stream') : i \in 1 .. n \/ i \in n + 1 .. n + size
  BY <1>4
<1>. QED  BY <1>7, <1>8, <1>9 DEF StreamInv

(* While frames that were not written change, a chain does not.            *)
LEMMA ChainedKept ==
  ASSUME TypeInv, StreamInv, UNCHANGED <<stream, written>>,
         \A f \in 1 .. written : frames'[f] = frames[f]
  PROVE  StreamInv'
<1>1. \A f \in 1 .. written : EndOf(f)' = EndOf(f)
  BY DEF EndOf
<1>2. ASSUME NEW i \in 1 .. Len(stream) PROVE Chained(stream, i)'
  <2>1. Chained(stream, i)
    BY DEF StreamInv
  <2>2. stream[i][1] \in 1 .. written
    BY <2>1 DEF Chained
  <2>3. EndOf(stream[i][1])' = EndOf(stream[i][1])
    BY <1>1, <2>2
  <2>. QED  BY <2>1, <2>3 DEF Chained
<1>. QED  BY <1>2 DEF StreamInv

(* Soundness is lost once a frame is found unsound, never won back.        *)
LEMMA SoundLess ==
  ASSUME NEW m \in Nat, NEW n \in Nat, m <= n, Sound(n),
         TypeInv
  PROVE  Sound(m)
BY SentFacts DEF Sound

(* What is not written yet may change: nothing else follows from it.       *)
LEMMA UnwrittenChanges ==
  ASSUME TypeInv, StreamInv, StepInv, ReadInv,
         UNCHANGED <<written, stream, expects, bodyOk, open, messages>>,
         \A f \in 1 .. written : frames'[f] = frames[f]
  PROVE  StreamInv' /\ StepInv' /\ ReadInv'
<1>1. StreamInv'
  BY ChainedKept
<1>2. \A n \in Nat : Sound(n)' <=> Sound(n)
  BY DEF Sound
<1>3. Count \in Nat /\ Count' = Count
  BY DEF Count, TypeInv
<1>4. StepInv'
  <2>1. SUFFICES ASSUME open = TRUE, Sound(Count)
                 PROVE  StepInv'
    BY <1>2, <1>3 DEF StepInv
  <2>2. /\ Count <= written
        /\ expects = 0 => Starts(stream, Count)
        /\ expects > 0 =>
             /\ Count < written
             /\ bodyOk = TRUE
             /\ expects = frames[Count + 1].stated
             /\ frames[Count + 1].size > 0 =>
                  stream # <<>> /\ stream[1] = <<Count + 1, HeaderSize + 1>>
    BY <2>1 DEF StepInv
  <2>3. Count < written => frames'[Count + 1] = frames[Count + 1]
    <3>1. Count < written => Count + 1 \in 1 .. written
      BY <1>3, SentFacts
    <3>. QED  BY <3>1
  <2>4. Starts(stream, Count)' <=> Starts(stream, Count)
    BY <1>3 DEF Starts
  <2>. QED  BY <1>3, <2>2, <2>3, <2>4 DEF StepInv
<1>5. ReadInv'
  <2>1. ASSUME NEW n \in 1 .. Count, Sound(n)
        PROVE  (n <= written /\ messages[n] = BodyOf(n))'
    <3>1. n <= written /\ messages[n] = BodyOf(n)
      BY <2>1 DEF ReadInv
    <3>2. n \in 1 .. written
      BY <1>3, <3>1, SentFacts
    <3>3. BodyOf(n)' = BodyOf(n)
      BY <3>2 DEF BodyOf, Bytes
    <3>. QED  BY <3>1, <3>3
  <2>. QED  BY <1>2, <1>3, <2>1 DEF ReadInv
<1>. QED  BY <1>1, <1>4, <1>5

(* A message is constructed.                                               *)
LEMMA SendStep ==
  ASSUME Inv, Send
  PROVE  Inv'
<1>1. PICK size \in Sizes :
        frames' = Append(frames, [size |-> size, stated |-> Stated(size),
                                  resized |-> FALSE])
  BY DEF Send
<1>2. size \in Nat /\ Stated(size) \in Nat
  BY FramingAssumption, StatedFits
<1>3. PICK sent \in SentFrame : /\ frames' = Append(frames, sent)
                                /\ sent.stated = Stated(sent.size)
  <2>. DEFINE new == [size |-> size, stated |-> Stated(size),
                      resized |-> FALSE]
  <2>1. new \in SentFrame /\ new.stated = Stated(new.size)
    BY <1>2 DEF SentFrame
  <2>2. frames' = Append(frames, new)
    BY <1>1
  <2>. QED  BY <2>1, <2>2
<1>4. /\ frames' \in Seq(SentFrame)
      /\ Len(frames') = Len(frames) + 1
      /\ Len(frames) \in Nat
      /\ frames'[Len(frames) + 1] = sent
      /\ \A f \in 1 .. Len(frames) : frames'[f] = frames[f]
  BY <1>3 DEF Inv, TypeInv
<1>5. UNCHANGED <<written, stream, expects, bodyOk, open, messages>>
  BY DEF Send
<1>6. \A f \in 1 .. Len(frames') : f \in 1 .. Len(frames) \/ f = Len(frames) + 1
  BY <1>4
<1>7. TypeInv'
  BY <1>3, <1>4, <1>5, <1>6 DEF Inv, TypeInv, Stated
<1>8. \A f \in 1 .. written : frames'[f] = frames[f]
  BY <1>4 DEF Inv, TypeInv
<1>. QED  BY <1>5, <1>7, <1>8, UnwrittenChanges DEF Inv

(* Its payload is resized before it is written.                            *)
LEMMA ResizeStep ==
  ASSUME Inv, ResizePayload
  PROVE  Inv'
<1>1. PICK frame \in written + 1 .. Len(frames), size \in Sizes :
        frames' = [frames EXCEPT ![frame].size = size,
                                 ![frame].resized = TRUE]
  BY DEF ResizePayload
<1>2. size \in Nat
  BY FramingAssumption
<1>3. /\ written \in Nat /\ Len(frames) \in Nat
      /\ frames \in [1 .. Len(frames) -> SentFrame]
      /\ frame \in 1 .. Len(frames)
      /\ ~(frame \in 1 .. written)
  BY DEF Inv, TypeInv
<1>4. /\ frames' \in [1 .. Len(frames) -> SentFrame]
      /\ frames'[frame].resized = TRUE
      /\ \A f \in 1 .. Len(frames) : f # frame => frames'[f] = frames[f]
  BY <1>1, <1>2, <1>3 DEF SentFrame
<1>5. frames' \in Seq(SentFrame) /\ Len(frames') = Len(frames)
  BY <1>3, <1>4
<1>6. UNCHANGED <<written, stream, expects, bodyOk, open, messages>>
  BY DEF ResizePayload
<1>7. TypeInv'
  BY <1>3, <1>4, <1>5, <1>6 DEF Inv, TypeInv, Stated
<1>8. \A f \in 1 .. written : frames'[f] = frames[f]
  BY <1>3, <1>4 DEF Inv, TypeInv
<1>. QED  BY <1>6, <1>7, <1>8, UnwrittenChanges DEF Inv

(* A message is written behind the others.                                 *)
LEMMA WriteStep ==
  ASSUME Inv, AsyncWrite
  PROVE  Inv'
<1>. USE DEF Inv
<1>1. PICK n \in Nat : n = Len(stream)
  BY DEF TypeInv
<1>2. /\ written' = written + 1
      /\ frames' = frames
      /\ written \in Nat
      /\ stream' \in Seq(Byte)
      /\ \A i \in 1 .. n : stream'[i] = stream[i]
      /\ written + 1 \in 1 .. Len(frames)
      /\ UNCHANGED <<expects, bodyOk, open, messages>>
  BY <1>1, WrittenStream, SentFacts DEF AsyncWrite
<1>3. Len(stream') > n /\ stream'[n + 1] = <<written + 1, 1>>
  <2>1. PICK size \in Nat : size = EndOf(written + 1)
    BY <1>2, SentFacts
  <2>2. size > 0
    BY <1>2, <2>1, SentFacts
  <2>3. /\ Len(stream') = n + size
        /\ \A i \in n + 1 .. n + size : stream'[i] = <<written + 1, i - n>>
    BY <1>1, <2>1, WrittenStream
  <2>4. n + 1 \in n + 1 .. n + size /\ n + 1 - n = 1
    BY <2>2
  <2>. QED  BY <2>2, <2>3, <2>4
<1>4. TypeInv'
  BY <1>2 DEF TypeInv, Stated
<1>5. StreamInv'
  BY ChainedWrite
<1>6. \A m \in Nat : Sound(m)' => Sound(m)
  BY <1>2 DEF Sound
<1>7. Count \in Nat /\ Count' = Count
  BY <1>2 DEF Count, TypeInv
<1>8. StepInv'
  <2>1. SUFFICES ASSUME open = TRUE, Sound(Count)
                 PROVE  StepInv'
    BY <1>2, <1>6, <1>7 DEF StepInv
  <2>2. /\ Count <= written
        /\ expects = 0 => Starts(stream, Count)
        /\ expects > 0 =>
             /\ Count < written
             /\ bodyOk = TRUE
             /\ expects = frames[Count + 1].stated
             /\ frames[Count + 1].size > 0 =>
                  stream # <<>> /\ stream[1] = <<Count + 1, HeaderSize + 1>>
    BY <2>1 DEF StepInv
  <2>3. stream # <<>> => stream' # <<>> /\ stream'[1] = stream[1]
    <3>1. stream # <<>> => 1 \in 1 .. n
      BY <1>1 DEF TypeInv
    <3>. QED  BY <1>2, <1>3, <3>1
  <2>4. expects = 0 => Starts(stream, Count)'
    <3>1. CASE stream = <<>>
      <4>1. n = 0
        BY <1>1, <3>1
      <4>. QED  BY <1>2, <1>3, <1>7, <2>2, <3>1, <4>1 DEF Starts
    <3>2. CASE stream # <<>>
      BY <1>7, <2>2, <2>3, <3>2 DEF Starts
    <3>. QED  BY <3>1, <3>2
  <2>. QED  BY <1>2, <1>7, <2>2, <2>3, <2>4 DEF StepInv
<1>9. ReadInv'
  <2>1. ASSUME NEW m \in 1 .. Count, Sound(m)'
        PROVE  (m <= written /\ messages[m] = BodyOf(m))'
    <3>1. Sound(m)
      BY <1>6, <1>7, <2>1
    <3>2. m <= written /\ messages[m] = BodyOf(m)
      BY <3>1 DEF ReadInv
    <3>3. BodyOf(m)' = BodyOf(m)
      BY <1>2 DEF BodyOf, Bytes
    <3>. QED  BY <1>2, <1>7, <3>2, <3>3
  <2>. QED  BY <1>7, <2>1 DEF ReadInv
<1>. QED  BY <1>4, <1>5, <1>8, <1>9

(* What a read finds at the front of the stream: bytes of one frame, and   *)
(* behind them the rest of it or the next frame.                           *)
LEMMA FrontRead ==
  ASSUME TypeInv, StreamInv, stream # <<>>,
         NEW frame, NEW at, stream[1] = <<frame, at>>,
         NEW d \in Nat, d > 0, NEW to, to = at + d - 1, to <= EndOf(frame),
         NEW rest, rest = SubSeq(stream, d + 1, Len(stream))
  PROVE  /\ frame \in 1 .. written
         /\ d <= Len(stream)
         /\ \A j \in 1 .. d : stream[j] = <<frame, at + j - 1>>
         /\ to = EndOf(frame) => Starts(rest, frame)
         /\ to < EndOf(frame) => rest # <<>> /\ rest[1] = <<frame, to + 1>>
<1>1. PICK n \in Nat : n = Len(stream)
  BY DEF TypeInv
<1>2. n > 0
  BY <1>1 DEF TypeInv
<1>3. PICK i \in 1 .. n : i = 1
  BY <1>2
<1>4. PICK f \in 1 .. written, a \in Nat, end \in Nat, last \in Nat :
        /\ stream[i][1] = f /\ stream[i][2] = a
        /\ EndOf(f) = end /\ a \in 1 .. end /\ last = i + end - a
        /\ last \in i .. n
        /\ \A j \in i .. last : stream[j] = <<f, a + j - i>>
        /\ last = n => f = written
        /\ last < n => stream[last + 1] = <<f + 1, 1>>
  BY <1>1, LinkBefore, Zenon
<1>5. f = frame /\ a = at /\ last = 1 + end - at /\ frame \in 1 .. written
  BY <1>3, <1>4
<1>6. at + d - 1 <= end /\ to = at + d - 1 /\ to + 1 = at + d
  BY <1>4, <1>5
<1>7. d <= last /\ last <= n /\ at \in Nat
  BY <1>3, <1>4, <1>5, <1>6
<1>8. \A j \in 1 .. d : stream[j] = <<frame, at + j - 1>>
  <2>1. \A j \in 1 .. d : j \in i .. last
    BY <1>3, <1>7
  <2>. QED  BY <1>3, <1>4, <1>5, <2>1
<1>9. /\ Len(rest) = n - d
      /\ \A j \in 1 .. n - d : rest[j] = stream[j + d]
      /\ rest \in Seq(Byte)
  <2>1. d \in 0 .. Len(stream)
    BY <1>1, <1>7
  <2>. QED  BY <1>1, <2>1, ChainedSuffix
<1>10. rest = <<>> <=> d = n
  <2>1. rest = <<>> => Len(rest) = 0
    OBVIOUS
  <2>2. rest # <<>> => Len(rest) \in Nat \ {0}
    BY <1>9, EmptySeq, Zenon
  <2>. QED  BY <1>7, <1>9, <2>1, <2>2
<1>11. d < n => rest[1] = stream[d + 1]
  BY <1>7, <1>9
<1>12. ASSUME to = end PROVE Starts(rest, frame)
  <2>1. d = last
    BY <1>5, <1>6, <1>7, <1>12
  <2>2. CASE d = n
    BY <1>4, <1>5, <1>10, <2>1, <2>2 DEF Starts
  <2>3. CASE d < n
    BY <1>4, <1>5, <1>10, <1>11, <2>1, <2>3 DEF Starts
  <2>. QED  BY <1>7, <2>2, <2>3
<1>13. ASSUME to < end
       PROVE  rest # <<>> /\ rest[1] = <<frame, to + 1>>
  <2>1. d < last
    BY <1>5, <1>6, <1>7, <1>13
  <2>2. d + 1 \in i .. last /\ at + (d + 1) - i = at + d
    BY <1>3, <1>7, <2>1
  <2>3. stream[d + 1] = <<frame, at + d>>
    BY <1>4, <1>5, <2>2
  <2>. QED  BY <1>6, <1>7, <1>10, <1>11, <2>1, <2>3
<1>14. EndOf(frame) = end
  BY <1>4, <1>5
<1>. QED  BY <1>1, <1>5, <1>7, <1>8, <1>12, <1>13, <1>14

(* The same, for whichever byte is at the front.                           *)
LEMMA FrontByte ==
  ASSUME TypeInv, StreamInv, stream # <<>>
  PROVE  \A d \in Nat \ {0}, to \in Nat :
           LET frame == stream[1][1]
               at == stream[1][2]
               rest == SubSeq(stream, d + 1, Len(stream))
           IN  to = at + d - 1 /\ to <= EndOf(frame) =>
                 /\ frame \in 1 .. written
                 /\ d <= Len(stream)
                 /\ \A j \in 1 .. d : stream[j] = <<frame, at + j - 1>>
                 /\ to = EndOf(frame) => Starts(rest, frame)
                 /\ to < EndOf(frame) =>
                      rest # <<>> /\ rest[1] = <<frame, to + 1>>
<1>1. PICK frame, at : stream[1] = <<frame, at>>
  BY EmptySeq DEF TypeInv, Byte
<1>2. frame = stream[1][1] /\ at = stream[1][2]
  BY <1>1
<1>3. TAKE d \in Nat \ {0}, to \in Nat
<1>4. PICK rest : rest = SubSeq(stream, d + 1, Len(stream))
  OBVIOUS
<1>5. ASSUME to = at + d - 1, to <= EndOf(frame)
      PROVE  /\ frame \in 1 .. written
             /\ d <= Len(stream)
             /\ \A j \in 1 .. d : stream[j] = <<frame, at + j - 1>>
             /\ to = EndOf(frame) => Starts(rest, frame)
             /\ to < EndOf(frame) =>
                  rest # <<>> /\ rest[1] = <<frame, to + 1>>
  <2>1. d \in Nat /\ d > 0
    OBVIOUS
  <2>. QED  BY <1>1, <1>4, <1>5, <2>1, FrontRead, Zenon
<1>. QED  BY <1>2, <1>4, <1>5

(* A sound frame's header states the size of its body.                     *)
LEMMA SoundFrame ==
  ASSUME TypeInv, NEW f \in 1 .. written, Sound(f)
  PROVE  frames[f].stated = frames[f].size
<1>1. f \in 1 .. Len(frames) /\ f <= f
  BY SentFacts
<1>2. frames[f].size < SizeModulus /\ frames[f].resized = FALSE
  BY <1>1 DEF Sound
<1>3. frames[f].size \in Nat /\ frames[f].stated = Stated(frames[f].size)
  BY <1>1, <1>2, SentFacts DEF TypeInv
<1>. QED  BY <1>2, <1>3, StatedFits

(* A reader in step finds the next frame's header.                         *)
LEMMA HeaderFound ==
  ASSUME Inv, ReadHeader, Sound(Count)
  PROVE  /\ Count + 1 \in 1 .. written
         /\ bodyOk' = TRUE
         /\ HeaderVerified(frames[Count + 1].stated)
         /\ frames[Count + 1].size = 0 => Starts(stream', Count + 1)
         /\ frames[Count + 1].size > 0 =>
              /\ stream' # <<>>
              /\ stream'[1] = <<Count + 1, HeaderSize + 1>>
<1>. USE DEF Inv
<1>1. PICK frame \in Nat : frame = Count + 1
  BY DEF Count, TypeInv
<1>2. /\ open = TRUE
      /\ expects = 0
      /\ Len(stream) >= HeaderSize
      /\ stream' = SubSeq(stream, HeaderSize + 1, Len(stream))
      /\ UNCHANGED <<frames, written>>
  BY DEF ReadHeader, TypeInv
<1>3. HeaderSize \in Nat /\ HeaderSize > 0
  BY FramingAssumption
<1>4. stream # <<>>
  BY <1>2, <1>3
<1>5. stream[1] = <<frame, 1>>
  BY <1>1, <1>2, <1>4 DEF StepInv, Starts
<1>6. frame \in 1 .. written
  <2>1. /\ Len(stream) \in Nat
        /\ 1 \in 1 .. Len(stream)
    BY <1>2, <1>3 DEF TypeInv
  <2>2. stream[1][1] \in 1 .. written
    BY <2>1 DEF StreamInv, Chained
  <2>. QED  BY <1>5, <2>2
<1>7. /\ frames[frame].size \in Nat
      /\ EndOf(frame) = HeaderSize + frames[frame].size
  BY <1>6, SentFacts
<1>8. HeaderSize <= EndOf(frame) /\ HeaderSize = 1 + HeaderSize - 1
  BY <1>3, <1>7
<1>9. /\ HeaderSize <= Len(stream)
      /\ \A j \in 1 .. HeaderSize : stream[j] = <<frame, 1 + j - 1>>
      /\ HeaderSize = EndOf(frame) => Starts(stream', frame)
      /\ HeaderSize < EndOf(frame) =>
           stream' # <<>> /\ stream'[1] = <<frame, HeaderSize + 1>>
  <2>1. PICK rest : rest = SubSeq(stream, HeaderSize + 1, Len(stream))
    OBVIOUS
  <2>. TypeInv /\ StreamInv
    OBVIOUS
  <2>. HIDE DEF Inv
  <2>2. /\ HeaderSize <= Len(stream)
        /\ \A j \in 1 .. HeaderSize : stream[j] = <<frame, 1 + j - 1>>
        /\ HeaderSize = EndOf(frame) => Starts(rest, frame)
        /\ HeaderSize < EndOf(frame) =>
             rest # <<>> /\ rest[1] = <<frame, HeaderSize + 1>>
    <3>1. stream[1][1] = frame /\ stream[1][2] = 1
      BY <1>5
    <3>2. HeaderSize \in Nat \ {0}
      BY <1>3
    <3>3. HeaderSize = stream[1][2] + HeaderSize - 1
          /\ HeaderSize <= EndOf(stream[1][1])
          => /\ HeaderSize <= Len(stream)
             /\ \A j \in 1 .. HeaderSize :
                  stream[j] = <<stream[1][1], stream[1][2] + j - 1>>
             /\ HeaderSize = EndOf(stream[1][1]) =>
                  Starts(rest, stream[1][1])
             /\ HeaderSize < EndOf(stream[1][1]) =>
                  rest # <<>> /\ rest[1] = <<stream[1][1], HeaderSize + 1>>
      BY <1>4, <2>1, <3>2, FrontByte
    <3>. QED  BY <1>8, <3>1, <3>3
  <2>. QED  BY <1>2, <2>1, <2>2
<1>10. SubSeq(stream, 1, HeaderSize) = HeaderOf(frame)
  <2>1. /\ SubSeq(stream, 1, HeaderSize) \in Seq(Byte)
        /\ Len(SubSeq(stream, 1, HeaderSize)) = HeaderSize
        /\ \A j \in 1 .. HeaderSize :
             SubSeq(stream, 1, HeaderSize)[j] = stream[j]
    BY <1>2, <1>3 DEF TypeInv, Byte
  <2>2. /\ HeaderOf(frame) \in Seq(Byte) /\ Len(HeaderOf(frame)) = HeaderSize
        /\ \A j \in 1 .. HeaderSize : HeaderOf(frame)[j] = <<frame, j>>
    BY <1>7, FrameFacts
  <2>3. \A j \in 1 .. HeaderSize :
          SubSeq(stream, 1, HeaderSize)[j] = HeaderOf(frame)[j]
    <3>1. \A j \in 1 .. HeaderSize : 1 + j - 1 = j
      BY <1>3
    <3>. QED  BY <1>9, <2>1, <2>2, <3>1
  <2>. QED  BY <2>1, <2>2, <2>3, SeqEqual
<1>11. Head(stream)[1] = frame
  BY <1>5
<1>12. HeaderVerified(frames[frame].stated) /\ bodyOk' = TRUE
  BY <1>10, <1>11 DEF ReadHeader
<1>13. /\ frames[frame].size = 0 => Starts(stream', frame)
       /\ frames[frame].size > 0 =>
            stream' # <<>> /\ stream'[1] = <<frame, HeaderSize + 1>>
  BY <1>3, <1>7, <1>9
<1>. QED  BY <1>1, <1>6, <1>12, <1>13

(* And the body of the frame whose header it has read, if that was sound.  *)
LEMMA BodyFound ==
  ASSUME Inv, ReadBody, Sound(Count + 1)
  PROVE  /\ Count + 1 \in 1 .. written
         /\ bodyOk = TRUE
         /\ SubSeq(stream, 1, expects) = BodyOf(Count + 1)
         /\ Starts(stream', Count + 1)
<1>. USE DEF Inv
<1>1. PICK frame \in Nat : frame = Count + 1 /\ frame > 0 /\ Count \in Nat
  BY DEF Count, TypeInv
<1>2. /\ open = TRUE
      /\ expects \in Nat
      /\ expects > 0
      /\ Len(stream) >= expects
      /\ stream' = SubSeq(stream, expects + 1, Len(stream))
  BY DEF ReadBody, TypeInv
<1>3. HeaderSize \in Nat
  BY FramingAssumption
<1>4. Sound(Count)
  BY <1>1, SoundLess
<1>5. /\ Count < written
      /\ bodyOk = TRUE
      /\ expects = frames[frame].stated
      /\ frames[frame].size > 0 =>
           stream # <<>> /\ stream[1] = <<frame, HeaderSize + 1>>
  BY <1>1, <1>2, <1>4 DEF StepInv
<1>6. frame \in 1 .. written
  BY <1>1, <1>5, SentFacts
<1>7. frames[frame].size = expects
  BY <1>1, <1>5, <1>6, SoundFrame
<1>8. stream # <<>> /\ stream[1][1] = frame /\ stream[1][2] = HeaderSize + 1
  BY <1>2, <1>5, <1>7
<1>9. PICK to \in Nat : to = HeaderSize + expects
  BY <1>2, <1>3
<1>10. EndOf(frame) = to
  BY <1>7, <1>9 DEF EndOf
<1>11. PICK rest : rest = SubSeq(stream, expects + 1, Len(stream))
  OBVIOUS
<1>12. /\ \A j \in 1 .. expects : stream[j] = <<frame, HeaderSize + 1 + j - 1>>
       /\ Starts(rest, frame)
  <2>1. TypeInv /\ StreamInv /\ expects \in Nat \ {0}
    BY <1>2
  <2>. HIDE DEF Inv
  <2>2. to = stream[1][2] + expects - 1 /\ to <= EndOf(stream[1][1])
        => /\ \A j \in 1 .. expects :
                stream[j] = <<stream[1][1], stream[1][2] + j - 1>>
           /\ to = EndOf(stream[1][1]) => Starts(rest, stream[1][1])
    BY <1>8, <1>11, <2>1, FrontByte
  <2>3. to = HeaderSize + 1 + expects - 1 /\ to <= to
    BY <1>2, <1>3, <1>9
  <2>. QED  BY <1>8, <1>10, <2>2, <2>3
<1>13. SubSeq(stream, 1, expects) = BodyOf(frame)
  <2>1. /\ SubSeq(stream, 1, expects) \in Seq(Byte)
        /\ Len(SubSeq(stream, 1, expects)) = expects
        /\ \A j \in 1 .. expects : SubSeq(stream, 1, expects)[j] = stream[j]
    BY <1>2 DEF TypeInv, Byte
  <2>2. /\ BodyOf(frame) \in Seq(Byte) /\ Len(BodyOf(frame)) = expects
        /\ \A j \in 1 .. expects : BodyOf(frame)[j] = <<frame, HeaderSize + j>>
    BY <1>2, <1>7, FrameFacts
  <2>3. \A j \in 1 .. expects :
          SubSeq(stream, 1, expects)[j] = BodyOf(frame)[j]
    <3>1. \A j \in 1 .. expects : HeaderSize + 1 + j - 1 = HeaderSize + j
      BY <1>2, <1>3
    <3>. QED  BY <1>12, <2>1, <2>2, <3>1
  <2>. QED  BY <2>1, <2>2, <2>3, SeqEqual
<1>. QED  BY <1>1, <1>2, <1>5, <1>6, <1>11, <1>12, <1>13

(* What the reader has of the stream, whatever it takes it for.            *)
LEMMA ReadTypes ==
  ASSUME Inv, NEW d \in 0 .. Len(stream),
         stream' = SubSeq(stream, d + 1, Len(stream)),
         UNCHANGED <<frames, written>>
  PROVE  stream' \in Seq(Byte) /\ StreamInv'
<1>1. /\ stream' \in Seq(Byte)
      /\ \A i \in 1 .. Len(stream') : Chained(stream', i)
  BY ChainedSuffix DEF Inv
<1>2. \A i : Chained(stream', i) => Chained(stream, i)'
  BY DEF Chained, EndOf
<1>. QED  BY <1>1, <1>2 DEF StreamInv

(* What was read stays, and is what it was.                                *)
LEMMA ReadKeeps ==
  ASSUME Inv, UNCHANGED <<frames, written>>,
         NEW payload, \/ messages' = messages
                      \/ messages' = Append(messages, payload),
         messages' = Append(messages, payload) /\ Sound(Count + 1) =>
           Count + 1 <= written /\ payload = BodyOf(Count + 1)
  PROVE  ReadInv'
<1>. USE DEF Inv
<1>1. PICK n \in Nat : n = Count
  BY DEF Count, TypeInv
<1>2. \A m : (Sound(m)' <=> Sound(m)) /\ BodyOf(m)' = BodyOf(m)
  BY DEF Sound, BodyOf, Bytes
<1>3. messages \in Seq(Seq(Byte)) /\ Len(messages) = n
  BY <1>1 DEF Count, TypeInv
<1>4. \A m \in 1 .. n : Sound(m) => m <= written /\ messages[m] = BodyOf(m)
  BY <1>1 DEF ReadInv
<1>5. CASE messages' = messages
  <2>1. Count' = n
    BY <1>1, <1>5 DEF Count
  <2>. QED  BY <1>2, <1>4, <1>5, <2>1 DEF ReadInv
<1>6. CASE messages' = Append(messages, payload)
  <2>1. /\ Count' = n + 1 /\ messages'[n + 1] = payload
        /\ \A m \in 1 .. n : messages'[m] = messages[m]
    BY <1>3, <1>6 DEF Count
  <2>2. \A m \in 1 .. n + 1 : m \in 1 .. n \/ m = n + 1
    OBVIOUS
  <2>3. Sound(n + 1) => n + 1 <= written /\ payload = BodyOf(n + 1)
    BY <1>1, <1>6
  <2>. QED  BY <1>2, <1>4, <2>1, <2>2, <2>3 DEF ReadInv
<1>. QED  BY <1>5, <1>6

(* A header is read.                                                       *)
LEMMA HeaderStep ==
  ASSUME Inv, ReadHeader
  PROVE  Inv'
<1>. USE DEF Inv
<1>1. PICK n \in Nat : n = Count
  BY DEF Count, TypeInv
<1>2. /\ open = TRUE
      /\ expects = 0
      /\ Len(stream) >= HeaderSize
      /\ stream' = SubSeq(stream, HeaderSize + 1, Len(stream))
      /\ UNCHANGED <<frames, written>>
  BY DEF ReadHeader, TypeInv
<1>3. HeaderSize \in 0 .. Len(stream)
  BY <1>2, FramingAssumption DEF TypeInv
<1>4. stream' \in Seq(Byte) /\ StreamInv'
  BY <1>2, <1>3, ReadTypes
<1>5. Head(stream)[1] \in 1 .. Len(frames)
  <2>1. 1 \in 1 .. Len(stream) /\ Head(stream) = stream[1]
    BY <1>2, FramingAssumption DEF TypeInv
  <2>2. stream[1][1] \in 1 .. written
    BY <2>1 DEF StreamInv, Chained
  <2>. QED  BY <2>1, <2>2, SentFacts
<1>6. \/ HeaderRefused
      \/ \E size \in Nat : HeaderVerified(size) /\ bodyOk' \in BOOLEAN
  <2>1. frames[Head(stream)[1]].stated \in Nat
    BY <1>5, SentFacts
  <2>2. \A size \in 0 .. SizeModulus - 1 : size \in Nat
    BY FramingAssumption
  <2>3. \/ /\ HeaderVerified(frames[Head(stream)[1]].stated)
           /\ bodyOk' = TRUE
        \/ HeaderRefused
        \/ \E size \in 0 .. SizeModulus - 1 :
             HeaderVerified(size) /\ bodyOk' \in BOOLEAN
    BY DEF ReadHeader
  <2>. QED  BY <2>1, <2>2, <2>3
<1>7. <<>> \in Seq(Byte)
  BY EmptySeq
<1>8. TypeInv'
  <2>1. CASE HeaderRefused
    BY <1>2, <1>4, <2>1 DEF HeaderRefused, TypeInv, Stated
  <2>2. CASE \E size \in Nat : HeaderVerified(size) /\ bodyOk' \in BOOLEAN
    BY <1>2, <1>4, <1>7, <2>2 DEF HeaderVerified, TypeInv, Stated
  <2>. QED  BY <1>6, <2>1, <2>2
<1>9. ASSUME Sound(n)
      PROVE  /\ n + 1 \in 1 .. written
             /\ bodyOk' = TRUE
             /\ HeaderVerified(frames[n + 1].stated)
             /\ frames[n + 1].size = 0 => Starts(stream', n + 1)
             /\ frames[n + 1].size > 0 =>
                  /\ stream' # <<>>
                  /\ stream'[1] = <<n + 1, HeaderSize + 1>>
  BY <1>1, <1>9, HeaderFound
<1>10. \A m : (Sound(m)' <=> Sound(m)) /\ BodyOf(m)' = BodyOf(m)
  BY <1>2 DEF Sound, BodyOf, Bytes
<1>11. messages' = messages \/ messages' = Append(messages, <<>>)
  BY <1>6 DEF HeaderRefused, HeaderVerified
<1>12. /\ messages' = messages => Count' = n
       /\ messages' = Append(messages, <<>>) => Count' = n + 1
  BY <1>1 DEF Count, TypeInv
<1>13. Sound(n + 1) => Sound(n)
  BY <1>1, SoundLess
<1>14. ASSUME Sound(n + 1)
       PROVE  frames[n + 1].size \in Nat
              /\ frames[n + 1].stated = frames[n + 1].size
  BY <1>9, <1>13, <1>14, SoundFrame, SentFacts
<1>15. StepInv'
  <2>1. SUFFICES ASSUME Sound(Count'), Sound(n)
                 PROVE  StepInv'
    BY <1>10, <1>11, <1>12, <1>13 DEF StepInv
  <2>2. PICK frame \in 1 .. written : frame = n + 1
    BY <1>9, <2>1
  <2>3. frames[frame].stated \in Nat /\ frames[frame].size \in Nat
    BY <2>2, SentFacts
  <2>4. HeaderVerified(frames[frame].stated)
    BY <1>9, <2>1, <2>2
  <2>5. CASE frames[frame].stated = 0
    <3>1. expects' = 0 /\ Count' = n + 1
      BY <1>12, <2>4, <2>5 DEF HeaderVerified
    <3>2. frames[frame].size = 0
      BY <1>14, <2>1, <2>2, <2>5, <3>1
    <3>3. Starts(stream', frame) /\ Count' = frame
      BY <1>9, <2>1, <2>2, <3>1, <3>2
    <3>4. Starts(stream, Count)'
      BY <1>2, <3>3 DEF Starts
    <3>. QED  BY <1>2, <3>1, <3>3, <3>4 DEF StepInv
  <2>6. CASE frames[frame].stated > 0
    <3>1. expects' = frames[frame].stated /\ Count' = n
      BY <1>12, <2>4, <2>6 DEF HeaderVerified
    <3>2. bodyOk' = TRUE
      BY <1>9, <2>1
    <3>3. n < written' /\ n <= written' /\ Count' + 1 = frame
      BY <1>2, <2>2, <3>1, SentFacts
    <3>4. frames'[frame].size > 0 =>
            stream' # <<>> /\ stream'[1] = <<frame, HeaderSize + 1>>
      BY <1>2, <1>9, <2>1, <2>2
    <3>5. /\ ~(expects' = 0)
          /\ Count' < written' /\ Count' <= written'
          /\ expects' = frames'[Count' + 1].stated
      BY <1>2, <2>6, <3>1, <3>3
    <3>. QED  BY <3>2, <3>3, <3>4, <3>5 DEF StepInv
  <2>. QED  BY <2>3, <2>5, <2>6
<1>16. ASSUME messages' = Append(messages, <<>>), Sound(n + 1)
       PROVE  n + 1 <= written /\ <<>> = BodyOf(n + 1)
  <2>1. PICK frame \in 1 .. written : frame = n + 1
    BY <1>9, <1>13, <1>16
  <2>2. frames[frame].stated = frames[frame].size
        /\ frames[frame].size \in Nat
    BY <1>14, <1>16, <2>1
  <2>3. HeaderVerified(frames[frame].stated)
    BY <1>9, <1>13, <1>16, <2>1
  <2>4. frames[frame].stated = 0
    <3>1. Append(messages, <<>>) # messages
      BY DEF TypeInv
    <3>. QED  BY <1>16, <2>3, <3>1 DEF HeaderVerified
  <2>5. BodyOf(frame) \in Seq(Byte) /\ Len(BodyOf(frame)) = 0
    <3>1. frame \in Nat /\ frames[frame].size = 0 /\ 0 \in Nat
      BY <2>2, <2>4, SentFacts
    <3>. QED  BY <3>1, FrameFacts
  <2>6. BodyOf(frame) = <<>>
    BY <2>5, EmptySeq, Zenon
  <2>. QED  BY <2>1, <2>6, SentFacts
<1>17. ReadInv'
  BY <1>1, <1>2, <1>11, <1>16, ReadKeeps
<1>. QED  BY <1>4, <1>8, <1>15, <1>17

(* A body is read.                                                         *)
LEMMA BodyStep ==
  ASSUME Inv, ReadBody
  PROVE  Inv'
<1>. USE DEF Inv
<1>1. PICK n \in Nat : n = Count
  BY DEF Count, TypeInv
<1>2. /\ open = TRUE
      /\ expects \in Nat
      /\ expects > 0
      /\ expects' = 0
      /\ Len(stream) >= expects
      /\ stream' = SubSeq(stream, expects + 1, Len(stream))
      /\ UNCHANGED <<frames, written, bodyOk>>
  BY DEF ReadBody, TypeInv
<1>3. expects \in 0 .. Len(stream)
  BY <1>2 DEF TypeInv
<1>4. stream' \in Seq(Byte) /\ StreamInv'
  BY <1>2, <1>3, ReadTypes
<1>5. PICK payload : payload = SubSeq(stream, 1, expects)
  OBVIOUS
<1>6. payload \in Seq(Byte)
  BY <1>2, <1>3, <1>5 DEF TypeInv, Byte
<1>7. \/ bodyOk = TRUE /\ messages' = Append(messages, payload) /\ open' = open
      \/ bodyOk = FALSE /\ messages' = messages /\ open' = FALSE
  BY <1>5 DEF ReadBody, TypeInv
<1>8. TypeInv'
  <2>1. messages' \in Seq(Seq(Byte)) /\ open' \in BOOLEAN
    <3>1. messages \in Seq(Seq(Byte)) /\ open \in BOOLEAN
      BY DEF TypeInv
    <3>2. Append(messages, payload) \in Seq(Seq(Byte))
      BY <1>6, <3>1
    <3>3. open' = TRUE \/ open' = FALSE
      BY <1>2, <1>7
    <3>. QED  BY <1>7, <3>1, <3>2, <3>3
  <2>. QED  BY <1>2, <1>4, <2>1 DEF TypeInv, Stated
<1>9. ASSUME Sound(n + 1)
      PROVE  /\ n + 1 \in 1 .. written
             /\ bodyOk = TRUE
             /\ payload = BodyOf(n + 1)
             /\ Starts(stream', n + 1)
  BY <1>1, <1>5, <1>9, BodyFound
<1>10. \A m : Sound(m)' <=> Sound(m)
  BY <1>2 DEF Sound
<1>11. StepInv'
  <2>1. CASE bodyOk = FALSE
    BY <1>7, <2>1 DEF StepInv
  <2>2. CASE bodyOk = TRUE
    <3>1. Count' = n + 1
      BY <1>1, <1>7, <2>2 DEF Count, TypeInv
    <3>2. SUFFICES ASSUME Sound(n + 1) PROVE StepInv'
      BY <1>10, <3>1 DEF StepInv
    <3>3. Starts(stream, Count)'
      BY <1>2, <1>9, <3>1, <3>2 DEF Starts
    <3>4. n + 1 <= written'
      BY <1>2, <1>9, <3>2, SentFacts
    <3>. QED  BY <1>2, <3>1, <3>3, <3>4 DEF StepInv
  <2>. QED  BY <1>7, <2>1, <2>2
<1>12. messages' = Append(messages, payload) /\ Sound(n + 1) =>
         n + 1 <= written /\ payload = BodyOf(n + 1)
  BY <1>9, SentFacts
<1>13. messages' = messages \/ messages' = Append(messages, payload)
  BY <1>7
<1>14. ReadInv'
  BY <1>1, <1>2, <1>12, <1>13, ReadKeeps
<1>. QED  BY <1>4, <1>8, <1>11, <1>14

-----------------------------------------------------------------------------

(* The types, the chain on the stream, and the reader's place in it.       *)
THEOREM InvHolds == Spec => []Inv
<1>1. Init => Inv
  <2>. SUFFICES ASSUME Init PROVE Inv
    OBVIOUS
  <2>1. Len(frames) = 0 /\ Len(stream) = 0 /\ Count = 0
    BY DEF Init, Count
  <2>2. TypeInv
    BY <2>1, EmptySeq DEF Init, TypeInv
  <2>3. StreamInv /\ ReadInv
    BY <2>1 DEF StreamInv, ReadInv
  <2>4. StepInv
    BY <2>1 DEF Init, StepInv, Starts
  <2>. QED  BY <2>2, <2>3, <2>4 DEF Inv
<1>2. Inv /\ [Next]_vars => Inv'
  <2>. SUFFICES ASSUME Inv, [Next]_vars PROVE Inv'
    OBVIOUS
  <2>1. CASE Send
    BY <2>1, SendStep
  <2>2. CASE ResizePayload
    BY <2>2, ResizeStep
  <2>3. CASE AsyncWrite
    BY <2>3, WriteStep
  <2>4. CASE ReadHeader
    BY <2>4, HeaderStep
  <2>5. CASE ReadBody
    BY <2>5, BodyStep
  <2>6. CASE UNCHANGED vars
    BY <2>6, UnwrittenChanges
    DEF vars, Inv, TypeInv, Stated
  <2>. QED  BY <2>1, <2>2, <2>3, <2>4, <2>5, <2>6 DEF Next
<1>. QED  BY <1>1, <1>2, PTL DEF Spec

(* The stream never gets out of step: for any sizes, any width of the      *)
(* header's size field and any number of messages, what the reader has     *)
(* handed on is what was written, byte for byte, up to the first payload   *)
(* that does not fit the field or was resized after send().                *)
THEOREM FramesArriveInStep == Spec => []FramesKeepStep
<1>1. Inv => FramesKeepStep
  <2>. SUFFICES ASSUME Inv, NEW n \in 1 .. Count, SoundUpTo(n)
                PROVE  n <= written /\ messages[n] = BodyOf(n)
    BY DEF FramesKeepStep, Count
  <2>1. n \in Nat
    BY DEF Inv, TypeInv, Count
  <2>2. Sound(n)
    <3>1. \A i \in 1 .. written : i <= n => i \in 1 .. n
      BY <2>1, SentFacts DEF Inv
    <3>2. \A i \in 1 .. written : frames[i].resized \in BOOLEAN
      BY SentFacts DEF Inv
    <3>. QED  BY <3>1, <3>2 DEF Sound, SoundUpTo
  <2>. QED  BY <2>2 DEF Inv, ReadInv
<1>. QED  BY <1>1, InvHolds, PTL

=============================================================================
