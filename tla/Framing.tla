------------------------------- MODULE Framing -------------------------------
(***************************************************************************)
(* How messages become bytes and bytes become messages again: what         *)
(* Message puts in its header, what Session::asyncWrite puts on the        *)
(* stream, and what the two reads of the other side make of it.            *)
(*                                                                         *)
(* A byte is named by the frame it was written for and its position there; *)
(* the stream keeps their order, as TLS does.  A header that is read from  *)
(* anywhere but a frame's beginning is nonsense: its fields may be any.    *)
(***************************************************************************)
EXTENDS Naturals, Sequences

CONSTANTS
  Sizes,       \* the sizes a payload may have, in bytes
  SizeModulus, \* 2^32 in the code, as pInfo.size is a uint32_t
  HeaderSize,  \* HeaderSize, in bytes
  MaxFrames    \* bound: messages sent

ASSUME FramingAssumption ==
  /\ Sizes \subseteq Nat
  /\ SizeModulus \in Nat \ {0}
  /\ HeaderSize \in Nat \ {0}
  /\ MaxFrames \in Nat

VARIABLES
  frames,   \* of each message sent: the size of its payload, the size
            \*   that its header states, and whether it was resized since
  written,  \* how many of them asyncWrite() has put on the stream
  stream,   \* the bytes that were written and not read
  expects,  \* the size of the body that the reader waits for; 0 if it waits
            \*   for a header
  bodyOk,   \* what verifyBody() will find: the header's pInfo.crc is 0
  open,     \* FALSE once the reader has called close()
  messages  \* history: the payloads that reached onMessageReceived()

vars == <<frames, written, stream, expects, bodyOk, open, messages>>

-----------------------------------------------------------------------------

Bytes(frame, first, count) ==
  [i \in 1 .. count |-> <<frame, first + i - 1>>]

HeaderOf(frame) == Bytes(frame, 1, HeaderSize)
BodyOf(frame) == Bytes(frame, HeaderSize + 1, frames[frame].size)

(* Mutant: a field of half the width.                                      *)
StatedNarrow(size) == size % (SizeModulus \div 2)

(* countPayloadCRC(): size_t becomes uint32_t.                             *)
Stated(size) == size % SizeModulus

(* Session::send(payload) constructs the message.                          *)
Send ==
  /\ Len(frames) < MaxFrames
  /\ \E size \in Sizes :
       frames' = Append(frames, [size |-> size, stated |-> Stated(size),
                                 resized |-> FALSE])
  /\ UNCHANGED <<written, stream, expects, bodyOk, open, messages>>

(* The caller, who has the payload too, resizes it before it is written.   *)
ResizePayload ==
  /\ \E frame \in written + 1 .. Len(frames), size \in Sizes :
       frames' = [frames EXCEPT ![frame].size = size,
                                ![frame].resized = TRUE]
  /\ UNCHANGED <<written, stream, expects, bodyOk, open, messages>>

(* asyncWrite(): the header, then as many bytes as the payload has now.    *)
AsyncWrite ==
  /\ written < Len(frames)
  /\ written' = written + 1
  /\ stream' = stream \o HeaderOf(written') \o BodyOf(written')
  /\ UNCHANGED <<frames, expects, bodyOk, open, messages>>

(* Mutant: what follows an empty message is taken for its body.            *)
HeaderVerifiedAlways(size) ==
  /\ expects' = IF size = 0 THEN 1 ELSE size
  /\ UNCHANGED <<messages, open>>

(* A verified header: fitToSize() and the body, or no body at all.         *)
HeaderVerified(size) ==
  /\ expects' = size
  /\ messages' = IF size = 0 THEN Append(messages, <<>>) ELSE messages
  /\ UNCHANGED open

HeaderRefused ==
  /\ open' = FALSE
  /\ UNCHANGED <<expects, bodyOk, messages>>

(* verifyHeader() and verifyBody() look for a crc of 0, which every header *)
(* has that was written as one.                                            *)
ReadHeader ==
  /\ open
  /\ expects = 0
  /\ Len(stream) >= HeaderSize
  /\ stream' = SubSeq(stream, HeaderSize + 1, Len(stream))
  /\ LET frame == Head(stream)[1] IN
     IF SubSeq(stream, 1, HeaderSize) = HeaderOf(frame)
     THEN HeaderVerified(frames[frame].stated) /\ bodyOk' = TRUE
     ELSE \/ HeaderRefused
          \/ /\ \E size \in 0 .. SizeModulus - 1 : HeaderVerified(size)
             /\ bodyOk' \in BOOLEAN
  /\ UNCHANGED <<frames, written>>

ReadBody ==
  /\ open
  /\ expects > 0
  /\ Len(stream) >= expects
  /\ stream' = SubSeq(stream, expects + 1, Len(stream))
  /\ expects' = 0
  /\ IF bodyOk
     THEN /\ messages' = Append(messages, SubSeq(stream, 1, expects))
          /\ UNCHANGED open
     ELSE /\ open' = FALSE
          /\ UNCHANGED messages
  /\ UNCHANGED <<frames, written, bodyOk>>

-----------------------------------------------------------------------------

Init ==
  /\ frames = <<>>
  /\ written = 0
  /\ stream = <<>>
  /\ expects = 0
  /\ bodyOk = TRUE
  /\ open = TRUE
  /\ messages = <<>>

Next == Send \/ ResizePayload \/ AsyncWrite \/ ReadHeader \/ ReadBody

Spec == Init /\ [][Next]_vars

FairSpec ==
  /\ Spec
  /\ WF_vars(AsyncWrite)
  /\ WF_vars(ReadHeader)
  /\ WF_vars(ReadBody)

-----------------------------------------------------------------------------

(* Payloads that fit the header's field, and that their sender left alone. *)
SoundUpTo(n) ==
  \A i \in 1 .. n : frames[i].size < SizeModulus /\ ~frames[i].resized

(* The stream never gets out of step: as long as no payload has 2^32 bytes *)
(* or more and none was resized after send(), the messages that the reader *)
(* sees are the payloads that were written, byte for byte, in order, none  *)
(* left out, empty ones included.                                          *)
FramesKeepStep ==
  \A n \in 1 .. Len(messages) :
    SoundUpTo(n) => n <= written /\ messages[n] = BodyOf(n)

(* No message is left behind: the reader does not wait for bytes that do   *)
(* not come, if all payloads were sound.                                   *)
AllArrive ==
  Len(frames) = MaxFrames /\ written = MaxFrames /\ SoundUpTo(MaxFrames)
  ~> Len(messages) = MaxFrames

=============================================================================
