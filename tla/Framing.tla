------------------------------ MODULE Framing -------------------------------
(***************************************************************************)
(* One direction of a connection: send_message and receive_message of      *)
(* src/src/network.rs as the writer and the reader task call them.  A      *)
(* frame is a length of Width bytes, least significant first, followed by  *)
(* the serialised message.  TCP delivers the bytes in order but in pieces  *)
(* of any size, and the sender may die in the middle of a frame.           *)
(***************************************************************************)
EXTENDS Naturals, Sequences

CONSTANTS
    Message,
    Size,      \* the number of bytes a message serialises to
    Base,      \* the values of a byte (256 in the code)
    Width,     \* the bytes of the length (4 in the code, a u32)
    MaxSize,   \* MAX_MESSAGE_SIZE
    MaxSends   \* bound on the messages sent

ASSUME FramingAssumption ==
    /\ Size \in [Message -> Nat \ {0}]
    /\ Base \in Nat \ {0, 1}
    /\ Width \in Nat \ {0}
    /\ Base ^ Width \in Nat
    /\ MaxSize \in Nat
    /\ MaxSize < Base ^ Width
    /\ MaxSends \in Nat

VARIABLES
    sent,     \* the messages given to send_message
    unsent,   \* the bytes of the current frame that the socket has not taken
    open,     \* is the write half open?
    socket,   \* the bytes on their way
    reader,   \* "length", "data": what receive_message awaits; or "ended"
    expected, \* the length it has read
    got       \* the messages receive_message has returned

vars == <<sent, unsent, open, socket, reader, expected, got>>

-----------------------------------------------------------------------------
(* Bytes: those of a length are digits, those of a message its i-th byte.  *)

LengthByte(d) == [digit |-> d % Base, of |-> "length"]
DataByte(m, i) == [digit |-> i % Base, of |-> m]

\* `data.len() as u32` and to_le_bytes
ToBytes(len) ==
    [i \in 1 .. Width |->
        LengthByte((len % Base ^ Width) \div Base ^ (i - 1))]
\* from_le_bytes: the number whose digits these are
FromBytes(bytes) ==
    CHOOSE len \in 0 .. Base ^ Width - 1 :
        \A i \in 1 .. Width : (len \div Base ^ (i - 1)) % Base = bytes[i].digit

\* from_le_bytes is the inverse of to_le_bytes.
ASSUME RoundTripAssumption ==
    \A len \in 0 .. Base ^ Width - 1 : FromBytes(ToBytes(len)) = len

Serialize(m) == [i \in 1 .. Size[m] |-> DataByte(m, i)]

\* NetworkMessage::deserialize: bincode reads a message off the front, fails if
\* there is no whole one, and ignores the bytes after it.
Deserialized(data) ==
    {m \in Message :
        Size[m] <= Len(data) /\ SubSeq(data, 1, Size[m]) = Serialize(m)}

-----------------------------------------------------------------------------
(* send_message: the size is not checked here. *)

Send(m) ==
    /\ open
    /\ unsent = << >>
    /\ Len(sent) < MaxSends
    /\ sent' = Append(sent, m)
    /\ unsent' = ToBytes(Size[m]) \o Serialize(m)
    /\ UNCHANGED <<open, socket, reader, expected, got>>

\* write_all: the socket takes some of the bytes.
Write ==
    /\ \E k \in 1 .. Len(unsent) :
          /\ socket' = socket \o SubSeq(unsent, 1, k)
          /\ unsent' = SubSeq(unsent, k + 1, Len(unsent))
    /\ UNCHANGED <<sent, open, reader, expected, got>>

\* The writer task ends, or its process does, maybe in the middle of a frame.
Close ==
    /\ open
    /\ open' = FALSE
    /\ unsent' = << >>
    /\ UNCHANGED <<sent, socket, reader, expected, got>>

-----------------------------------------------------------------------------
(* receive_message *)

Needed == IF reader = "length" THEN Width ELSE expected

TooLargeNever(len) == FALSE
TooLargeOffByOne(len) == len >= MaxSize
TooLarge(len) == len > MaxSize

\* After an error peer_reader returns and nothing more is read.
AfterSkippedFrame == "length"
AfterError == "ended"

\* read_exact returns only with all the bytes asked for.
Take ==
    /\ reader # "ended"
    /\ Len(socket) >= Needed
    /\ socket' = SubSeq(socket, Needed + 1, Len(socket))

ReadLength ==
    /\ reader = "length"
    /\ Take
    /\ LET len == FromBytes(SubSeq(socket, 1, Width))
       IN  IF TooLarge(len)
           THEN reader' = AfterError /\ UNCHANGED expected
           ELSE reader' = "data" /\ expected' = len
    /\ UNCHANGED <<sent, unsent, open, got>>

ReadData ==
    /\ reader = "data"
    /\ Take
    /\ LET found == Deserialized(SubSeq(socket, 1, expected))
       IN  \/ /\ found = {}
              /\ reader' = AfterError
              /\ UNCHANGED got
           \/ \E m \in found :
              /\ got' = Append(got, m)
              /\ reader' = "length"
    /\ UNCHANGED <<sent, unsent, open, expected>>

\* The stream ends before the bytes asked for.
ReadEnd ==
    /\ reader # "ended"
    /\ ~open
    /\ Len(socket) < Needed
    /\ reader' = "ended"
    /\ UNCHANGED <<sent, unsent, open, socket, expected, got>>

Init ==
    /\ sent = << >>
    /\ unsent = << >>
    /\ open = TRUE
    /\ socket = << >>
    /\ reader = "length"
    /\ expected = 0
    /\ got = << >>

Next ==
    \/ \E m \in Message : Send(m)
    \/ Write
    \/ Close
    \/ ReadLength
    \/ ReadData
    \/ ReadEnd

Spec == Init /\ [][Next]_vars

\* The two tasks and the sockets make progress.
FairSpec ==
    Spec /\ WF_vars(Write) /\ WF_vars(ReadLength \/ ReadData \/ ReadEnd)

-----------------------------------------------------------------------------
(* Properties *)

\* Every variable keeps its type.
TypeOK ==
    /\ sent \in Seq(Message)
    /\ got \in Seq(Message)
    /\ open \in BOOLEAN
    /\ reader \in {"length", "data", "ended"}
    /\ expected \in 0 .. MaxSize

Wire == INSTANCE Channel WITH
            Link <- {"wire"},
            sent <- [l \in {"wire"} |-> sent],
            got <- [l \in {"wire"} |-> got]

\* What receive_message returns is what was given to send_message, in order,
\* whatever the pieces the bytes arrive in, wherever the sender stops and
\* whatever the length wraps to: a frame is never taken for another.
FramesAreMessages == Wire!Spec

\* Every message up to the limit arrives if none before it was over the limit
\* and the sender lives on.
FramesArrive ==
    \A k \in 1 .. MaxSends :
        (Len(sent) >= k /\ \A i \in 1 .. k : Size[sent[i]] <= MaxSize)
            ~> (Len(got) >= k \/ ~open)

\* The limit is enforced by the receiver alone: a message over it, one whose
\* length does not fit in Width bytes included, is taken by the sender, ends
\* the connection at the receiver, and no message after it arrives.
OversizeEnds ==
    \A k \in 1 .. MaxSends :
        (Len(sent) >= k /\ Size[sent[k]] > MaxSize)
            ~> (reader = "ended" /\ Len(got) < k)

=============================================================================
