--------------------------- MODULE FramingProofs ----------------------------
(***************************************************************************)
(* Proofs about module Framing: what receive_message returns is what was   *)
(* given to send_message, whatever the pieces the bytes arrive in.         *)
(***************************************************************************)
EXTENDS Framing, Integers, SequenceTheorems, TLAPS

-----------------------------------------------------------------------------
(* Frames and bytes *)

FrameSize(m) == Width + Size[m]

FrameByte(m, p) ==
    IF p <= Width THEN ToBytes(Size[m])[p] ELSE Serialize(m)[p - Width]

Byte == {FrameByte(m, p) : m \in Message, p \in Nat}

\* The bytes that were sent and not yet read, in the socket or before it.
Pending == Len(socket) + Len(unsent)
ByteAt(p) == IF p <= Len(socket) THEN socket[p] ELSE unsent[p - Len(socket)]

LEMMA ArrayIsSeq ==
    ASSUME NEW S, NEW n \in Nat, NEW f \in [1 .. n -> S]
    PROVE  f \in Seq(S) /\ Len(f) = n
  OBVIOUS

LEMMA SizeType ==
    ASSUME NEW m \in Message
    PROVE  /\ Size[m] \in Nat /\ Size[m] > 0
           /\ Width \in Nat /\ Width > 0
           /\ FrameSize(m) \in Nat
  BY FramingAssumption DEF FrameSize

LEMMA FrameIs ==
    ASSUME NEW m \in Message, NEW frame, frame = ToBytes(Size[m]) \o Serialize(m)
    PROVE  /\ frame \in Seq(Byte)
           /\ Len(frame) = FrameSize(m)
           /\ \A p \in 1 .. FrameSize(m) : frame[p] = FrameByte(m, p)
<1> DEFINE head == ToBytes(Size[m])
           body == Serialize(m)
<1>1. /\ Size[m] \in Nat /\ Width \in Nat /\ Width > 0
  BY SizeType
<1>2. DOMAIN head = 1 .. Width /\ DOMAIN body = 1 .. Size[m]
  BY DEF ToBytes, Serialize
<1>3. \A p \in 1 .. Width : head[p] = FrameByte(m, p)
  BY <1>1 DEF FrameByte
<1>4. \A p \in 1 .. Size[m] : body[p] = FrameByte(m, p + Width)
  <2>1. SUFFICES ASSUME NEW p \in 1 .. Size[m]
                 PROVE  body[p] = FrameByte(m, p + Width)
    OBVIOUS
  <2>2. ~(p + Width <= Width) /\ (p + Width) - Width = p
    BY <1>1
  <2> QED
    BY <2>2 DEF FrameByte
<1>5. head = [p \in 1 .. Width |-> head[p]] /\ body = [p \in 1 .. Size[m] |-> body[p]]
  BY DEF ToBytes, Serialize
<1> HIDE DEF head, body
<1>6. head \in Seq(Byte) /\ Len(head) = Width
  <2>1. \A p \in 1 .. Width : head[p] \in Byte
    BY <1>1, <1>3 DEF Byte
  <2>2. head \in [1 .. Width -> Byte]
    BY <1>5, <2>1
  <2> QED
    BY <1>1, <2>2
<1>7. body \in Seq(Byte) /\ Len(body) = Size[m]
  <2>1. \A p \in 1 .. Size[m] : body[p] \in Byte
    <3>1. \A p \in 1 .. Size[m] : p + Width \in Nat
      BY <1>1
    <3> QED
      BY <1>4, <3>1 DEF Byte
  <2>2. body \in [1 .. Size[m] -> Byte]
    BY <1>5, <2>1
  <2> QED
    BY <1>1, <2>2, ArrayIsSeq
<1>8. frame = head \o body
  BY DEF head, body
<1>9. frame \in Seq(Byte) /\ Len(frame) = FrameSize(m)
  <2>1. head \o body \in Seq(Byte) /\ Len(head \o body) = Len(head) + Len(body)
    BY <1>6, <1>7, ConcatProperties
  <2> QED
    BY <1>6, <1>7, <1>8, <2>1 DEF FrameSize
<1>10. ASSUME NEW p \in 1 .. FrameSize(m) PROVE frame[p] = FrameByte(m, p)
  <2>1. CASE p <= Width
    BY <1>1, <1>3, <1>6, <1>7, <1>8, <1>10, <2>1 DEF FrameSize
  <2>2. CASE p > Width
    <3>1. frame[p] = body[p - Width] /\ p - Width \in 1 .. Size[m]
      BY <1>1, <1>6, <1>7, <1>8, <1>10, <2>2 DEF FrameSize
    <3>2. (p - Width) + Width = p
      BY <1>1, <1>10
    <3> QED
      BY <1>4, <3>1, <3>2
  <2>3. p \in Nat
    BY <1>1, <1>10
  <2>4. p <= Width \/ p > Width
    BY <1>1, <2>3
  <2> QED
    BY <2>1, <2>2, <2>4, Zenon
<1> QED
  BY <1>9, <1>10

-----------------------------------------------------------------------------
(* The invariant.  The bytes still to be read are what is left of the      *)
(* frames of the messages still to be received, one after the other.       *)

\* As far as they are there, the bytes after `start` are those of m's frame.
FrameAfter(start, m) ==
    \A p \in Nat :
        0 < p /\ p <= FrameSize(m) /\ 0 < start + p /\ start + p <= Pending
        => ByteAt(start + p) = FrameByte(m, p)

\* Where the frame at the front starts: its length may have been read.
FrontStart == IF reader = "length" THEN 0 ELSE -Width

\* The frame of the i-th message ends at byte ends[i] of those still to be
\* read; what comes after the last byte is missing if the sender stopped.
LaidOut(ends) ==
    /\ ends[Len(got)] = FrontStart
    /\ \A i \in Nat :
          Len(got) <= i /\ i < Len(sent)
          => /\ ends[i + 1] = ends[i] + FrameSize(sent[i + 1])
             /\ ends[i + 1] <= ends[Len(sent)]
             /\ FrameAfter(ends[i], sent[i + 1])
    /\ Pending <= ends[Len(sent)]
    /\ open => Pending = ends[Len(sent)]

\* The length that was read is not more than what follows of its frame.
LengthFits ==
    reader = "data"
    => Len(got) < Len(sent) /\ expected <= Size[sent[Len(got) + 1]]

StreamInv ==
    /\ TypeOK
    /\ socket \in Seq(Byte) /\ unsent \in Seq(Byte)
    /\ Len(got) <= Len(sent)
    /\ LengthFits
    /\ reader # "ended" => \E ends \in [Nat -> Int] : LaidOut(ends)

LEMMA StreamTypes ==
    ASSUME StreamInv
    PROVE  /\ sent \in Seq(Message) /\ got \in Seq(Message)
           /\ Len(sent) \in Nat /\ Len(got) \in Nat /\ Len(got) <= Len(sent)
           /\ socket \in Seq(Byte) /\ unsent \in Seq(Byte)
           /\ Len(socket) \in Nat /\ Len(unsent) \in Nat /\ Pending \in Nat
           /\ expected \in Nat
           /\ \A i \in 1 .. Len(sent) : sent[i] \in Message
  BY FramingAssumption DEF StreamInv, TypeOK, Pending

-----------------------------------------------------------------------------
(* What each step makes of the bytes still to be read *)

BytesKept ==
    /\ Pending' \in Nat /\ Pending' <= Pending
    /\ \A p \in Nat : 0 < p /\ p <= Pending' => ByteAt(p)' = ByteAt(p)

BytesAdded(m) ==
    /\ Pending' = Pending + FrameSize(m)
    /\ \A p \in Nat : 0 < p /\ p <= Pending => ByteAt(p)' = ByteAt(p)
    /\ \A p \in Nat :
          Pending < p /\ p <= Pending + FrameSize(m)
          => ByteAt(p)' = FrameByte(m, p - Pending)

BytesTaken(n) ==
    /\ Pending' \in Nat /\ Pending' = Pending - n
    /\ \A p \in Nat : 0 < p /\ p <= Pending' => ByteAt(p)' = ByteAt(p + n)

\* The socket takes bytes of the frame: nothing changes for the reader.
LEMMA WriteBytes ==
    ASSUME StreamInv, Write
    PROVE  /\ socket' \in Seq(Byte) /\ unsent' \in Seq(Byte)
           /\ Pending' = Pending /\ BytesKept
<1>1. PICK k \in 1 .. Len(unsent) :
         /\ socket' = socket \o SubSeq(unsent, 1, k)
         /\ unsent' = SubSeq(unsent, k + 1, Len(unsent))
  BY DEF Write
<1>2. socket \in Seq(Byte) /\ unsent \in Seq(Byte) /\ Len(socket) \in Nat
      /\ Len(unsent) \in Nat /\ k \in Nat /\ k >= 1 /\ k <= Len(unsent)
  BY StreamTypes
<1> DEFINE taken == SubSeq(unsent, 1, k)
           left == SubSeq(unsent, k + 1, Len(unsent))
<1>3. /\ taken \in Seq(Byte) /\ Len(taken) = k
      /\ \A i \in 1 .. k : taken[i] = unsent[i]
  BY <1>2
<1>4. /\ left \in Seq(Byte) /\ Len(left) = Len(unsent) - k
      /\ \A i \in 1 .. Len(unsent) - k : left[i] = unsent[k + i]
  BY <1>2
<1>5. socket' = socket \o taken /\ unsent' = left
  BY <1>1
<1> HIDE DEF taken, left
<1>6. /\ socket' \in Seq(Byte) /\ unsent' \in Seq(Byte)
      /\ Len(socket') = Len(socket) + k /\ Len(unsent') = Len(unsent) - k
  <2>1. /\ socket \o taken \in Seq(Byte)
        /\ Len(socket \o taken) = Len(socket) + Len(taken)
    BY <1>2, <1>3, ConcatProperties
  <2> QED
    BY <1>3, <1>4, <1>5, <2>1
<1>7. Pending' = Pending
  BY <1>2, <1>6 DEF Pending
<1>8. ASSUME NEW p \in Nat, 0 < p, p <= Pending PROVE ByteAt(p)' = ByteAt(p)
  <2>1. p \in Nat /\ p >= 1 /\ p <= Len(socket) + Len(unsent)
    BY <1>2, <1>8 DEF Pending
  <2>2. CASE p <= Len(socket)
    BY <1>2, <1>3, <1>5, <1>6, <2>1, <2>2 DEF ByteAt
  <2>3. CASE Len(socket) < p /\ p <= Len(socket) + k
    <3>1. socket'[p] = taken[p - Len(socket)]
      BY <1>2, <1>3, <1>5, <2>1, <2>3
    <3>2. taken[p - Len(socket)] = unsent[p - Len(socket)]
      BY <1>2, <1>3, <2>1, <2>3
    <3> QED
      BY <1>2, <1>6, <2>1, <2>3, <3>1, <3>2 DEF ByteAt
  <2>4. CASE p > Len(socket) + k
    <3> DEFINE i == p - (Len(socket) + k)
    <3>1. i \in 1 .. Len(unsent) - k /\ k + i = p - Len(socket)
      BY <1>2, <2>1, <2>4
    <3>2. unsent'[i] = unsent[p - Len(socket)]
      BY <1>4, <1>5, <3>1
    <3> QED
      BY <1>2, <1>6, <2>1, <2>4, <3>2 DEF ByteAt
  <2> QED
    BY <1>2, <2>1, <2>2, <2>3, <2>4
<1>9. BytesKept
  <2>1. Pending \in Nat
    BY StreamTypes
  <2>2. Pending' \in Nat /\ Pending' <= Pending
    BY <1>7, <2>1
  <2>3. ASSUME NEW p \in Nat, 0 < p, p <= Pending' PROVE ByteAt(p)' = ByteAt(p)
    <3>1. p <= Pending
      BY <1>7, <2>3
    <3> QED
      BY <1>8, <2>3, <3>1
  <2> QED
    BY <2>2, <2>3 DEF BytesKept
<1> QED
  BY <1>6, <1>7, <1>9

\* The bytes of the frame that the socket has not taken are lost.
LEMMA CloseBytes ==
    ASSUME StreamInv, Close
    PROVE  /\ socket' \in Seq(Byte) /\ unsent' \in Seq(Byte)
           /\ BytesKept
<1>1. socket \in Seq(Byte) /\ Len(socket) \in Nat /\ Len(unsent) \in Nat
      /\ socket' = socket /\ unsent' = << >>
  BY StreamTypes DEF Close
<1>2. unsent' \in Seq(Byte) /\ Len(unsent') = 0
  BY <1>1
<1>3. Pending' = Len(socket)
  BY <1>1, <1>2 DEF Pending
<1> QED
  BY <1>1, <1>2, <1>3 DEF BytesKept, ByteAt, Pending

\* A whole frame is added at the end.
LEMMA SendBytes ==
    ASSUME StreamInv, NEW m \in Message, Send(m)
    PROVE  /\ socket' \in Seq(Byte) /\ unsent' \in Seq(Byte)
           /\ BytesAdded(m)
<1>1. socket \in Seq(Byte) /\ Len(socket) \in Nat
      /\ socket' = socket /\ unsent = << >>
      /\ unsent' = ToBytes(Size[m]) \o Serialize(m)
  BY StreamTypes DEF Send
<1>2. /\ unsent' \in Seq(Byte) /\ Len(unsent') = FrameSize(m)
      /\ \A p \in 1 .. FrameSize(m) : unsent'[p] = FrameByte(m, p)
  BY <1>1, FrameIs
<1>3. FrameSize(m) \in Nat
  BY SizeType
<1>4. Pending = Len(socket) /\ Pending' = Len(socket) + FrameSize(m)
  BY <1>1, <1>2 DEF Pending
<1>5. ASSUME NEW p \in Nat, 0 < p, p <= Pending PROVE ByteAt(p)' = ByteAt(p)
  BY <1>1, <1>4, <1>5 DEF ByteAt
<1>6. ASSUME NEW p \in Nat, Pending < p, p <= Pending + FrameSize(m)
      PROVE  ByteAt(p)' = FrameByte(m, p - Pending)
  <2>1. ~(p <= Len(socket')) /\ p - Pending \in 1 .. FrameSize(m)
        /\ p - Len(socket') = p - Pending
    BY <1>1, <1>3, <1>4, <1>6
  <2> QED
    BY <1>2, <2>1 DEF ByteAt
<1> QED
  BY <1>2, <1>4, <1>5, <1>6, <1>1 DEF BytesAdded

\* read_exact takes n bytes off the front.
LEMMA TakeBytes ==
    ASSUME StreamInv, NEW n \in Nat, n <= Len(socket),
           socket' = SubSeq(socket, n + 1, Len(socket)), unsent' = unsent
    PROVE  /\ socket' \in Seq(Byte) /\ unsent' \in Seq(Byte)
           /\ BytesTaken(n)
<1>1. socket \in Seq(Byte) /\ Len(socket) \in Nat /\ unsent \in Seq(Byte)
      /\ Len(unsent) \in Nat
  BY StreamTypes
<1> DEFINE left == SubSeq(socket, n + 1, Len(socket))
<1>2. /\ left \in Seq(Byte) /\ Len(left) = Len(socket) - n
      /\ \A i \in 1 .. Len(socket) - n : left[i] = socket[n + i]
  BY <1>1
<1>3. socket' = left
  OBVIOUS
<1> HIDE DEF left
<1>4. /\ Len(socket') = Len(socket) - n /\ Len(socket) - n \in Nat
      /\ Len(unsent') = Len(unsent)
  BY <1>1, <1>2, <1>3
<1>5. Pending' = Pending - n /\ Pending' \in Nat
  BY <1>1, <1>4 DEF Pending
<1>6. ASSUME NEW p \in Nat, 0 < p, p <= Pending' PROVE ByteAt(p)' = ByteAt(p + n)
  <2>1. p \in Nat /\ p >= 1 /\ p <= Len(socket) + Len(unsent) - n
    BY <1>1, <1>5, <1>6 DEF Pending
  <2>2. CASE p <= Len(socket) - n
    <3>1. socket'[p] = socket[n + p] /\ n + p = p + n /\ p + n <= Len(socket)
          /\ p <= Len(socket')
      BY <1>1, <1>2, <1>3, <1>4, <2>1, <2>2
    <3> QED
      BY <3>1 DEF ByteAt
  <2>3. CASE p > Len(socket) - n
    <3>1. ~(p <= Len(socket')) /\ ~(p + n <= Len(socket))
          /\ p - Len(socket') = (p + n) - Len(socket)
      <4>1. Len(socket') \in Int /\ p \in Int /\ n \in Int /\ Len(socket) \in Int
        BY <1>1, <1>4, <2>1
      <4>2. ~(p <= Len(socket'))
        BY <1>4, <2>3, <4>1
      <4>3. ~(p + n <= Len(socket))
        BY <2>3, <4>1
      <4>4. p - (Len(socket) - n) = (p + n) - Len(socket)
        BY <4>1
      <4> QED
        BY <1>4, <4>2, <4>3, <4>4, Zenon
    <3> QED
      BY <3>1 DEF ByteAt
  <2> QED
    BY <1>1, <2>1, <2>2, <2>3
<1> QED
  BY <1>1, <1>2, <1>3, <1>5, <1>6 DEF BytesTaken

-----------------------------------------------------------------------------
(* The frame at the front *)

\* If a byte of it is there, the message is one that was sent.
LEMMA FrontFrame ==
    ASSUME StreamInv, NEW ends \in [Nat -> Int], LaidOut(ends),
           Pending > ends[Len(got)]
    PROVE  /\ Len(got) < Len(sent)
           /\ sent[Len(got) + 1] \in Message
           /\ ends[Len(got) + 1] = ends[Len(got)] + FrameSize(sent[Len(got) + 1])
           /\ FrameAfter(ends[Len(got)], sent[Len(got) + 1])
<1>1. Len(sent) \in Nat /\ Len(got) \in Nat /\ Len(got) <= Len(sent)
      /\ Pending \in Nat /\ \A i \in 1 .. Len(sent) : sent[i] \in Message
  BY StreamTypes
<1>2. Pending <= ends[Len(sent)] /\ ends[Len(sent)] \in Int /\ ends[Len(got)] \in Int
  BY <1>1 DEF LaidOut
<1>3. Len(got) # Len(sent)
  BY <1>2, <1>1
<1>4. Len(got) < Len(sent) /\ Len(got) + 1 \in 1 .. Len(sent)
  BY <1>1, <1>3
<1> QED
  BY <1>1, <1>4 DEF LaidOut

\* The length at the front is that of a message that was sent, modulo the wrap.
LEMMA LengthRead ==
    ASSUME StreamInv, NEW ends \in [Nat -> Int], LaidOut(ends),
           reader = "length", Len(socket) >= Width
    PROVE  /\ Len(got) < Len(sent)
           /\ FromBytes(SubSeq(socket, 1, Width)) \in Nat
           /\ FromBytes(SubSeq(socket, 1, Width)) <= Size[sent[Len(got) + 1]]
<1> DEFINE m == sent[Len(got) + 1]
           bytes == SubSeq(socket, 1, Width)
           size == Size[m] % Base ^ Width
<1>1. socket \in Seq(Byte) /\ Len(socket) \in Nat /\ Len(unsent) \in Nat
      /\ Pending \in Nat
  BY StreamTypes
<1>2. Width \in Nat /\ Width > 0 /\ Base ^ Width \in Nat /\ Base ^ Width > 0
  BY FramingAssumption
<1>3. ends[Len(got)] = 0
  BY DEF LaidOut, FrontStart
<1>4. Pending > 0 /\ Pending >= Width
  BY <1>1, <1>2 DEF Pending
<1>5. Pending > ends[Len(got)]
  BY <1>3, <1>4
<1>6. m \in Message /\ ends[Len(got) + 1] = FrameSize(m) /\ FrameSize(m) >= Width
      /\ FrameSize(m) \in Nat /\ Size[m] \in Nat
  <2>1. m \in Message /\ ends[Len(got) + 1] = 0 + FrameSize(m)
    BY <1>3, <1>5, FrontFrame
  <2>2. Size[m] \in Nat /\ FrameSize(m) = Width + Size[m] /\ FrameSize(m) \in Nat
    BY <2>1, SizeType DEF FrameSize
  <2>3. 0 + FrameSize(m) = FrameSize(m)
    BY <2>2
  <2>4. Width + Size[m] >= Width
    BY <1>2, <2>2
  <2> QED
    BY <2>1, <2>2, <2>3, <2>4, Zenon
<1>7. ASSUME NEW p \in 1 .. Width PROVE bytes[p] = ToBytes(Size[m])[p]
  <2>1. p \in Nat /\ 0 < p /\ p <= Width
    BY <1>2, <1>7
  <2>2. 0 + p = p /\ p <= Pending /\ p <= Len(socket) /\ p <= FrameSize(m)
    <3>1. 0 + p = p /\ p <= Pending
      BY <1>1, <1>2, <1>4, <2>1
    <3>2. p <= Len(socket)
      BY <1>1, <1>2, <2>1
    <3>3. p <= FrameSize(m)
      BY <1>2, <1>6, <2>1
    <3> QED
      BY <3>1, <3>2, <3>3, Zenon
  <2>3. ByteAt(0 + p) = FrameByte(m, p)
    <3>1. \A q \in Nat :
             0 < q /\ q <= FrameSize(m) /\ 0 < 0 + q /\ 0 + q <= Pending
             => ByteAt(0 + q) = FrameByte(m, q)
      BY <1>3, <1>5, FrontFrame DEF FrameAfter
    <3> QED
      BY <2>1, <2>2, <3>1
  <2>4. bytes[p] = socket[p]
    BY <1>1, <1>2, <2>1, <2>2
  <2> QED
    BY <2>1, <2>2, <2>3, <2>4 DEF ByteAt, FrameByte
<1>8. size \in 0 .. Base ^ Width - 1 /\ size \in Nat
  <2>1. \A a, b \in Nat : b > 0 => a % b \in 0 .. b - 1 /\ a % b \in Nat
    OBVIOUS
  <2> QED
    BY <1>2, <1>6, <2>1
<1>9. bytes = ToBytes(size)
  <2>1. size % Base ^ Width = size
    <3>1. \A a, b \in Nat : b > 0 /\ a \in 0 .. b - 1 => a % b = a
      OBVIOUS
    <3> QED
      BY <1>2, <1>8, <3>1
  <2>2. ToBytes(Size[m]) = ToBytes(size)
    <3> HIDE DEF size
    <3>1. size = Size[m] % Base ^ Width
      BY DEF size
    <3> QED
      BY <2>1, <3>1 DEF ToBytes
  <2>3. bytes \in Seq(Byte) /\ Len(bytes) = Width
    BY <1>1, <1>2
  <2>4. bytes = [p \in 1 .. Width |-> bytes[p]]
    <3> HIDE DEF bytes
    <3> QED
      BY <2>3
  <2>5. ToBytes(Size[m]) = [p \in 1 .. Width |-> ToBytes(Size[m])[p]]
    BY DEF ToBytes
  <2> HIDE DEF bytes, size
  <2>6. bytes = ToBytes(Size[m])
    BY <1>7, <2>4, <2>5
  <2> QED
    BY <2>2, <2>6
<1>10. FromBytes(bytes) = size
  <2> HIDE DEF size, bytes
  <2> QED
    BY <1>8, <1>9, RoundTripAssumption
<1>11. size <= Size[m]
  <2>1. \A a, b \in Nat : b > 0 => a % b <= a
    <3>1. SUFFICES ASSUME NEW a \in Nat, NEW b \in Nat, b > 0
                   PROVE  a % b <= a
      OBVIOUS
    <3>2. CASE a < b
      BY <3>1, <3>2
    <3>3. CASE a >= b
      <4>1. a % b \in 0 .. b - 1
        BY <3>1
      <4> QED
        BY <3>1, <3>3, <4>1
    <3> QED
      BY <3>1, <3>2, <3>3
  <2> QED
    BY <1>2, <1>6, <2>1
<1> QED
  BY <1>5, <1>8, <1>10, <1>11, FrontFrame DEF bytes

\* The data at the front, if it is a message, is the one that was sent.
LEMMA DataRead ==
    ASSUME StreamInv, NEW ends \in [Nat -> Int], LaidOut(ends),
           reader = "data", Len(socket) >= expected,
           NEW m \in Deserialized(SubSeq(socket, 1, expected))
    PROVE  /\ Pending > ends[Len(got)]
           /\ m = sent[Len(got) + 1]
           /\ expected = Size[m]
<1> DEFINE data == SubSeq(socket, 1, expected)
           next == sent[Len(got) + 1]
<1>1. socket \in Seq(Byte) /\ Len(socket) \in Nat /\ Len(unsent) \in Nat
      /\ Pending \in Nat /\ expected \in Nat
  BY StreamTypes
<1>2. /\ m \in Message /\ Size[m] <= Len(data)
      /\ SubSeq(data, 1, Size[m]) = Serialize(m)
  BY DEF Deserialized
<1>3. Size[m] \in Nat /\ Size[m] > 0 /\ Width \in Nat /\ Width > 0
  BY <1>2, SizeType
<1>4. data \in Seq(Byte) /\ Len(data) = expected
      /\ \A p \in 1 .. expected : data[p] = socket[p]
  BY <1>1
<1> HIDE DEF data
<1>5. Size[m] <= expected
  BY <1>2, <1>4
<1>6. expected <= Size[next]
  BY DEF StreamInv, LengthFits
<1>7. ends[Len(got)] = -Width
  BY DEF LaidOut, FrontStart
<1>8. Pending > 0 /\ Len(socket) >= 1 /\ Pending > ends[Len(got)]
  BY <1>1, <1>3, <1>5, <1>7 DEF Pending
<1>9. next \in Message /\ Size[next] \in Nat /\ Size[next] > 0
      /\ ends[Len(got) + 1] = Size[next]
  <2>1. next \in Message /\ ends[Len(got) + 1] = -Width + FrameSize(next)
    BY <1>7, <1>8, FrontFrame
  <2>2. Size[next] \in Nat /\ Size[next] > 0 /\ FrameSize(next) = Width + Size[next]
    BY <2>1, SizeType DEF FrameSize
  <2> QED
    BY <1>3, <2>1, <2>2
<1>10. ByteAt(1) = FrameByte(next, Width + 1)
  <2>1. Width + 1 \in Nat /\ 0 < Width + 1 /\ Width + 1 <= FrameSize(next)
        /\ -Width + (Width + 1) = 1 /\ 1 <= Pending
    BY <1>1, <1>3, <1>8, <1>9 DEF FrameSize
  <2>2. \A q \in Nat :
           0 < q /\ q <= FrameSize(next) /\ 0 < -Width + q /\ -Width + q <= Pending
           => ByteAt(-Width + q) = FrameByte(next, q)
    BY <1>7, <1>8, FrontFrame DEF FrameAfter
  <2> QED
    BY <2>1, <2>2
<1>11. FrameByte(next, Width + 1) = DataByte(next, 1)
  <2>1. ~(Width + 1 <= Width) /\ (Width + 1) - Width = 1 /\ 1 \in 1 .. Size[next]
    BY <1>3, <1>9
  <2>2. FrameByte(next, Width + 1) = Serialize(next)[1]
    BY <2>1 DEF FrameByte
  <2> QED
    BY <2>1, <2>2 DEF Serialize
<1>12. ByteAt(1) = data[1] /\ data[1] = DataByte(m, 1)
  <2>1. 1 \in 1 .. expected /\ 1 \in 1 .. Size[m]
    BY <1>1, <1>3, <1>5
  <2>2. data[1] = socket[1] /\ ByteAt(1) = socket[1]
    BY <1>1, <1>4, <1>8, <2>1 DEF ByteAt
  <2>3. data[1] = DataByte(m, 1)
    <3>1. SubSeq(data, 1, Size[m])[1] = data[1]
      BY <1>1, <1>3, <1>4, <1>5
    <3>2. Serialize(m)[1] = DataByte(m, 1)
      BY <2>1 DEF Serialize
    <3> QED
      BY <1>2, <3>1, <3>2
  <2> QED
    BY <2>2, <2>3
<1>13. m = next
  BY <1>10, <1>11, <1>12 DEF DataByte
<1>14. expected = Size[m]
  BY <1>1, <1>3, <1>5, <1>6, <1>13
<1> QED
  BY <1>8, <1>13, <1>14

-----------------------------------------------------------------------------
(* The steps *)

\* Steps that change none of the bytes the reader will see first.
LEMMA LaidOutPrefix ==
    ASSUME StreamInv, NEW ends \in [Nat -> Int], LaidOut(ends), BytesKept,
           UNCHANGED <<sent, got, reader>>,
           open' => open /\ Pending' = Pending
    PROVE  LaidOut(ends)'
<1>1. Len(sent) \in Nat /\ Len(got) \in Nat /\ Pending \in Nat
  BY StreamTypes
<1>2. Pending <= ends[Len(sent)] /\ ends[Len(sent)] \in Int
  BY <1>1 DEF LaidOut
<1>3. Pending' <= ends[Len(sent)]
  BY <1>1, <1>2 DEF BytesKept
<1>4. open' => Pending' = ends[Len(sent)]
  BY DEF LaidOut
<1>5. ASSUME NEW start \in Int, NEW m, FrameAfter(start, m)
      PROVE  FrameAfter(start, m)'
  <2>1. SUFFICES ASSUME NEW p \in Nat, 0 < p, p <= FrameSize(m),
                        0 < start + p, start + p <= Pending'
                 PROVE  ByteAt(start + p)' = FrameByte(m, p)
    BY DEF FrameAfter, FrameByte, Serialize, ToBytes, FrameSize, DataByte, LengthByte
  <2>2. start + p \in Nat
    BY <2>1
  <2>3. start + p <= Pending
    BY <1>1, <2>1, <2>2 DEF BytesKept
  <2>4. ByteAt(start + p)' = ByteAt(start + p)
    BY <2>1, <2>2 DEF BytesKept
  <2> QED
    BY <1>5, <2>1, <2>3, <2>4 DEF FrameAfter
<1>6. \A i \in Nat : ends[i] \in Int
  OBVIOUS
<1> QED
  BY <1>3, <1>4, <1>5, <1>6 DEF LaidOut, FrontStart

\* read_exact moves the frames n bytes towards the front.
LEMMA LaidOutShift ==
    ASSUME StreamInv, NEW ends \in [Nat -> Int], LaidOut(ends),
           NEW n \in Nat, BytesTaken(n), UNCHANGED <<sent, open>>,
           NEW k \in Nat, Len(got') = k, Len(got) <= k,
           ends[k] - n = FrontStart'
    PROVE  \E shifted \in [Nat -> Int] : LaidOut(shifted)'
<1>1. Len(sent) \in Nat /\ Len(got) \in Nat /\ Pending \in Nat
      /\ \A i \in 1 .. Len(sent) : sent[i] \in Message
  BY StreamTypes
<1>2. PICK shifted \in [Nat -> Int] : \A i \in Nat : shifted[i] = ends[i] - n
  <2>1. [i \in Nat |-> ends[i] - n] \in [Nat -> Int]
    OBVIOUS
  <2> QED
    BY <2>1
<1>3. shifted[k] = FrontStart'
  BY <1>2
<1>4. ends[Len(sent)] \in Int /\ shifted[Len(sent)] = ends[Len(sent)] - n
      /\ Pending <= ends[Len(sent)] /\ (open => Pending = ends[Len(sent)])
  BY <1>1, <1>2 DEF LaidOut
<1>5. Pending' <= shifted[Len(sent)]
  BY <1>1, <1>4 DEF BytesTaken
<1>6. open' => Pending' = shifted[Len(sent)]
  BY <1>1, <1>4 DEF BytesTaken
<1>7. ASSUME NEW start \in Int, NEW m, FrameAfter(start, m)
      PROVE  FrameAfter(start - n, m)'
  <2>1. SUFFICES ASSUME NEW p \in Nat, 0 < p, p <= FrameSize(m),
                        0 < (start - n) + p, (start - n) + p <= Pending'
                 PROVE  ByteAt((start - n) + p)' = FrameByte(m, p)
    BY DEF FrameAfter, FrameByte, Serialize, ToBytes, FrameSize, DataByte, LengthByte
  <2>2. (start - n) + p \in Nat /\ ((start - n) + p) + n = start + p /\ 0 < start + p
    BY <2>1
  <2>3. start + p <= Pending
    BY <1>1, <2>1, <2>2 DEF BytesTaken
  <2>4. ByteAt((start - n) + p)' = ByteAt(start + p)
    BY <2>1, <2>2 DEF BytesTaken
  <2> QED
    <3>1. ByteAt(start + p) = FrameByte(m, p)
      BY <1>7, <2>1, <2>2, <2>3 DEF FrameAfter
    <3> QED
      BY <2>4, <3>1, Zenon
<1>8. ASSUME NEW i \in Nat, k <= i, i < Len(sent)
      PROVE  /\ shifted[i + 1] = shifted[i] + FrameSize(sent[i + 1])
             /\ shifted[i + 1] <= shifted[Len(sent)]
             /\ FrameAfter(shifted[i], sent[i + 1])'
  <2>1. Len(got) <= i /\ i + 1 \in 1 .. Len(sent)
    <3>1. Len(got) <= i
      BY <1>1, <1>8
    <3>2. i + 1 \in 1 .. Len(sent)
      BY <1>1, <1>8
    <3> QED
      BY <3>1, <3>2, Zenon
  <2>2. FrameSize(sent[i + 1]) \in Nat
    BY <1>1, <2>1, SizeType
  <2>3. /\ ends[i + 1] = ends[i] + FrameSize(sent[i + 1])
        /\ ends[i + 1] <= ends[Len(sent)]
        /\ FrameAfter(ends[i], sent[i + 1])
    BY <1>8, <2>1 DEF LaidOut
  <2>4. shifted[i] = ends[i] - n /\ shifted[i + 1] = ends[i + 1] - n
        /\ ends[i] \in Int /\ ends[i + 1] \in Int
    <3>1. i + 1 \in Nat
      OBVIOUS
    <3> QED
      BY <1>2, <3>1
  <2>5. shifted[i + 1] = shifted[i] + FrameSize(sent[i + 1])
    BY <2>2, <2>3, <2>4
  <2>6. shifted[i + 1] <= shifted[Len(sent)]
    <3>1. \A a, b \in Int : a <= b => a - n <= b - n
      OBVIOUS
    <3>2. ends[i + 1] - n <= ends[Len(sent)] - n
      BY <1>4, <2>3, <2>4, <3>1
    <3> QED
      BY <1>4, <2>4, <3>2
  <2>7. FrameAfter(ends[i] - n, sent[i + 1])'
    BY <1>7, <2>3, <2>4
  <2>8. FrameAfter(shifted[i], sent[i + 1])'
    BY <2>4, <2>7
  <2> QED
    BY <2>5, <2>6, <2>8
<1>9. LaidOut(shifted)'
  BY <1>3, <1>5, <1>6, <1>8 DEF LaidOut
<1> QED
  BY <1>9

\* A frame added at the end leaves the others where they are.
LEMMA LaidOutAppend ==
    ASSUME StreamInv, NEW ends \in [Nat -> Int], LaidOut(ends), open,
           NEW m \in Message, BytesAdded(m), sent' = Append(sent, m),
           UNCHANGED <<got, reader>>
    PROVE  \E grown \in [Nat -> Int] : LaidOut(grown)'
<1> DEFINE n == Len(sent)
           size == FrameSize(m)
<1>1. sent \in Seq(Message) /\ n \in Nat /\ Len(got) \in Nat /\ Len(got) <= n
      /\ Pending \in Nat /\ \A i \in 1 .. n : sent[i] \in Message
  BY StreamTypes
<1>2. Len(sent') = n + 1 /\ sent'[n + 1] = m /\ \A i \in 1 .. n : sent'[i] = sent[i]
  BY <1>1
<1>3. ends[n] = Pending
  BY DEF LaidOut
<1>4. size \in Nat
  BY SizeType
<1>5. Pending' = Pending + size
  BY DEF BytesAdded
<1> HIDE DEF n, size
<1> DEFINE last == n + 1
           end == Pending + size
<1>6. last \in Nat /\ end \in Int
  BY <1>1, <1>4
<1> HIDE DEF last, end
<1>7. PICK grown \in [Nat -> Int] :
          grown[last] = end /\ \A i \in Nat : i # last => grown[i] = ends[i]
  <2> DEFINE g == [ends EXCEPT ![last] = end]
  <2>1. g \in [Nat -> Int] /\ g[last] = end
    BY <1>6
  <2>2. \A i \in Nat : i # last => g[i] = ends[i]
    BY <1>6
  <2> HIDE DEF g
  <2> QED
    BY <2>1, <2>2
<1>8. grown[n + 1] = Pending + size /\ \A i \in Nat : i # n + 1 => grown[i] = ends[i]
  BY <1>7, Zenon DEF last, end
<1>9. grown[Len(got)] = FrontStart
  <2>1. Len(got) # n + 1
    BY <1>1
  <2> QED
    BY <1>1, <1>8, <2>1 DEF LaidOut
<1>10. ASSUME NEW start \in Int, NEW k \in Message, FrameAfter(start, k),
             start + FrameSize(k) <= Pending
      PROVE  FrameAfter(start, k)'
  <2>1. SUFFICES ASSUME NEW p \in Nat, 0 < p, p <= FrameSize(k),
                        0 < start + p, start + p <= Pending'
                 PROVE  ByteAt(start + p)' = FrameByte(k, p)
    BY DEF FrameAfter, FrameByte, Serialize, ToBytes, FrameSize, DataByte, LengthByte
  <2>2. FrameSize(k) \in Nat
    BY SizeType
  <2>3. start + p \in Nat /\ start + p <= Pending
    <3>1. start + p \in Nat
      BY <2>1
    <3>2. start + p <= start + FrameSize(k)
      BY <2>1, <2>2
    <3> QED
      <4>1. \A a, b, c \in Int : a <= b /\ b <= c => a <= c
        OBVIOUS
      <4>2. start + p \in Int /\ start + FrameSize(k) \in Int /\ Pending \in Int
        BY <1>1, <2>2, <3>1
      <4>3. start + p <= Pending
        BY <1>10, <3>2, <4>1, <4>2
      <4> QED
        BY <3>1, <4>3
  <2>4. ByteAt(start + p)' = ByteAt(start + p)
    BY <2>1, <2>3 DEF BytesAdded
  <2> QED
    BY <1>10, <2>1, <2>3, <2>4 DEF FrameAfter
<1>11. ASSUME NEW start \in Int, start = Pending
      PROVE  FrameAfter(start, m)'
  <2>1. SUFFICES ASSUME NEW p \in Nat, 0 < p, p <= size,
                        0 < start + p, start + p <= Pending'
                 PROVE  ByteAt(start + p)' = FrameByte(m, p)
    BY DEF FrameAfter, FrameByte, Serialize, ToBytes, FrameSize, DataByte, LengthByte, size
  <2>2. start + p \in Nat /\ Pending < start + p /\ start + p <= Pending + size
        /\ (start + p) - Pending = p
    BY <1>1, <1>4, <1>11, <2>1
  <2>3. ByteAt(start + p)' = FrameByte(m, (start + p) - Pending)
    BY <2>2 DEF BytesAdded, size
  <2> QED
    BY <2>2, <2>3
<1>12. ASSUME NEW i \in Nat, Len(got) <= i, i < n + 1
       PROVE  /\ grown[i + 1] = grown[i] + FrameSize(sent'[i + 1])
              /\ grown[i + 1] <= grown[n + 1]
              /\ FrameAfter(grown[i], sent[i + 1])'
  <2>1. CASE i = n
    <3>1. grown[i] = Pending
      <4>1. i # n + 1
        BY <1>1, <2>1
      <4> QED
        BY <1>3, <1>8, <2>1, <4>1
    <3>2. grown[i + 1] = Pending + size /\ sent'[i + 1] = m
      BY <1>2, <1>8, <2>1
    <3>3. FrameAfter(grown[i], m)'
      BY <1>11, <3>1
    <3>5. FrameAfter(grown[i], sent[i + 1])'
      BY <3>2, <3>3
    <3>4. grown[i + 1] <= grown[n + 1]
      BY <1>1, <1>4, <1>8, <3>2
    <3> QED
      BY <3>1, <3>2, <3>4, <3>5 DEF size
  <2>2. CASE i # n
    <3>1. i < n /\ i # n + 1 /\ i + 1 # n + 1 /\ i + 1 \in Nat
      BY <1>1, <1>12, <2>2
    <3>2. i + 1 \in 1 .. n
      BY <1>1, <3>1
    <3>3. grown[i] = ends[i] /\ grown[i + 1] = ends[i + 1]
      BY <1>8, <3>1
    <3>4. ends[i] \in Int /\ ends[i + 1] \in Int /\ sent'[i + 1] = sent[i + 1]
          /\ sent[i + 1] \in Message
      BY <1>1, <1>2, <3>1, <3>2
    <3>5. /\ ends[i + 1] = ends[i] + FrameSize(sent[i + 1])
          /\ ends[i + 1] <= Pending
          /\ FrameAfter(ends[i], sent[i + 1])
      BY <1>3, <1>12, <3>1 DEF LaidOut, n
    <3>6. grown[i + 1] <= grown[n + 1]
      <4>1. \A a, b \in Int : a <= b => a <= b + size
        BY <1>4
      <4>2. ends[i + 1] <= Pending + size
        <5>1. Pending \in Int
          BY <1>1
        <5> QED
          BY <3>4, <3>5, <4>1, <5>1, Zenon
      <4> QED
        BY <1>8, <3>3, <4>2, Zenon
    <3>7. FrameAfter(ends[i], sent[i + 1])'
      BY <1>10, <3>4, <3>5
    <3>8. FrameAfter(grown[i], sent[i + 1])'
      <4>1. ASSUME NEW k, FrameAfter(ends[i], k)', sent'[i + 1] = k
            PROVE  FrameAfter(grown[i], sent[i + 1])'
        BY <3>3, <4>1
      <4> QED
        BY <3>4, <3>7, <4>1
    <3> QED
      BY <3>3, <3>4, <3>5, <3>6, <3>8
  <2> QED
    BY <2>1, <2>2
<1>13. Pending' = grown[n + 1]
  BY <1>5, <1>8
<1>14. Pending' <= grown[n + 1]
  BY <1>1, <1>4, <1>5, <1>13
<1>15. LaidOut(grown)'
  <2>1. grown[Len(got')] = FrontStart'
    BY <1>9 DEF FrontStart
  <2>2. ASSUME NEW i \in Nat, Len(got') <= i, i < Len(sent')
        PROVE  /\ grown[i + 1] = grown[i] + FrameSize(sent'[i + 1])
               /\ grown[i + 1] <= grown[Len(sent')]
               /\ FrameAfter(grown[i], sent[i + 1])'
    BY <1>2, <1>12, <2>2
  <2>3. Pending' <= grown[Len(sent')] /\ Pending' = grown[Len(sent')]
    BY <1>2, <1>13, <1>14
  <2> QED
    BY <2>1, <2>2, <2>3 DEF LaidOut, FrameSize
<1> QED
  BY <1>15

LEMMA SendStep == StreamInv /\ (\E m \in Message : Send(m)) => StreamInv'
<1> SUFFICES ASSUME StreamInv, NEW m \in Message, Send(m)
             PROVE  StreamInv'
  OBVIOUS
<1>1. sent \in Seq(Message) /\ Len(got) \in Nat /\ Len(got) <= Len(sent)
  BY StreamTypes
<1>2. UNCHANGED <<open, socket, reader, expected, got>>
      /\ open /\ sent' = Append(sent, m)
  BY DEF Send
<1>3. sent' \in Seq(Message) /\ Len(sent') = Len(sent) + 1
  BY <1>1, <1>2
<1>4. TypeOK' /\ Len(got') <= Len(sent')
  BY <1>1, <1>2, <1>3 DEF StreamInv, TypeOK
<1>5. socket' \in Seq(Byte) /\ unsent' \in Seq(Byte) /\ BytesAdded(m)
  BY SendBytes
<1>6. ASSUME reader' # "ended"
      PROVE  \E ends \in [Nat -> Int] : LaidOut(ends)'
  <2>1. PICK ends \in [Nat -> Int] : LaidOut(ends)
    BY <1>2, <1>6 DEF StreamInv
  <2> QED
    BY <1>2, <1>5, <2>1, LaidOutAppend
<1>7. LengthFits'
  BY <1>1, <1>2, <1>3 DEF StreamInv, LengthFits
<1> QED
  BY <1>4, <1>5, <1>6, <1>7 DEF StreamInv

LEMMA WriteStep == StreamInv /\ Write => StreamInv'
<1> SUFFICES ASSUME StreamInv, Write
             PROVE  StreamInv'
  OBVIOUS
<1>1. UNCHANGED <<sent, open, reader, expected, got>>
  BY DEF Write
<1>2. socket' \in Seq(Byte) /\ unsent' \in Seq(Byte)
      /\ Pending' = Pending /\ BytesKept
  BY WriteBytes
<1>3. TypeOK' /\ Len(got') <= Len(sent') /\ LengthFits'
  BY <1>1 DEF StreamInv, TypeOK, LengthFits
<1>4. ASSUME reader' # "ended"
      PROVE  \E ends \in [Nat -> Int] : LaidOut(ends)'
  <2>1. PICK ends \in [Nat -> Int] : LaidOut(ends)
    BY <1>1, <1>4 DEF StreamInv
  <2>2. LaidOut(ends)'
    BY <1>1, <1>2, <2>1, LaidOutPrefix
  <2> QED
    BY <2>2
<1> QED
  BY <1>2, <1>3, <1>4 DEF StreamInv

LEMMA CloseStep == StreamInv /\ Close => StreamInv'
<1> SUFFICES ASSUME StreamInv, Close
             PROVE  StreamInv'
  OBVIOUS
<1>1. UNCHANGED <<sent, socket, reader, expected, got>> /\ open' = FALSE
  BY DEF Close
<1>2. socket' \in Seq(Byte) /\ unsent' \in Seq(Byte) /\ BytesKept
  BY CloseBytes
<1>3. TypeOK' /\ Len(got') <= Len(sent') /\ LengthFits'
  BY <1>1 DEF StreamInv, TypeOK, LengthFits
<1>4. ASSUME reader' # "ended"
      PROVE  \E ends \in [Nat -> Int] : LaidOut(ends)'
  <2>1. PICK ends \in [Nat -> Int] : LaidOut(ends)
    BY <1>1, <1>4 DEF StreamInv
  <2>2. LaidOut(ends)'
    BY <1>1, <1>2, <2>1, LaidOutPrefix
  <2> QED
    BY <2>2
<1> QED
  BY <1>2, <1>3, <1>4 DEF StreamInv

LEMMA ReadLengthStep == StreamInv /\ ReadLength => StreamInv'
<1> SUFFICES ASSUME StreamInv, ReadLength
             PROVE  StreamInv'
  OBVIOUS
<1> DEFINE len == FromBytes(SubSeq(socket, 1, Width))
<1>1. /\ reader = "length" /\ Len(socket) >= Width
      /\ socket' = SubSeq(socket, Width + 1, Len(socket))
      /\ UNCHANGED <<sent, unsent, open, got>>
      /\ \/ reader' = "ended" /\ UNCHANGED expected
         \/ ~TooLarge(len) /\ reader' = "data" /\ expected' = len
  BY DEF ReadLength, Take, Needed, AfterError
<1>2. Width \in Nat /\ MaxSize \in Nat
  BY FramingAssumption
<1>3. PICK ends \in [Nat -> Int] : LaidOut(ends)
  BY <1>1 DEF StreamInv
<1>4. len \in Nat /\ Len(got) < Len(sent) /\ len <= Size[sent[Len(got) + 1]]
  BY <1>1, <1>3, LengthRead
<1>5. ~TooLarge(len) => len \in 0 .. MaxSize
  BY <1>2, <1>4 DEF TooLarge
<1> HIDE DEF len
<1>6. TypeOK' /\ Len(got') <= Len(sent') /\ LengthFits'
  BY <1>1, <1>4, <1>5 DEF StreamInv, TypeOK, LengthFits
<1>7. socket' \in Seq(Byte) /\ unsent' \in Seq(Byte) /\ BytesTaken(Width)
  BY <1>1, <1>2, TakeBytes
<1>8. ASSUME reader' # "ended"
      PROVE  \E shifted \in [Nat -> Int] : LaidOut(shifted)'
  <2>1. Len(got) \in Nat /\ Len(got') = Len(got) /\ Len(got) <= Len(got)
    BY <1>1, StreamTypes
  <2>2. ends[Len(got)] = 0 /\ FrontStart' = -Width
    BY <1>1, <1>3, <1>8 DEF LaidOut, FrontStart
  <2>3. ends[Len(got)] - Width = FrontStart'
    BY <1>2, <2>2
  <2> QED
    BY <1>1, <1>2, <1>3, <1>7, <2>1, <2>3, LaidOutShift
<1> QED
  BY <1>6, <1>7, <1>8 DEF StreamInv

\* What ReadData returns is the next message sent.
LEMMA NextReceived ==
    ASSUME StreamInv, ReadData
    PROVE  \/ reader' = "ended" /\ UNCHANGED got
           \/ /\ reader' = "length" /\ Len(got) < Len(sent)
              /\ sent[Len(got) + 1] \in Message
              /\ expected = Size[sent[Len(got) + 1]]
              /\ got' = Append(got, sent[Len(got) + 1])
<1>1. reader = "data" /\ Len(socket) >= expected
  BY DEF ReadData, Take, Needed
<1>2. PICK ends \in [Nat -> Int] : LaidOut(ends)
  BY <1>1 DEF StreamInv
<1>3. ASSUME NEW m \in Deserialized(SubSeq(socket, 1, expected))
      PROVE  /\ Len(got) < Len(sent) /\ m = sent[Len(got) + 1]
             /\ m \in Message /\ expected = Size[m]
  <2>1. Pending > ends[Len(got)] /\ m = sent[Len(got) + 1] /\ expected = Size[m]
    BY <1>1, <1>2, <1>3, DataRead
  <2> QED
    BY <1>2, <2>1, FrontFrame
<1> QED
  BY <1>3 DEF ReadData, AfterError

LEMMA ReadDataStep == StreamInv /\ ReadData => StreamInv'
<1> SUFFICES ASSUME StreamInv, ReadData
             PROVE  StreamInv'
  OBVIOUS
<1>1. /\ reader = "data" /\ Len(socket) >= expected
      /\ socket' = SubSeq(socket, expected + 1, Len(socket))
      /\ UNCHANGED <<sent, unsent, open, expected>>
  BY DEF ReadData, Take, Needed
<1>2. sent \in Seq(Message) /\ got \in Seq(Message) /\ expected \in Nat
      /\ Len(got) \in Nat /\ Len(sent) \in Nat /\ Len(got) <= Len(sent)
  BY StreamTypes
<1>3. socket' \in Seq(Byte) /\ unsent' \in Seq(Byte) /\ BytesTaken(expected)
  BY <1>1, <1>2, TakeBytes
<1>4. CASE reader' = "ended" /\ UNCHANGED got
  BY <1>1, <1>3, <1>4 DEF StreamInv, TypeOK, LengthFits
<1>5. CASE /\ reader' = "length" /\ Len(got) < Len(sent)
           /\ sent[Len(got) + 1] \in Message
           /\ expected = Size[sent[Len(got) + 1]]
           /\ got' = Append(got, sent[Len(got) + 1])
  <2> DEFINE m == sent[Len(got) + 1]
  <2>1. PICK ends \in [Nat -> Int] : LaidOut(ends)
    BY <1>1 DEF StreamInv
  <2>2. m \in Message /\ expected = Size[m] /\ got' = Append(got, m)
    BY <1>5
  <2>3. got' \in Seq(Message) /\ Len(got') = Len(got) + 1
    BY <1>2, <2>2
  <2>4. TypeOK' /\ Len(got') <= Len(sent')
    BY <1>1, <1>2, <1>5, <2>3 DEF StreamInv, TypeOK
  <2>5. ends[Len(got)] = -Width /\ FrontStart' = 0
        /\ ends[Len(got) + 1] = ends[Len(got)] + FrameSize(m)
    <3>1. ends[Len(got)] = -Width
      BY <1>1, <2>1 DEF LaidOut, FrontStart
    <3>2. FrontStart' = 0
      BY <1>5 DEF FrontStart
    <3>3. ends[Len(got) + 1] = ends[Len(got)] + FrameSize(m)
      BY <1>2, <1>5, <2>1 DEF LaidOut
    <3> QED
      BY <3>1, <3>2, <3>3
  <2>6. ends[Len(got) + 1] - expected = FrontStart'
    <3>1. Width \in Nat /\ Size[m] \in Nat /\ FrameSize(m) = Width + Size[m]
      BY <2>2, SizeType DEF FrameSize
    <3>2. (-Width + (Width + Size[m])) - Size[m] = 0
      BY <3>1
    <3> QED
      BY <2>2, <2>5, <3>1, <3>2, Zenon
  <2>7. Len(got) + 1 \in Nat /\ Len(got) <= Len(got) + 1
    BY <1>2
  <2>8. \E shifted \in [Nat -> Int] : LaidOut(shifted)'
    BY <1>1, <1>2, <1>3, <2>1, <2>3, <2>6, <2>7, LaidOutShift
  <2> QED
    BY <1>3, <1>5, <2>4, <2>8 DEF StreamInv, LengthFits
<1> QED
  BY <1>4, <1>5, NextReceived

LEMMA ReadEndStep == StreamInv /\ ReadEnd => StreamInv'
<1> SUFFICES ASSUME StreamInv, ReadEnd
             PROVE  StreamInv'
  OBVIOUS
<1>1. reader' = "ended" /\ UNCHANGED <<sent, unsent, open, socket, expected, got>>
  BY DEF ReadEnd
<1> QED
  BY <1>1 DEF StreamInv, TypeOK, LengthFits

-----------------------------------------------------------------------------
(* The theorems *)

LEMMA StreamInit == Init => StreamInv
<1> SUFFICES ASSUME Init
             PROVE  StreamInv
  OBVIOUS
<1>1. /\ sent = << >> /\ unsent = << >> /\ open = TRUE /\ socket = << >>
      /\ reader = "length" /\ expected = 0 /\ got = << >>
  BY DEF Init
<1>2. TypeOK
  BY <1>1, FramingAssumption DEF TypeOK
<1>3. Len(sent) = 0 /\ Len(got) = 0 /\ Len(socket) = 0 /\ Len(unsent) = 0
      /\ socket \in Seq(Byte) /\ unsent \in Seq(Byte)
  BY <1>1
<1>4. Pending = 0 /\ FrontStart = 0
  BY <1>1, <1>3 DEF Pending, FrontStart
<1>5. PICK ends \in [Nat -> Int] : ends[0] = 0
  <2>1. [i \in Nat |-> 0] \in [Nat -> Int] /\ [i \in Nat |-> 0][0] = 0
    OBVIOUS
  <2> QED
    BY <2>1
<1>6. LaidOut(ends)
  BY <1>3, <1>4, <1>5 DEF LaidOut
<1> QED
  BY <1>1, <1>2, <1>3, <1>6 DEF StreamInv, LengthFits

LEMMA StreamStep == StreamInv /\ [Next]_vars => StreamInv'
<1>1. StreamInv /\ UNCHANGED vars => StreamInv'
  <2>1. SUFFICES ASSUME StreamInv, UNCHANGED vars
                 PROVE  StreamInv'
    OBVIOUS
  <2>2. UNCHANGED <<sent, unsent, open, socket, reader, expected, got>>
    BY <2>1 DEF vars
  <2>3. BytesKept /\ Pending' = Pending
    <3>1. Pending \in Nat
      BY <2>1, StreamTypes
    <3>2. Pending' = Pending /\ \A p \in Nat : ByteAt(p)' = ByteAt(p)
      BY <2>2 DEF Pending, ByteAt
    <3> QED
      BY <3>1, <3>2 DEF BytesKept
  <2>4. ASSUME reader' # "ended"
        PROVE  \E ends \in [Nat -> Int] : LaidOut(ends)'
    <3>1. PICK ends \in [Nat -> Int] : LaidOut(ends)
      BY <2>1, <2>2, <2>4 DEF StreamInv
    <3>2. LaidOut(ends)'
      BY <2>1, <2>2, <2>3, <3>1, LaidOutPrefix
    <3> QED
      BY <3>2
  <2> QED
    BY <2>1, <2>2, <2>4 DEF StreamInv, TypeOK, LengthFits
<1> QED
  BY <1>1, SendStep, WriteStep, CloseStep, ReadLengthStep, ReadDataStep, ReadEndStep
     DEF Next

\* Every variable keeps its type: a length that was read and accepted is one the
\* buffer is allocated for, at most MAX_MESSAGE_SIZE.
THEOREM FramingTyped == Spec => []TypeOK
<1>1. StreamInv => TypeOK
  BY DEF StreamInv
<1> QED
  BY <1>1, StreamInit, StreamStep, PTL DEF Spec

\* The refinement: whatever the sizes, however the socket splits the bytes and
\* wherever the sender stops, one direction of a connection is an ordered channel.
THEOREM FramedChannel == Spec => FramesAreMessages
<1>1. Init => Wire!Init
  BY DEF Init, Wire!Init
<1>2. StreamInv /\ [Next]_vars
      => [Wire!Next]_<<[l \in {"wire"} |-> sent], [l \in {"wire"} |-> got]>>
  <2> SUFFICES ASSUME StreamInv, [Next]_vars
               PROVE  \/ Wire!Next
                      \/ UNCHANGED <<[l \in {"wire"} |-> sent], [l \in {"wire"} |-> got]>>
    OBVIOUS
  <2>1. ASSUME NEW m \in Message, Send(m) PROVE Wire!Next
    <3>1. sent' = Append(sent, m) /\ got' = got
      BY <2>1 DEF Send
    <3>2. Wire!Send(m, {"wire"})
      BY <3>1 DEF Wire!Send
    <3> QED
      BY <3>2 DEF Wire!Next
  <2>2. CASE ReadData /\ ~UNCHANGED got
    <3>1. /\ Len(got) < Len(sent) /\ sent' = sent
          /\ got' = Append(got, sent[Len(got) + 1])
      BY <2>2, NextReceived DEF ReadData
    <3>2. Wire!Deliver("wire")
      BY <3>1 DEF Wire!Deliver
    <3> QED
      BY <3>2 DEF Wire!Next
  <2>3. Write \/ Close \/ ReadLength \/ ReadEnd \/ (ReadData /\ UNCHANGED got)
        \/ UNCHANGED vars
        => UNCHANGED <<sent, got>>
    BY DEF Write, Close, ReadLength, ReadEnd, ReadData, vars
  <2> QED
    BY <2>1, <2>2, <2>3 DEF Next
<1> QED
  BY <1>1, <1>2, StreamInit, StreamStep, PTL DEF Spec, FramesAreMessages, Wire!Spec

=============================================================================
