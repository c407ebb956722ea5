--------------------------- MODULE ChannelProofs ---------------------------
(***************************************************************************)
(* Whatever the frames, the senders and the ways in which sends, receives  *)
(* and timeouts cut the stream, recv_frame returns what was sent, whole    *)
(* and in order, and calls nothing malformed that is not: the channel      *)
(* implements the queue of FrameQueue.                                     *)
(*                                                                         *)
(* The inductive invariant says of the bytes that are in the buffer or     *)
(* under way that the first begins the frame that is due, that a frame     *)
(* which is not cut short is there byte by byte, and that the next begins  *)
(* where it ends.                                                          *)
(***************************************************************************)
EXTENDS Channel, TLAPS

\* The bytes of a frame on the wire
Size(f) == kHeaderSize + PayloadLength[f]

\* A byte is a frame and a place in it.
Byte == Frame \X Nat

\* What was sent and not yet returned: the buffer, then what is under way
Bytes == recv_buffer \o stream

ChannelTyped ==
  /\ todo \in SUBSET Frame /\ cut \in SUBSET Frame
  /\ sender \in [Sender -> [frame: Frame \union {None}, sent: Nat]]
  /\ send_mu \in Sender \union {None}
  /\ stream \in Seq(Byte) /\ recv_buffer \in Seq(Byte)
  /\ open \in BOOLEAN /\ receiver \in {"idle", "receiving", "malformed", "closed"}
  /\ received \in Seq(Frame) /\ begun \in Seq(Frame)

\* A frame waits, is held by one sender or has been sent, and begins once.
Owned ==
  /\ \A s \in Sender: sender[s].frame \notin todo \union cut
  /\ \A s, t \in Sender: sender[s].frame = sender[t].frame => s = t \/ sender[s].frame = None
  /\ \A i \in 1 .. Len(begun): begun[i] \notin todo
  /\ \A i, j \in 1 .. Len(begun): begun[i] = begun[j] => i = j
  /\ cut \intersect todo = {}

\* Only the holder of send_mu has sent a part of its frame, the last begun.
OneAtATime ==
  /\ send_mu # None => sender[send_mu].frame # None
  /\ \A s \in Sender: 
       IF sender[s].sent = 0 THEN \A i \in 1 .. Len(begun): begun[i] # sender[s].frame
       ELSE /\ send_mu = s /\ sender[s].sent <= Size(sender[s].frame)
            /\ Len(begun) > 0 /\ begun[Len(begun)] = sender[s].frame

\* What recv_frame returned was sent whole, in order.
Returned ==
  /\ Len(received) <= Len(begun)
  /\ \A i \in 1 .. Len(received):
       /\ received[i] = begun[i] /\ received[i] \notin cut
       /\ \A s \in Sender: sender[s].frame = received[i] => sender[s].sent = Size(received[i])

\* The bytes are of frames begun, and of the frame being sent up to what is sent;
\* the last byte of a frame that was cut short is not among them.
Sent ==
  \A q \in 1 .. Len(Bytes):
    /\ \E i \in 1 .. Len(begun): begun[i] = Bytes[q][1]
    /\ Bytes[q][2] \in 1 .. Size(Bytes[q][1])
    /\ \A s \in Sender: sender[s].frame = Bytes[q][1] => Bytes[q][2] <= sender[s].sent
    /\ Bytes[q][1] \in cut => Bytes[q][2] # Size(Bytes[q][1])

\* The first byte begins the frame that is due.
Due ==
  IF Len(Bytes) = 0 THEN Len(received) = Len(begun)
  ELSE Len(received) < Len(begun) /\ Bytes[1] = <<begun[Len(received) + 1], 1>>

\* The last byte is the last sent.
Ending ==
  Len(Bytes) > 0 =>
    LET b == Bytes[Len(Bytes)]
    IN  /\ b[1] = begun[Len(begun)]
        /\ IF \E s \in Sender: sender[s].sent > 0 THEN \A s \in Sender: sender[s].sent > 0 => b[2] = sender[s].sent
           ELSE b[1] \in cut \/ b[2] = Size(b[1])

\* A frame that was not cut short is there byte by byte from where it begins,
Unbroken ==
  \A p, q \in 1 .. Len(Bytes):
    /\ Bytes[p][2] = 1 /\ Bytes[p][1] \notin cut
    /\ p <= q /\ q < p + Size(Bytes[p][1])
    => Bytes[q] = <<Bytes[p][1], q - p + 1>>

\* and the next begins where it ends.
Following ==
  \A p, q \in 1 .. Len(Bytes), i \in 1 .. Len(begun):
    /\ Bytes[p][2] = 1 /\ Bytes[p][1] \notin cut /\ q = p + Size(Bytes[p][1])
    /\ begun[i] = Bytes[p][1]
    => i < Len(begun) /\ Bytes[q] = <<begun[i + 1], 1>>

Flow == Sent /\ Due /\ Ending /\ Unbroken /\ Following

\* recv_frame has failed for good.
Ended == receiver \in {"malformed", "closed"}

\* Until recv_frame fails, the bytes not yet returned are what Flow says.
ChannelInv ==
  /\ ChannelTyped /\ Owned /\ OneAtATime /\ Returned /\ MalformedHasCause
  /\ IF Ended THEN ~open ELSE Flow

-----------------------------------------------------------------------------

\* A frame has a header, so it has a byte.
LEMMA Sizes ==
  /\ kHeaderSize \in Nat /\ kHeaderSize >= 1
  /\ \A f \in Frame: Size(f) \in Nat /\ PayloadLength[f] \in Nat /\ Size(f) >= kHeaderSize
  BY ChannelAssumption DEF Size

\* make_frame: a frame is its bytes in order.
LEMMA WireFacts ==
  ASSUME NEW f \in Frame
  PROVE  /\ Wire(f) \in Seq(Byte) /\ Len(Wire(f)) = Size(f)
         /\ \A i \in 1 .. Size(f): Wire(f)[i] = <<f, i>>
<1>1. Size(f) \in Nat /\ Wire(f) = [i \in 1 .. Size(f) |-> <<f, i>>]
  BY Sizes DEF Wire, Size
<1>2. \A i \in 1 .. Size(f): <<f, i>> \in Byte
  BY <1>1 DEF Byte
<1> QED
  BY <1>1, <1>2

\* A byte is its frame and its place.
LEMMA ByteFacts ==
  ASSUME NEW b \in Byte
  PROVE  b[1] \in Frame /\ b[2] \in Nat /\ b = <<b[1], b[2]>>
  BY DEF Byte

\* Every byte of a sequence of bytes is of a frame that has bytes.
LEMMA ByteAt ==
  ASSUME NEW b \in Seq(Byte), NEW q \in 1 .. Len(b)
  PROVE  /\ b[q][1] \in Frame /\ b[q][2] \in Nat /\ b[q] = <<b[q][1], b[q][2]>>
         /\ Size(b[q][1]) \in Nat /\ Size(b[q][1]) >= 1
<1>1. b[q] \in Byte
  OBVIOUS
<1>2. b[q][1] \in Frame /\ b[q][2] \in Nat /\ b[q] = <<b[q][1], b[q][2]>>
  BY <1>1, ByteFacts
<1> QED
  BY <1>2, Sizes

\* Sequences with the same elements are the same.
LEMMA SameSequence ==
  ASSUME NEW S, NEW b \in Seq(S), NEW c \in Seq(S), Len(b) = Len(c),
         \A q \in 1 .. Len(b): b[q] = c[q]
  PROVE  b = c
  OBVIOUS

\* The bytes of two parts in a row
LEMMA Joined ==
  ASSUME NEW S, NEW b \in Seq(S), NEW c \in Seq(S)
  PROVE  /\ b \o c \in Seq(S) /\ Len(b \o c) = Len(b) + Len(c)
         /\ \A q \in 1 .. Len(b): (b \o c)[q] = b[q]
         /\ \A q \in 1 .. Len(c): (b \o c)[Len(b) + q] = c[q]
  OBVIOUS

\* The n bytes after the first k
LEMMA Part ==
  ASSUME NEW S, NEW c \in Seq(S), NEW k \in Nat, NEW n \in 1 .. Len(c) - k
  PROVE  /\ SubSeq(c, k + 1, k + n) \in Seq(S) /\ Len(SubSeq(c, k + 1, k + n)) = n
         /\ \A i \in 1 .. n: SubSeq(c, k + 1, k + n)[i] = c[k + i]
  OBVIOUS

\* recv: taking bytes off the stream and adding them to the buffer moves none.
LEMMA Moved ==
  ASSUME NEW S, NEW b \in Seq(S), NEW c \in Seq(S), NEW n \in 1 .. Len(c)
  PROVE  /\ SubSeq(c, 1, n) \in Seq(S) /\ SubSeq(c, n + 1, Len(c)) \in Seq(S)
         /\ (b \o SubSeq(c, 1, n)) \o SubSeq(c, n + 1, Len(c)) = b \o c
<1> DEFINE x == SubSeq(c, 1, n)
           y == SubSeq(c, n + 1, Len(c))
<1>1. x \in Seq(S) /\ y \in Seq(S)
  OBVIOUS
<1>2. x \o y = c
  OBVIOUS
<1> HIDE DEF x, y
<1>3. (b \o x) \o y = b \o (x \o y)
  BY <1>1, SMTT(30)
<1>4. (b \o x) \o y = b \o c
  BY <1>2, <1>3
<1> QED
  BY <1>1, <1>4, Zenon DEF x, y

\* send: the bytes that the system takes of a frame come right behind those it
\* took before, or behind the last byte of the frame before.
LEMMA SendSomeKeeps ==
  ASSUME ChannelInv, NEW s \in Sender, SendSome(s)
  PROVE  ChannelInv'
<1> DEFINE f == sender[s].frame
           k == sender[s].sent
           L == Len(Bytes)
           M == Len(begun)
<1>0. f = sender[s].frame /\ k = sender[s].sent /\ L = Len(Bytes) /\ M = Len(begun)
  OBVIOUS
<1> HIDE DEF f, k, L, M
<1>1. /\ f \in Frame /\ k \in Nat /\ Size(f) \in Nat /\ send_mu = s /\ open
      /\ Len(Wire(f)) = Size(f) /\ Wire(f) \in Seq(Byte)
      /\ \A i \in 1 .. Size(f): Wire(f)[i] = <<f, i>>
      /\ sender \in [Sender -> [frame: Frame \union {None}, sent: Nat]]
  <2>1. /\ f \in Frame /\ k \in Nat /\ send_mu = s /\ open
        /\ sender \in [Sender -> [frame: Frame \union {None}, sent: Nat]]
    BY <1>0, ChannelAssumption, SMTT(30) DEF SendSome, ChannelInv, ChannelTyped, OneAtATime
  <2> QED
    BY <2>1, Sizes, WireFacts, Zenon
<1>2. PICK n \in 1 .. Size(f) - k:
        /\ stream' = stream \o SubSeq(Wire(f), k + 1, k + n)
        /\ sender' = [sender EXCEPT ![s] = [frame |-> f, sent |-> k + n]]
        /\ begun' = IF k = 0 THEN Append(begun, f) ELSE begun
  BY <1>1, <1>0, Zenon DEF SendSome
<1>n. n \in Nat /\ n >= 1 /\ k + n <= Size(f)
  BY <1>1
<1>3. UNCHANGED <<todo, send_mu, cut, open, receiver, recv_buffer, received>>
  BY DEF SendSome, receiving
<1>4. /\ sender' \in [Sender -> [frame: Frame \union {None}, sent: Nat]]
      /\ sender'[s].frame = f /\ sender'[s].sent = k + n
      /\ \A t \in Sender: sender'[t].frame = sender[t].frame
      /\ \A t \in Sender \ {s}: sender'[t].sent = sender[t].sent
  BY <1>1, <1>2, <1>0, <1>n, SMTT(30)
<1>5. /\ begun \in Seq(Frame) /\ M \in Nat /\ begun' \in Seq(Frame)
      /\ Len(begun') = IF k = 0 THEN M + 1 ELSE M
      /\ \A i \in 1 .. M: begun'[i] = begun[i]
      /\ begun'[Len(begun')] = f
  <2>1. begun \in Seq(Frame) /\ M \in Nat
    BY <1>0 DEF ChannelInv, ChannelTyped
  <2>2. k # 0 => begun[M] = f
    BY <1>0 DEF ChannelInv, OneAtATime
  <2> QED
    BY <1>1, <1>2, <1>0, <2>1, <2>2
<1>6. /\ Bytes \in Seq(Byte) /\ L \in Nat /\ Bytes' \in Seq(Byte) /\ stream' \in Seq(Byte)
      /\ Len(Bytes') = L + n
      /\ \A q \in 1 .. L: Bytes'[q] = Bytes[q]
      /\ \A q \in L + 1 .. L + n: Bytes'[q] = <<f, k + (q - L)>>
  <2> DEFINE w == SubSeq(Wire(f), k + 1, k + n)
  <2>1. stream \in Seq(Byte) /\ recv_buffer \in Seq(Byte)
    BY DEF ChannelInv, ChannelTyped
  <2>2. w \in Seq(Byte) /\ Len(w) = n /\ \A i \in 1 .. n: w[i] = <<f, k + i>>
    <3>1. w \in Seq(Byte) /\ Len(w) = n /\ \A i \in 1 .. n: w[i] = Wire(f)[k + i]
      <4>1. n \in 1 .. Len(Wire(f)) - k
        BY <1>1
      <4> QED
        BY <1>1, <4>1, Part
    <3>2. \A i \in 1 .. n: k + i \in 1 .. Size(f)
      BY <1>1
    <3> QED
      BY <1>1, <3>1, <3>2
  <2> HIDE DEF w
  <2>3. stream' = stream \o w /\ recv_buffer' = recv_buffer
    BY <1>2, <1>3 DEF w
  <2>4. Bytes \in Seq(Byte) /\ L \in Nat /\ stream' \in Seq(Byte)
    BY <1>0, <2>1, <2>2, <2>3, Joined DEF Bytes
  <2>5. Bytes' = Bytes \o w
    <3>1. (recv_buffer \o stream) \o w = recv_buffer \o (stream \o w)
      BY <2>1, <2>2, SMTT(30)
    <3>2. Bytes' = recv_buffer \o (stream \o w)
      BY <2>3 DEF Bytes
    <3> QED
      BY <3>1, <3>2 DEF Bytes
  <2>7. /\ Bytes' \in Seq(Byte) /\ Len(Bytes') = L + n
        /\ \A q \in 1 .. L: Bytes'[q] = Bytes[q]
        /\ \A i \in 1 .. n: Bytes'[L + i] = w[i]
    <3>1. /\ Bytes \o w \in Seq(Byte) /\ Len(Bytes \o w) = Len(Bytes) + Len(w)
          /\ \A q \in 1 .. Len(Bytes): (Bytes \o w)[q] = Bytes[q]
          /\ \A q \in 1 .. Len(w): (Bytes \o w)[Len(Bytes) + q] = w[q]
      <4>1. Bytes \in Seq(Byte) /\ w \in Seq(Byte)
        BY <2>2, <2>4
      <4> QED
        BY <4>1
    <3>2. Len(Bytes) = L /\ Len(w) = n
      BY <1>0, <2>2
    <3> QED
      BY <2>5, <3>1, <3>2, Zenon
  <2>8. ASSUME NEW q \in L + 1 .. L + n PROVE Bytes'[q] = <<f, k + (q - L)>>
    <3>1. q - L \in 1 .. n /\ L + (q - L) = q
      BY <2>4
    <3> QED
      BY <2>2, <2>7, <3>1, Zenon
  <2> QED
    BY <2>4, <2>7, <2>8, SMTT(30)
<1>i. L \in Nat /\ n \in Nat /\ k \in Nat
  BY <1>1, <1>6, <1>n
<1>j. \A q \in 1 .. L: /\ Bytes[q][1] \in Frame /\ Bytes[q][2] \in Nat
                       /\ Size(Bytes[q][1]) \in Nat /\ Size(Bytes[q][1]) >= 1
  BY <1>6, <1>0, ByteAt, SMTT(30)
<1>a. f # None /\ s \in Sender /\ ~Ended /\ Flow
  BY <1>1, ChannelAssumption DEF ChannelInv
<1>8. k = 0 => \A i \in 1 .. M: begun[i] # f
  BY <1>0, Zenon DEF ChannelInv, OneAtATime
<1>9. k # 0 => M > 0 /\ begun[M] = f
  BY <1>0 DEF ChannelInv, OneAtATime
<1>b. \A t \in Sender \ {s}: sender[t].sent = 0 /\ sender[t].frame # f
  BY <1>1, <1>0, <1>a DEF ChannelInv, OneAtATime, Owned
<1>10. ChannelTyped'
  BY <1>3, <1>4, <1>5, <1>6, Zenon DEF ChannelInv, ChannelTyped
<1>11. Owned'
  <2>1. f \notin todo
    BY <1>0 DEF ChannelInv, Owned
  <2>2. \A i \in 1 .. Len(begun'): begun'[i] \notin todo
    BY <1>5, <1>0, <2>1 DEF ChannelInv, Owned
  <2>3. \A i, j \in 1 .. Len(begun'): begun'[i] = begun'[j] => i = j
    BY <1>5, <1>0, <1>8, SMTT(30) DEF ChannelInv, Owned
  <2> QED
    BY <1>3, <1>4, <2>2, <2>3 DEF ChannelInv, Owned
<1>12. OneAtATime'
  <2>1. \A t \in Sender \ {s}: \A i \in 1 .. Len(begun'): begun'[i] # sender[t].frame
    BY <1>5, <1>0, <1>b DEF ChannelInv, OneAtATime
  <2>2. k + n # 0 /\ k + n <= Size(f) /\ Len(begun') > 0
    BY <1>1, <1>2, <1>5, <1>9, SMTT(30)
  <2>3. ASSUME NEW t \in Sender
        PROVE  IF sender'[t].sent = 0 THEN \A i \in 1 .. Len(begun'): begun'[i] # sender'[t].frame
               ELSE /\ send_mu' = t /\ sender'[t].sent <= Size(sender'[t].frame)
                    /\ Len(begun') > 0 /\ begun'[Len(begun')] = sender'[t].frame
    <3>1. CASE t = s
      BY <1>1, <1>3, <1>4, <1>5, <2>2, <3>1
    <3>2. CASE t # s
      BY <1>4, <1>b, <2>1, <3>2
    <3> QED
      BY <3>1, <3>2
  <2>4. send_mu' = s /\ sender'[s].frame # None
    BY <1>1, <1>3, <1>4, <1>a
  <2> QED
    BY <2>3, <2>4 DEF OneAtATime
<1>13. Returned' /\ MalformedHasCause'
  <2>1. Len(received) \in Nat /\ Len(received) <= M
    BY <1>0 DEF ChannelInv, ChannelTyped, Returned
  <2>2. ASSUME NEW i \in 1 .. Len(received) PROVE received[i] # f
    <3>1. received[i] = begun[i] /\ (received[i] = f => k = Size(f))
      BY <1>0 DEF ChannelInv, Returned
    <3> QED
      BY <1>1, <1>2, <3>1
  <2>3. Returned'
    BY <1>3, <1>4, <1>5, <1>0, <2>1, <2>2 DEF ChannelInv, Returned
  <2> QED
    BY <2>3, <1>3, <1>a DEF MalformedHasCause, Ended
<1>14. Sent'
  <2> SUFFICES ASSUME NEW q \in 1 .. L + n
               PROVE  /\ \E i \in 1 .. Len(begun'): begun'[i] = Bytes'[q][1]
                      /\ Bytes'[q][2] \in 1 .. Size(Bytes'[q][1])
                      /\ \A t \in Sender: sender'[t].frame = Bytes'[q][1] => Bytes'[q][2] <= sender'[t].sent
                      /\ Bytes'[q][1] \in cut => Bytes'[q][2] # Size(Bytes'[q][1])
    BY <1>3, <1>6, Zenon DEF Sent
  <2>1. CASE q \in 1 .. L
    <3>1. /\ \E i \in 1 .. M: begun[i] = Bytes[q][1]
          /\ Bytes[q][2] \in 1 .. Size(Bytes[q][1])
          /\ \A t \in Sender: sender[t].frame = Bytes[q][1] => Bytes[q][2] <= sender[t].sent
          /\ Bytes[q][1] \in cut => Bytes[q][2] # Size(Bytes[q][1])
      BY <1>0, <1>a, <2>1 DEF Flow, Sent
    <3>2. Bytes'[q] = Bytes[q] /\ Bytes[q][2] \in Nat
      BY <1>6, <2>1, ByteFacts, SMTT(30)
    <3>3. \E i \in 1 .. Len(begun'): begun'[i] = Bytes[q][1]
      BY <1>5, <3>1
    <3>4. \A t \in Sender: sender'[t].frame = Bytes[q][1] => Bytes[q][2] <= sender'[t].sent
      <4> SUFFICES ASSUME NEW t \in Sender, sender'[t].frame = Bytes[q][1]
                   PROVE  Bytes[q][2] <= sender'[t].sent
        OBVIOUS
      <4>1. sender[t].frame = Bytes[q][1] /\ Bytes[q][2] <= sender[t].sent
        BY <1>4, <3>1
      <4>2. CASE t = s
        <5>1. Bytes[q][2] <= k /\ sender'[t].sent = k + n
          BY <1>4, <1>0, <4>1, <4>2
        <5> QED
          BY <1>1, <1>n, <3>2, <5>1, SMTT(30)
      <4>3. CASE t # s
        BY <1>4, <4>1, <4>3
      <4> QED
        BY <4>2, <4>3
    <3> QED
      BY <3>1, <3>2, <3>3, <3>4
  <2>2. CASE q \in L + 1 .. L + n
    <3>1. Bytes'[q] = <<f, k + (q - L)>>
      BY <1>6, <2>2
    <3>5. k + (q - L) \in 1 .. k + n
      BY <1>1, <1>6, <2>2
    <3>2. f \notin cut /\ k + n <= Size(f)
      BY <1>1, <1>2, <1>0 DEF ChannelInv, Owned
    <3>3. \A t \in Sender: sender'[t].frame = f => t = s
      BY <1>4, <1>b
    <3>4. Len(begun') \in 1 .. Len(begun')
      BY <1>1, <1>5, <1>9
    <3> QED
      BY <1>1, <1>4, <1>5, <3>1, <3>2, <3>3, <3>4, <3>5, SMTT(30)
  <2> QED
    BY <1>6, <2>1, <2>2
<1>15. Due'
  <2>1. Len(Bytes') > 0
    BY <1>6
  <2>2. CASE L = 0
    <3>1. Len(received) = M /\ k = 0
      <4>2. Len(received) = M
        BY <2>2, <1>0, <1>a DEF Flow, Due
      <4>3. k = 0 \/ received[M] = f
        BY <4>2, <1>5, <1>9 DEF ChannelInv, Returned
      <4> QED
        BY <4>2, <4>3, <1>1, <1>2, <1>5, <1>0, <1>9 DEF ChannelInv, Returned
    <3>2. Bytes'[1] = <<f, 1>>
      BY <1>6, <2>2, <3>1
    <3> QED
      BY <1>3, <1>5, <2>1, <3>1, <3>2 DEF Due
  <2>3. CASE L > 0
    <3>1. Len(received) < M /\ Bytes[1] = <<begun[Len(received) + 1], 1>>
      BY <1>6, <1>0, <1>a, <2>3 DEF Flow, Due
    <3>2. Len(received) \in Nat
      BY DEF ChannelInv, ChannelTyped
    <3>3. Bytes'[1] = Bytes[1] /\ begun'[Len(received) + 1] = begun[Len(received) + 1]
      BY <1>5, <1>6, <2>3, <3>1, <3>2, SMTT(30)
    <3> QED
      BY <1>3, <1>5, <2>1, <3>1, <3>2, <3>3 DEF Due
  <2> QED
    BY <1>6, <2>2, <2>3
<1>16. Ending'
  <2>1. Bytes'[Len(Bytes')] = <<f, k + n>>
    BY <1>6
  <2>2. \A t \in Sender: sender'[t].sent > 0 <=> t = s
    BY <1>1, <1>4, <1>b
  <2> QED
    BY <1>4, <1>5, <2>1, <2>2 DEF Ending
<1>17. Unbroken'
  <2> SUFFICES ASSUME NEW p \in 1 .. L + n, NEW q \in 1 .. L + n,
                      Bytes'[p][2] = 1, Bytes'[p][1] \notin cut,
                      p <= q, q < p + Size(Bytes'[p][1])
               PROVE  Bytes'[q] = <<Bytes'[p][1], q - p + 1>>
    BY <1>3, <1>6, SMTT(30) DEF Unbroken
  <2>1. CASE q \in 1 .. L
    <3>1. p \in 1 .. L /\ Bytes'[p] = Bytes[p] /\ Bytes'[q] = Bytes[q]
      BY <1>6, <2>1, SMTT(30)
    <3> QED
      BY <1>0, <1>a, <2>1, <3>1 DEF Flow, Unbroken
  <2>2. CASE q \in L + 1 .. L + n /\ p \in 1 .. L
    <3>1. Bytes'[p] = Bytes[p] /\ Bytes'[q] = <<f, k + (q - L)>> /\ L > 0
      BY <1>6, <2>2
    <3>2. Bytes[p][1] \in Frame /\ Size(Bytes[p][1]) \in Nat
      BY <1>j, <2>2
    <3>3. L < p + Size(Bytes[p][1])
      BY <1>6, <2>2, <3>1, <3>2, SMTT(30)
    <3>4. Bytes[L] = <<Bytes[p][1], L - p + 1>>
      BY <1>6, <1>0, <1>a, <2>2, <3>1, <3>3, SMTT(30) DEF Flow, Unbroken
    <3>5. Bytes[L][1] = begun[M] /\ (k > 0 => Bytes[L][2] = k)
      BY <1>0, <1>a, <3>1 DEF Flow, Ending
    <3>6. k # 0
      <4> SUFFICES ASSUME k = 0 PROVE FALSE
        OBVIOUS
      <4>1. \A t \in Sender: ~(sender[t].sent > 0)
        BY <1>1, <1>0, <1>b, SMTT(30)
      <4>2. Bytes[L][1] \in cut \/ Bytes[L][2] = Size(Bytes[L][1])
        BY <1>0, <1>a, <3>1, <4>1 DEF Flow, Ending
      <4>3. L - p + 1 = Size(Bytes[p][1])
        BY <3>1, <3>4, <4>2
      <4> QED
        BY <1>6, <2>2, <3>1, <3>2, <4>3, SMTT(30)
    <3>7. k = L - p + 1 /\ f = Bytes[p][1]
      BY <1>1, <1>9, <3>4, <3>5, <3>6
    <3>8. k + (q - L) = q - p + 1
      BY <1>6, <2>2, <3>7
    <3> QED
      BY <3>1, <3>7, <3>8
  <2>3. CASE p \in L + 1 .. L + n
    <3>1. Bytes'[p] = <<f, k + (p - L)>> /\ Bytes'[q] = <<f, k + (q - L)>>
      BY <1>6, <1>n, <2>3, SMTT(30)
    <3>2. k + (p - L) = 1
      BY <3>1
    <3>3. k + (q - L) = q - p + 1
      BY <1>i, <2>3, <3>2
    <3> QED
      BY <3>1, <3>3
  <2> QED
    BY <1>6, <1>n, <2>1, <2>2, <2>3
<1>18. Following'
  <2> SUFFICES ASSUME NEW p \in 1 .. L + n, NEW q \in 1 .. L + n, NEW i \in 1 .. Len(begun'),
                      Bytes'[p][2] = 1, Bytes'[p][1] \notin cut,
                      q = p + Size(Bytes'[p][1]), begun'[i] = Bytes'[p][1]
               PROVE  i < Len(begun') /\ Bytes'[q] = <<begun'[i + 1], 1>>
    BY <1>3, <1>6, SMTT(30) DEF Following
  <2>1. p \in 1 .. L
    <3> SUFFICES ASSUME p \in L + 1 .. L + n PROVE FALSE
      BY <1>6, <1>n
    <3>1. Bytes'[p][1] = f /\ k + (p - L) = 1
      BY <1>6
    <3> QED
      BY <1>1, <1>i, <1>n, <3>1, SMTT(30)
  <2>2. /\ Bytes'[p] = Bytes[p] /\ Bytes[p][1] \in Frame
        /\ Size(Bytes[p][1]) \in Nat /\ Size(Bytes[p][1]) >= 1
    BY <1>6, <1>j, <2>1, SMTT(30)
  <2>3. PICK j \in 1 .. M: begun[j] = Bytes[p][1]
    BY <1>0, <1>a, <2>1 DEF Flow, Sent
  <2>4. i = j
    <3>1. j \in 1 .. Len(begun') /\ begun'[j] = begun'[i]
      BY <1>5, <2>2, <2>3
    <3> QED
      BY <1>11, <3>1 DEF Owned
  <2>5. CASE q \in 1 .. L
    <3>1. j < M /\ Bytes[q] = <<begun[j + 1], 1>>
      BY <1>0, <1>a, <2>1, <2>2, <2>3, <2>5, SMTT(30) DEF Flow, Following
    <3>2. j + 1 \in 1 .. M /\ j < Len(begun')
      BY <1>5, <3>1
    <3>3. begun'[i + 1] = begun[j + 1] /\ Bytes'[q] = Bytes[q]
      BY <1>5, <1>6, <2>4, <2>5, <3>2, SMTT(30)
    <3> QED
      BY <2>4, <3>1, <3>2, <3>3
  <2>6. CASE q \in L + 1 .. L + n
    <3>1. L \in 1 .. L /\ L > 0 /\ p <= L /\ L < p + Size(Bytes[p][1])
      BY <1>i, <2>1, <2>2, <2>6
    <3>2. Bytes[L] = <<Bytes[p][1], L - p + 1>>
      BY <1>0, <1>a, <2>1, <2>2, <3>1, SMTT(30) DEF Flow, Unbroken
    <3>3. Bytes[L][1] = begun[M] /\ (k > 0 => Bytes[L][2] = k)
      BY <1>0, <1>a, <3>1, SMTT(30) DEF Flow, Ending
    <3>4. j = M
      <4>1. begun[j] = begun[M] /\ M \in 1 .. M
        BY <1>5, <2>3, <3>2, <3>3, SMTT(30)
      <4> QED
        BY <1>0, <4>1 DEF ChannelInv, Owned
    <3>5. Bytes[L][2] <= Size(Bytes[p][1])
      BY <1>6, <1>0, <1>a, <3>1, <3>2, SMTT(30) DEF Flow, Sent
    <3>6. k = 0
      <4> SUFFICES ASSUME k # 0 PROVE FALSE
        OBVIOUS
      <4>1. f = Bytes[p][1] /\ k = L - p + 1
        BY <1>1, <1>9, <3>2, <3>3, SMTT(30)
      <4>2. q = p + Size(f)
        BY <2>2, <4>1
      <4>3. q <= L + n /\ p = L + 1 - k
        BY <1>i, <2>1, <2>6, <4>1, SMTT(30)
      <4> QED
        BY <1>1, <1>i, <1>n, <4>2, <4>3, SMTT(30)
    <3>7. q = L + 1
      <4>1. \A t \in Sender: ~(sender[t].sent > 0)
        <5>1. \A t \in Sender: sender[t].sent = 0
          BY <1>0, <1>b, <3>6, Zenon
        <5> QED
          BY <5>1
      <4>2. Bytes[L][2] = Size(Bytes[p][1])
        BY <1>0, <1>a, <2>2, <3>1, <3>2, <4>1, SMTT(30) DEF Flow, Ending
      <4> QED
        BY <1>6, <2>1, <2>2, <3>2, <4>2
    <3>8. i + 1 = Len(begun') /\ i < Len(begun')
      BY <1>5, <2>4, <3>4, <3>6
    <3>9. begun'[i + 1] = f
      BY <1>5, <3>8
    <3>10. Bytes'[q] = <<f, 1>>
      <4>1. q \in L + 1 .. L + n /\ k + (q - L) = 1
        BY <1>i, <2>6, <3>6, <3>7
      <4> QED
        BY <1>6, <4>1, SMTT(30)
    <3> QED
      BY <3>8, <3>9, <3>10
  <2> QED
    BY <1>6, <1>n, <2>5, <2>6, SMTT(30)
<1> QED
  BY <1>3, <1>10, <1>11, <1>12, <1>13, <1>14, <1>15, <1>16, <1>17, <1>18, <1>a DEF ChannelInv, Flow, Ended

\* Flow is about the bytes and the frames, whichever part of the bytes is in
\* the buffer.
LEMMA FlowStays ==
  ASSUME Flow, UNCHANGED <<Bytes, begun, received, sender, cut>>
  PROVE  Flow'
<1>1. Sent' /\ Due' /\ Ending'
  BY DEF Flow, Sent, Due, Ending
<1>2. Unbroken' /\ Following'
  BY SMTT(30) DEF Flow, Unbroken, Following
<1> QED
  BY <1>1, <1>2 DEF Flow

\* A sender takes a frame that none has and that has not begun.
LEMMA BeginKeeps ==
  ASSUME ChannelInv, NEW s \in Sender, NEW f \in Frame, Begin(s, f)
  PROVE  ChannelInv'
<1>1. /\ f \in todo /\ todo' = todo \ {f} /\ sender[s].sent = 0 /\ sender[s].frame = None
      /\ UNCHANGED <<send_mu, begun, cut, stream, open, receiver, recv_buffer, received>>
  BY DEF Begin, Idle, receiving
<1>2. /\ sender' \in [Sender -> [frame: Frame \union {None}, sent: Nat]]
      /\ sender'[s].frame = f /\ sender'[s].sent = 0
      /\ \A t \in Sender \ {s}: sender'[t].frame = sender[t].frame
      /\ \A t \in Sender: sender'[t].sent = sender[t].sent
  BY <1>1 DEF Begin, ChannelInv, ChannelTyped
<1>3. f # None /\ f \notin cut /\ \A i \in 1 .. Len(begun): begun[i] # f
  BY <1>1, ChannelAssumption DEF ChannelInv, Owned
<1>4. ChannelTyped'
  BY <1>1, <1>2 DEF ChannelInv, ChannelTyped
<1>5. Owned'
  BY <1>1, <1>2, <1>3 DEF ChannelInv, Owned
<1>6. OneAtATime'
  <2>1. send_mu # s
    BY <1>1, ChannelAssumption DEF ChannelInv, OneAtATime
  <2> QED
    BY <1>1, <1>2, <1>3, <2>1 DEF ChannelInv, OneAtATime, ChannelTyped
<1>7. Returned' /\ MalformedHasCause'
  <2>1. \A i \in 1 .. Len(received): received[i] # f
    <3>1. /\ Len(received) \in Nat /\ Len(begun) \in Nat /\ Len(received) <= Len(begun)
          /\ \A i \in 1 .. Len(received): received[i] = begun[i]
      BY DEF ChannelInv, Returned, ChannelTyped
    <3> QED
      BY <1>3, <3>1
  <2> QED
    BY <1>1, <1>2, <2>1 DEF ChannelInv, Returned, MalformedHasCause
<1>8. Bytes' = Bytes
  BY <1>1 DEF Bytes
<1>9. ASSUME Flow PROVE Flow'
  <2>1. Sent'
    <3>1. \A q \in 1 .. Len(Bytes): Bytes[q][1] # f
      BY <1>3, <1>9 DEF Flow, Sent
    <3> QED
      BY <1>1, <1>2, <1>8, <1>9, <3>1 DEF Flow, Sent
  <2>2. Due' /\ Ending'
    BY <1>1, <1>2, <1>8, <1>9, SMTT(30) DEF Flow, Due, Ending
  <2>3. Unbroken' /\ Following'
    BY <1>1, <1>8, <1>9, SMTT(30) DEF Flow, Unbroken, Following
  <2> QED
    BY <2>1, <2>2, <2>3 DEF Flow
<1> QED
  BY <1>1, <1>4, <1>5, <1>6, <1>7, <1>9 DEF ChannelInv, Ended

\* lock_guard(send_mu_): while none holds it, no frame is half sent.
LEMMA LockKeeps ==
  ASSUME ChannelInv, NEW s \in Sender, Lock(s)
  PROVE  ChannelInv'
<1>1. /\ send_mu = None /\ send_mu' = s /\ sender[s].frame # None
      /\ UNCHANGED <<todo, sender, begun, cut, stream, open, receiver, recv_buffer, received>>
  BY DEF Lock, receiving
<1>2. ChannelTyped' /\ Owned' /\ Returned' /\ MalformedHasCause'
  BY <1>1 DEF ChannelInv, ChannelTyped, Owned, Returned, MalformedHasCause
<1>3. OneAtATime'
  BY <1>1, ChannelAssumption DEF ChannelInv, OneAtATime
<1>4. Flow => Flow'
  <2>1. Bytes' = Bytes
    BY <1>1 DEF Bytes
  <2> QED
    BY <1>1, <2>1, FlowStays
<1> QED
  BY <1>1, <1>2, <1>3, <1>4 DEF ChannelInv, Ended

\* send_all returns: a frame that is not whole counts as cut short.
LEMMA SendEndsKeeps ==
  ASSUME ChannelInv, NEW s \in Sender, SendEnds(s)
  PROVE  ChannelInv'
<1> DEFINE f == sender[s].frame
           k == sender[s].sent
<1>7. f = sender[s].frame /\ k = sender[s].sent
  OBVIOUS
<1> HIDE DEF f, k
<1>1. /\ send_mu = s /\ send_mu' = None /\ f \in Frame /\ k \in Nat /\ Size(f) \in Nat
      /\ UNCHANGED <<todo, begun, stream, open, receiver, recv_buffer, received>>
  <2>1. f \in Frame /\ k \in Nat /\ send_mu = s
    BY <1>7, ChannelAssumption DEF SendEnds, ChannelInv, ChannelTyped, OneAtATime
  <2> QED
    BY <2>1, Sizes DEF SendEnds, receiving
<1>2. cut' = IF k = Size(f) THEN cut ELSE cut \union {f}
  BY <1>1, <1>7, WireFacts DEF SendEnds
<1>3. /\ sender' \in [Sender -> [frame: Frame \union {None}, sent: Nat]]
      /\ sender'[s].frame = None /\ sender'[s].sent = 0
      /\ \A t \in Sender \ {s}: sender'[t] = sender[t]
  BY DEF SendEnds, Idle, ChannelInv, ChannelTyped
<1>4. \A t \in Sender \ {s}: sender[t].sent = 0 /\ sender[t].frame # f
  BY <1>1, <1>7, ChannelAssumption DEF ChannelInv, OneAtATime, Owned
<1>5. None \notin Frame /\ k <= Size(f)
  BY <1>1, <1>7, ChannelAssumption DEF ChannelInv, OneAtATime
<1>6. cut' \in SUBSET Frame /\ cut \subseteq cut' /\ \A g \in cut': g \in cut \/ (g = f /\ k # Size(f))
  <2>1. cut \in SUBSET Frame
    BY DEF ChannelInv, ChannelTyped
  <2> QED
    BY <1>1, <1>2, <2>1
<1>8. ChannelTyped'
  <2>1. send_mu' \in Sender \union {None}
    BY <1>1
  <2> QED
    BY <1>1, <1>3, <1>6, <2>1 DEF ChannelInv, ChannelTyped
<1>9. Owned'
  <2>1. f \notin todo
    BY <1>7 DEF ChannelInv, Owned
  <2>2. \A t \in Sender: sender'[t].frame \notin todo \union cut'
    <3>1. sender'[s].frame \notin todo \union cut'
      BY <1>3, <1>5, <1>6 DEF ChannelInv, ChannelTyped
    <3>2. \A t \in Sender \ {s}: sender[t].frame \notin todo \union cut
      BY DEF ChannelInv, Owned
    <3> QED
      BY <1>3, <1>4, <1>6, <3>1, <3>2
  <2>3. \A t, u \in Sender: sender'[t].frame = sender'[u].frame => t = u \/ sender'[t].frame = None
    BY <1>3 DEF ChannelInv, Owned
  <2> QED
    BY <1>1, <1>6, <2>1, <2>2, <2>3 DEF ChannelInv, Owned
<1>10. OneAtATime'
  <2>1. \A i \in 1 .. Len(begun): begun[i] # None
    BY <1>5 DEF ChannelInv, ChannelTyped
  <2>2. \A t \in Sender: sender'[t].sent = 0 /\ \A i \in 1 .. Len(begun): begun[i] # sender'[t].frame
    BY <1>3, <1>4, <2>1 DEF ChannelInv, OneAtATime
  <2> QED
    BY <1>1, <2>2 DEF OneAtATime
<1>11. Returned' /\ MalformedHasCause'
  <2>1. \A i \in 1 .. Len(received): received[i] \in Frame /\ (received[i] = f => k = Size(f))
    BY <1>7 DEF ChannelInv, ChannelTyped, Returned
  <2>2. Returned'
    BY <1>1, <1>3, <1>5, <1>6, <2>1, SMTT(30) DEF ChannelInv, Returned
  <2> QED
    BY <1>1, <1>6, <2>2 DEF ChannelInv, MalformedHasCause
<1>12. Bytes' = Bytes
  BY <1>1 DEF Bytes
<1>13. ASSUME Flow PROVE Flow'
  <2>a. Bytes \in Seq(Byte)
    BY Joined DEF Bytes, ChannelInv, ChannelTyped
  <2>1. Sent'
    <3> SUFFICES ASSUME NEW q \in 1 .. Len(Bytes)
                 PROVE  /\ \E i \in 1 .. Len(begun): begun[i] = Bytes[q][1]
                        /\ Bytes[q][2] \in 1 .. Size(Bytes[q][1])
                        /\ \A t \in Sender: sender'[t].frame = Bytes[q][1] => Bytes[q][2] <= sender'[t].sent
                        /\ Bytes[q][1] \in cut' => Bytes[q][2] # Size(Bytes[q][1])
      BY <1>1, <1>12 DEF Sent
    <3>1. /\ \E i \in 1 .. Len(begun): begun[i] = Bytes[q][1]
          /\ Bytes[q][2] \in 1 .. Size(Bytes[q][1])
          /\ \A t \in Sender: sender[t].frame = Bytes[q][1] => Bytes[q][2] <= sender[t].sent
          /\ Bytes[q][1] \in cut => Bytes[q][2] # Size(Bytes[q][1])
      BY <1>13 DEF Flow, Sent
    <3>2. Bytes[q][1] \in Frame /\ Bytes[q][2] \in Nat
      BY <2>a, ByteAt
    <3>3. \A t \in Sender: sender'[t].frame = Bytes[q][1] => Bytes[q][2] <= sender'[t].sent
      BY <1>3, <1>5, <3>1, <3>2, SMTT(30)
    <3>4. Bytes[q][1] = f => Bytes[q][2] <= k
      BY <1>7, <3>1
    <3>5. Bytes[q][1] \in cut' => Bytes[q][2] # Size(Bytes[q][1])
      BY <1>1, <1>5, <1>6, <3>1, <3>2, <3>4
    <3> QED
      BY <3>1, <3>3, <3>5
  <2>2. Due'
    BY <1>1, <1>12, <1>13 DEF Flow, Due
  <2>3. Ending'
    <3> SUFFICES ASSUME Len(Bytes) > 0
                 PROVE  /\ Bytes[Len(Bytes)][1] = begun[Len(begun)]
                        /\ \/ Bytes[Len(Bytes)][1] \in cut'
                           \/ Bytes[Len(Bytes)][2] = Size(Bytes[Len(Bytes)][1])
      <4>1. \A t \in Sender: ~(sender'[t].sent > 0)
        BY <1>3, <1>4
      <4> QED
        BY <1>1, <1>12, <4>1 DEF Ending
    <3>1. Bytes[Len(Bytes)][1] = begun[Len(begun)]
      BY <1>13 DEF Flow, Ending
    <3>2. CASE k > 0
      <4>1. Bytes[Len(Bytes)][1] = f /\ Bytes[Len(Bytes)][2] = k
        BY <1>7, <1>13, <3>1, <3>2 DEF Flow, Ending, ChannelInv, OneAtATime
      <4> QED
        BY <1>2, <3>1, <4>1
    <3>3. CASE k = 0
      <4>1. \A t \in Sender: ~(sender[t].sent > 0)
        <5>1. \A t \in Sender: sender[t].sent = 0
          BY <1>4, <1>7, <3>3, Zenon
        <5> QED
          BY <5>1
      <4> QED
        BY <1>6, <1>13, <3>1, <4>1 DEF Flow, Ending
    <3> QED
      BY <1>1, <3>2, <3>3
  <2>4. Unbroken'
    BY <1>6, <1>12, <1>13 DEF Flow, Unbroken
  <2>5. Following'
    BY <1>1, <1>6, <1>12, <1>13, SMTT(30) DEF Flow, Following
  <2> QED
    BY <2>1, <2>2, <2>3, <2>4, <2>5 DEF Flow
<1> QED
  BY <1>1, <1>8, <1>9, <1>10, <1>11, <1>13 DEF ChannelInv, Ended

\* recv_some moves bytes from the stream to the buffer; a timeout, a call of
\* recv_frame and the end of the connection move none.
LEMMA ReceivingKeeps ==
  ASSUME ChannelInv, Call \/ RecvSome \/ RecvTimeout \/ ConnectionClosed
  PROVE  ChannelInv'
<1>a. stream \in Seq(Byte) /\ recv_buffer \in Seq(Byte)
  BY DEF ChannelInv, ChannelTyped
<1>1. /\ UNCHANGED <<todo, sender, send_mu, begun, cut, received>>
      /\ receiver' \in {"idle", "receiving"} \/ (UNCHANGED receiver /\ open)
      /\ open' \in BOOLEAN
  BY Zenon DEF Call, RecvSome, RecvTimeout, ConnectionClosed, sending, receiving, ChannelInv, ChannelTyped
<1>2. stream' \in Seq(Byte) /\ recv_buffer' \in Seq(Byte) /\ Bytes' = Bytes
  <2>1. CASE RecvSome
    <3>1. PICK n \in 1 .. Len(stream): /\ recv_buffer' = recv_buffer \o SubSeq(stream, 1, n)
                                       /\ stream' = SubSeq(stream, n + 1, Len(stream))
      BY <2>1, Zenon DEF RecvSome
    <3>2. SubSeq(stream, 1, n) \in Seq(Byte) /\ stream' \in Seq(Byte)
      BY <1>a, <3>1, Moved, SMTT(30)
    <3>3. recv_buffer' \in Seq(Byte)
      BY <1>a, <3>1, <3>2
    <3>4. recv_buffer' \o stream' = recv_buffer \o stream
      BY <1>a, <3>1, Moved, Zenon
    <3> QED
      BY <3>2, <3>3, <3>4 DEF Bytes
  <2>2. CASE UNCHANGED <<stream, recv_buffer>>
    BY <1>a, <2>2 DEF Bytes
  <2> QED
    BY <2>1, <2>2 DEF Call, RecvTimeout, ConnectionClosed, receiving
<1>3. ~Ended /\ Flow
  BY DEF ChannelInv, Ended, Call, RecvSome, RecvTimeout, ConnectionClosed
<1>4. Flow' /\ ~Ended'
  BY <1>1, <1>2, <1>3, FlowStays DEF Ended
<1>5. ChannelTyped'
  BY <1>1, <1>2 DEF ChannelInv, ChannelTyped
<1>6. Owned' /\ OneAtATime' /\ Returned' /\ MalformedHasCause'
  BY <1>1, <1>4 DEF ChannelInv, Owned, OneAtATime, Returned, MalformedHasCause, Ended
<1> QED
  BY <1>4, <1>5, <1>6 DEF ChannelInv

\* A header that starts like a frame's is that frame's alone.
LEMMA HeaderFacts ==
  ASSUME NEW b \in Seq(Byte), Len(b) >= kHeaderSize, NEW f \in Frame,
         \A q \in 1 .. Len(b): q <= Size(f) => b[q] = <<f, q>>
  PROVE  HeaderOf(b) = {f}
<1> DEFINE h(c) == SubSeq(c, 1, kHeaderSize)
<1>1. ASSUME NEW c \in Seq(Byte), Len(c) >= kHeaderSize
      PROVE  /\ h(c) \in Seq(Byte) /\ Len(h(c)) = kHeaderSize
             /\ \A i \in 1 .. kHeaderSize: h(c)[i] = c[i]
  BY <1>1, Sizes
<1>2. ASSUME NEW g \in Frame
      PROVE  /\ h(Wire(g)) \in Seq(Byte) /\ Len(h(Wire(g))) = kHeaderSize
             /\ \A i \in 1 .. kHeaderSize: h(Wire(g))[i] = <<g, i>>
  <2>1. /\ Wire(g) \in Seq(Byte) /\ Len(Wire(g)) = Size(g) /\ Len(Wire(g)) >= kHeaderSize
        /\ \A i \in 1 .. Size(g): Wire(g)[i] = <<g, i>>
    BY WireFacts, Sizes
  <2> QED
    BY <1>1, <2>1, Sizes
<1>3. \A i \in 1 .. kHeaderSize: h(b)[i] = <<f, i>>
  BY <1>1, Sizes, SMTT(30)
<1> HIDE DEF h
<1>4. h(b) = h(Wire(f))
  <2>1. /\ h(b) \in Seq(Byte) /\ h(Wire(f)) \in Seq(Byte) /\ Len(h(b)) = Len(h(Wire(f)))
        /\ \A i \in 1 .. Len(h(b)): h(b)[i] = h(Wire(f))[i]
    BY <1>1, <1>2, <1>3, Zenon
  <2> QED
    BY <2>1, SameSequence
<1>5. ASSUME NEW g \in Frame, h(b) = h(Wire(g)) PROVE g = f
  <2>1. 1 \in 1 .. kHeaderSize
    BY Sizes
  <2>2. <<g, 1>> = <<f, 1>>
    BY <1>2, <1>3, <1>5, <2>1, Zenon
  <2> QED
    BY <2>2
<1> QED
  BY <1>4, <1>5, Zenon DEF HeaderOf, h

\* The first byte is of the frame that is due; if it was not cut short, what
\* has arrived of it is there.
LEMMA FirstFrame ==
  ASSUME ChannelInv, Flow, Len(recv_buffer) > 0
  PROVE  /\ Len(received) < Len(begun) /\ begun[Len(received) + 1] \in Frame
         /\ recv_buffer[1] = <<begun[Len(received) + 1], 1>>
         /\ begun[Len(received) + 1] \notin cut =>
              \A q \in 1 .. Len(recv_buffer):
                q <= Size(begun[Len(received) + 1]) => recv_buffer[q] = <<begun[Len(received) + 1], q>>
<1> DEFINE f == begun[Len(received) + 1]
<1>1. /\ stream \in Seq(Byte) /\ recv_buffer \in Seq(Byte)
      /\ begun \in Seq(Frame) /\ received \in Seq(Frame)
  BY DEF ChannelInv, ChannelTyped
<1>2. /\ Len(Bytes) = Len(recv_buffer) + Len(stream)
      /\ \A q \in 1 .. Len(recv_buffer): Bytes[q] = recv_buffer[q]
  BY <1>1, Joined DEF Bytes
<1>3. Len(recv_buffer) \in Nat /\ Len(stream) \in Nat
  BY <1>1
<1>4. Len(received) < Len(begun) /\ Bytes[1] = <<f, 1>>
  BY <1>2, <1>3 DEF Flow, Due
<1>5. f \in Frame
  BY <1>1, <1>4
<1> HIDE DEF f
<1>6. Size(f) \in Nat
  BY <1>5, Sizes
<1>7. recv_buffer[1] = <<f, 1>>
  BY <1>2, <1>3, <1>4
<1>8. ASSUME f \notin cut, NEW q \in 1 .. Len(recv_buffer), q <= Size(f)
      PROVE  recv_buffer[q] = <<f, q>>
  <2>1. q \in 1 .. Len(Bytes) /\ 1 \in 1 .. Len(Bytes) /\ 1 <= q /\ q < 1 + Size(f)
    BY <1>2, <1>3, <1>6, <1>8
  <2>2. Bytes[1][2] = 1 /\ Bytes[1][1] = f
    BY <1>4
  <2>3. Bytes[q] = <<f, q - 1 + 1>>
    BY <1>8, <2>1, <2>2 DEF Flow, Unbroken
  <2> QED
    BY <1>2, <2>1, <2>3
<1> QED
  BY <1>4, <1>5, <1>7, <1>8 DEF f

\* A whole frame is returned: it is the one that is due, it was not cut short,
\* and the next begins behind it.
LEMMA TakeFrameKeeps ==
  ASSUME ChannelInv, TakeFrame
  PROVE  ChannelInv'
<1> DEFINE N == Len(received)
           M == Len(begun)
           K == Len(stream)
<1>a. /\ stream \in Seq(Byte) /\ recv_buffer \in Seq(Byte)
      /\ begun \in Seq(Frame) /\ received \in Seq(Frame)
      /\ N \in Nat /\ M \in Nat /\ K \in Nat
  BY DEF ChannelInv, ChannelTyped
<1>1. /\ receiver = "receiving" /\ receiver' = "idle" /\ recv_buffer' = << >>
      /\ received' = Append(received, recv_buffer[1][1])
      /\ UNCHANGED <<todo, sender, send_mu, begun, cut, stream, open>>
  BY DEF TakeFrame, sending
<1>2. PICK f \in Frame: recv_buffer = Wire(f)
  BY DEF TakeFrame, validate_frame
<1>3. /\ Size(f) \in Nat /\ Size(f) >= 1 /\ Len(recv_buffer) = Size(f)
      /\ \A i \in 1 .. Size(f): recv_buffer[i] = <<f, i>>
  <2>1. Size(f) \in Nat /\ Size(f) >= 1
    BY Sizes
  <2> QED
    BY <1>2, <2>1, WireFacts
<1>4. Flow
  BY <1>1 DEF ChannelInv, Ended
<1>5. recv_buffer[1] = <<f, 1>> /\ N < M /\ begun[N + 1] = f
  <2>1. recv_buffer[1] = <<f, 1>> /\ Len(recv_buffer) > 0
    BY <1>3
  <2>2. N < M /\ recv_buffer[1] = <<begun[N + 1], 1>>
    BY <1>4, <2>1, FirstFrame
  <2> QED
    BY <2>1, <2>2
<1>6. /\ received' \in Seq(Frame) /\ Len(received') = N + 1 /\ received'[N + 1] = f
      /\ \A i \in 1 .. N: received'[i] = received[i]
  <2>1. received' = Append(received, f)
    BY <1>1, <1>5
  <2> QED
    BY <1>a, <2>1
<1> DEFINE z == Size(f)
           L == Len(Bytes)
<1>7. /\ Bytes \in Seq(Byte) /\ L = z + K /\ Bytes' = stream
      /\ \A i \in 1 .. z: Bytes[i] = <<f, i>>
      /\ \A q \in 1 .. K: Bytes[z + q] = stream[q]
  <2>1. /\ Bytes \in Seq(Byte) /\ L = Len(recv_buffer) + K
        /\ \A i \in 1 .. Len(recv_buffer): Bytes[i] = recv_buffer[i]
        /\ \A q \in 1 .. K: Bytes[Len(recv_buffer) + q] = stream[q]
    BY <1>a, Joined DEF Bytes
  <2>2. Bytes' = << >> \o stream
    BY <1>1 DEF Bytes
  <2>3. << >> \o stream = stream
    BY <1>a
  <2> QED
    BY <1>3, <2>1, <2>2, <2>3, SMTT(30)
<1>8. K = Len(stream) /\ L = Len(Bytes) /\ N = Len(received) /\ M = Len(begun) /\ z = Size(f)
  OBVIOUS
<1> HIDE DEF K, L, N, M, z
<1>9. z \in Nat /\ z >= 1 /\ K \in Nat /\ L = z + K
  BY <1>3, <1>7, <1>8, <1>a
<1>10. f \notin cut /\ \A s \in Sender: sender[s].frame = f => sender[s].sent = z
  <2>1. z \in 1 .. L /\ Bytes[z] = <<f, z>>
    BY <1>7, <1>9
  <2>2. f \notin cut /\ \A s \in Sender: sender[s].frame = f => z <= sender[s].sent
    <3>1. Bytes[z][1] = f /\ Bytes[z][2] = z
      BY <2>1
    <3>2. /\ \A s \in Sender: sender[s].frame = Bytes[z][1] => Bytes[z][2] <= sender[s].sent
          /\ Bytes[z][1] \in cut => Bytes[z][2] # Size(Bytes[z][1])
      BY <1>4, <1>8, <2>1, Zenon DEF Flow, Sent
    <3> QED
      BY <1>8, <3>1, <3>2
  <2>3. ASSUME NEW s \in Sender, sender[s].frame = f PROVE sender[s].sent = z
    <3>1. sender[s].sent \in Nat /\ z <= sender[s].sent
      BY <2>2, <2>3 DEF ChannelInv, ChannelTyped
    <3>2. sender[s].sent <= z
      BY <1>8, <1>9, <2>3, <3>1 DEF ChannelInv, OneAtATime
    <3> QED
      BY <1>9, <3>1, <3>2
  <2> QED
    BY <2>2, <2>3
<1>11. ChannelTyped' /\ Owned' /\ OneAtATime' /\ MalformedHasCause'
  <2>1. recv_buffer' \in Seq(Byte)
    BY <1>1
  <2>2. ChannelTyped'
    BY <1>1, <1>6, <2>1 DEF ChannelInv, ChannelTyped
  <2> QED
    BY <1>1, <2>2 DEF ChannelInv, Owned, OneAtATime, MalformedHasCause
<1>12. Returned'
  <2>1. \A i \in 1 .. N: /\ received[i] = begun[i] /\ received[i] \notin cut
                         /\ \A s \in Sender: sender[s].frame = received[i] => sender[s].sent = Size(received[i])
    BY <1>8 DEF ChannelInv, Returned
  <2>2. ASSUME NEW i \in 1 .. N + 1
        PROVE  /\ received'[i] = begun[i] /\ received'[i] \notin cut
               /\ \A s \in Sender: sender[s].frame = received'[i] => sender[s].sent = Size(received'[i])
    <3>1. CASE i \in 1 .. N
      BY <1>6, <2>1, <3>1
    <3>2. CASE i = N + 1
      BY <1>5, <1>6, <1>8, <1>10, <3>2
    <3> QED
      BY <1>a, <3>1, <3>2
  <2>3. N + 1 <= M
    BY <1>5, <1>a
  <2> QED
    BY <1>1, <1>6, <1>8, <2>2, <2>3 DEF Returned
<1>13. Sent'
  <2> SUFFICES ASSUME NEW q \in 1 .. K
               PROVE  /\ \E i \in 1 .. Len(begun): begun[i] = stream[q][1]
                      /\ stream[q][2] \in 1 .. Size(stream[q][1])
                      /\ \A s \in Sender: sender[s].frame = stream[q][1] => stream[q][2] <= sender[s].sent
                      /\ stream[q][1] \in cut => stream[q][2] # Size(stream[q][1])
    BY <1>1, <1>7, <1>8 DEF Sent
  <2>1. z + q \in 1 .. L /\ Bytes[z + q] = stream[q]
    BY <1>7, <1>9
  <2> QED
    BY <1>4, <1>8, <2>1 DEF Flow, Sent
<1>14. Due'
  <2>1. CASE K = 0
    <3>1. L > 0 /\ L = z /\ Bytes[L] = <<f, z>>
      BY <1>7, <1>9, <2>1
    <3>2. begun[M] = f
      BY <1>4, <1>8, <3>1 DEF Flow, Ending
    <3>3. N + 1 \in 1 .. M /\ M \in 1 .. M /\ begun[M] = begun[N + 1]
      BY <1>5, <1>a, <3>2
    <3>4. N + 1 = M
      BY <1>8, <3>3 DEF ChannelInv, Owned
    <3> QED
      BY <1>1, <1>6, <1>7, <1>8, <2>1, <3>4 DEF Due
  <2>2. CASE K > 0
    <3>1. /\ 1 \in 1 .. L /\ z + 1 \in 1 .. L /\ N + 1 \in 1 .. M /\ z + 1 = 1 + z
          /\ 1 \in 1 .. z /\ 1 \in 1 .. K
      BY <1>5, <1>9, <1>a, <2>2
    <3>3. Bytes[1] = <<f, 1>> /\ Bytes[z + 1] = stream[1]
      BY <1>7, <3>1
    <3>2. N + 1 < M /\ Bytes[z + 1] = <<begun[N + 1 + 1], 1>>
      BY <1>4, <1>5, <1>8, <1>10, <3>1, <3>3, SMTT(30) DEF Flow, Following
    <3> QED
      BY <1>1, <1>6, <1>7, <1>8, <1>a, <2>2, <3>1, <3>2, <3>3 DEF Due
  <2> QED
    BY <1>9, <2>1, <2>2
<1>15. Ending'
  <2>1. CASE K > 0
    <3>1. L > 0 /\ K \in 1 .. K /\ Bytes[L] = stream[K]
      BY <1>7, <1>9, <2>1
    <3> QED
      BY <1>1, <1>4, <1>7, <1>8, <3>1 DEF Flow, Ending
  <2>2. CASE K = 0
    BY <1>7, <1>8, <2>2 DEF Ending
  <2> QED
    BY <1>9, <2>1, <2>2
<1>16. Unbroken'
  <2> SUFFICES ASSUME NEW p \in 1 .. K, NEW q \in 1 .. K,
                      stream[p][2] = 1, stream[p][1] \notin cut,
                      p <= q, q < p + Size(stream[p][1])
               PROVE  stream[q] = <<stream[p][1], q - p + 1>>
    BY <1>1, <1>7, <1>8 DEF Unbroken
  <2>1. /\ z + p \in 1 .. L /\ z + q \in 1 .. L /\ z + p <= z + q
        /\ (z + q) - (z + p) + 1 = q - p + 1
    BY <1>9
  <2>2. Bytes[z + p] = stream[p] /\ Bytes[z + q] = stream[q] /\ Size(stream[p][1]) \in Nat
    BY <1>7, <1>8, <1>a, ByteAt, Zenon
  <2>3. z + q < z + p + Size(stream[p][1])
    BY <1>9, <2>2
  <2> DEFINE P == z + p
             Q == z + q
  <2>4. /\ P \in 1 .. Len(Bytes) /\ Q \in 1 .. Len(Bytes) /\ P <= Q /\ Q < P + Size(Bytes[P][1])
        /\ Bytes[P][2] = 1 /\ Bytes[P][1] \notin cut
        /\ Bytes[P] = stream[p] /\ Bytes[Q] = stream[q] /\ Q - P + 1 = q - p + 1
    BY <1>8, <2>1, <2>2, <2>3, SMTT(30)
  <2> HIDE DEF P, Q
  <2>5. Bytes[Q] = <<Bytes[P][1], Q - P + 1>>
    BY <1>4, <2>4, SMTT(30) DEF Flow, Unbroken
  <2> QED
    BY <2>4, <2>5
<1>17. Following'
  <2> SUFFICES ASSUME NEW p \in 1 .. K, NEW q \in 1 .. K, NEW i \in 1 .. Len(begun),
                      stream[p][2] = 1, stream[p][1] \notin cut,
                      q = p + Size(stream[p][1]), begun[i] = stream[p][1]
               PROVE  i < Len(begun) /\ stream[q] = <<begun[i + 1], 1>>
    BY <1>1, <1>7, <1>8, SMTT(30) DEF Following
  <2>1. z + p \in 1 .. L /\ z + q \in 1 .. L
    BY <1>9
  <2>2. Bytes[z + p] = stream[p] /\ Bytes[z + q] = stream[q] /\ Size(stream[p][1]) \in Nat
    BY <1>7, <1>8, <1>a, ByteAt, Zenon
  <2>3. z + q = z + p + Size(stream[p][1])
    BY <1>9, <2>2
  <2> DEFINE P == z + p
             Q == z + q
  <2>4. /\ P \in 1 .. Len(Bytes) /\ Q \in 1 .. Len(Bytes) /\ Q = P + Size(Bytes[P][1])
        /\ Bytes[P][2] = 1 /\ Bytes[P][1] \notin cut /\ begun[i] = Bytes[P][1]
        /\ Bytes[Q] = stream[q]
    BY <1>8, <2>1, <2>2, <2>3, SMTT(30)
  <2> HIDE DEF P, Q
  <2>5. i < Len(begun) /\ Bytes[Q] = <<begun[i + 1], 1>>
    BY <1>4, <2>4, Zenon DEF Flow, Following
  <2> QED
    BY <2>4, <2>5, SMTT(30)
<1> QED
  BY <1>1, <1>11, <1>12, <1>13, <1>14, <1>15, <1>16, <1>17 DEF ChannelInv, Flow, Ended

\* Malformed: were the frame that is due whole and within the limit, its header
\* would be accepted and its checksum right.
LEMMA MalformedKeeps ==
  ASSUME ChannelInv, Malformed
  PROVE  ChannelInv'
<1> DEFINE f == begun[Len(received) + 1]
<1>1. /\ receiver = "receiving" /\ receiver' = "malformed" /\ recv_buffer' = << >> /\ ~open'
      /\ open' \in BOOLEAN
      /\ UNCHANGED <<todo, sender, send_mu, begun, cut, stream, received>>
  BY Zenon DEF Malformed, sending
<1>2. HasHeader /\ (HeaderAccepted => Complete /\ ~validate_frame(recv_buffer))
  BY DEF Malformed, HeaderAccepted, Complete
<1>3. Flow /\ recv_buffer \in Seq(Byte)
  BY <1>1 DEF ChannelInv, ChannelTyped, Ended
<1>4. Len(recv_buffer) \in Nat /\ Len(recv_buffer) >= kHeaderSize /\ Len(recv_buffer) > 0
  BY <1>2, <1>3, Sizes DEF HasHeader
<1>5. /\ Len(received) < Len(begun) /\ f \in Frame
      /\ f \notin cut => \A q \in 1 .. Len(recv_buffer): q <= Size(f) => recv_buffer[q] = <<f, q>>
  BY <1>3, <1>4, FirstFrame
<1> HIDE DEF f
<1>6. ASSUME f \notin cut, PayloadLength[f] <= kMaxFramePayload PROVE FALSE
  <2>1. HeaderOf(recv_buffer) = {f}
    BY <1>3, <1>4, <1>5, <1>6, HeaderFacts
  <2>2. HeaderAccepted
    BY <1>6, <2>1 DEF HeaderAccepted
  <2>3. Len(recv_buffer) = Size(f)
    <3>1. (CHOOSE g \in HeaderOf(recv_buffer): TRUE) = f
      BY <2>1
    <3>2. Len(recv_buffer) = required_size
      BY <1>2, <2>2 DEF Complete
    <3> QED
      BY <1>2, <3>1, <3>2, Zenon DEF required_size, Size
  <2>4. recv_buffer = Wire(f)
    <3>1. /\ Wire(f) \in Seq(Byte) /\ Len(Wire(f)) = Size(f) /\ Size(f) \in Nat
          /\ \A i \in 1 .. Size(f): Wire(f)[i] = <<f, i>>
      BY <1>5, WireFacts, Sizes
    <3>2. \A i \in 1 .. Len(recv_buffer): recv_buffer[i] = Wire(f)[i]
      BY <1>5, <1>6, <2>3, <3>1
    <3> QED
      BY <1>3, <2>3, <3>1, <3>2, SameSequence
  <2> QED
    BY <1>2, <1>5, <2>2, <2>4 DEF validate_frame
<1>7. MalformedHasCause'
  <2>1. PayloadLength[f] \in Nat /\ kMaxFramePayload \in Nat
    BY <1>5, Sizes, ChannelAssumption
  <2>2. f \in cut \/ PayloadLength[f] > kMaxFramePayload
    BY <1>6, <2>1
  <2> QED
    BY <1>1, <1>5, <2>2 DEF MalformedHasCause, f
<1>8. ChannelTyped' /\ Owned' /\ OneAtATime' /\ Returned'
  BY <1>1 DEF ChannelInv, ChannelTyped, Owned, OneAtATime, Returned
<1> QED
  BY <1>1, <1>7, <1>8 DEF ChannelInv, Ended

\* RecvFails: the connection is closed for good.
LEMMA RecvFailsKeeps ==
  ASSUME ChannelInv, RecvFails
  PROVE  ChannelInv'
<1>1. /\ receiver' = "closed" /\ recv_buffer' = << >> /\ ~open
      /\ UNCHANGED <<todo, sender, send_mu, begun, cut, stream, open, received>>
  BY DEF RecvFails, sending
<1>2. ChannelTyped' /\ Owned' /\ OneAtATime' /\ Returned' /\ MalformedHasCause'
  BY <1>1 DEF ChannelInv, ChannelTyped, Owned, OneAtATime, Returned, MalformedHasCause
<1> QED
  BY <1>1, <1>2 DEF ChannelInv, Ended

\* Every step of a sender, of the receiver or of the network keeps it.
LEMMA ChannelStep == ChannelInv /\ [ChannelNext]_channel_vars => ChannelInv'
<1> SUFFICES ASSUME ChannelInv, [ChannelNext]_channel_vars PROVE ChannelInv'
  OBVIOUS
<1>1. ASSUME NEW s \in Sender, send_frame(s) PROVE ChannelInv'
  BY <1>1, LockKeeps, SendSomeKeeps, SendEndsKeeps DEF send_frame
<1>2. ASSUME NEW s \in Sender, NEW f \in Frame, Begin(s, f) PROVE ChannelInv'
  BY <1>2, BeginKeeps
<1>3. CASE Call \/ RecvTimeout \/ ConnectionClosed \/ RecvSome
  BY <1>3, ReceivingKeeps
<1>4. CASE TakeFrame
  BY <1>4, TakeFrameKeeps
<1>5. CASE Malformed \/ RecvFails
  BY <1>5, MalformedKeeps, RecvFailsKeeps
<1>6. CASE UNCHANGED channel_vars
  <2>1. UNCHANGED <<todo, sender, send_mu, begun, cut, stream, open, receiver, recv_buffer, received>>
    BY <1>6 DEF channel_vars, sending, receiving
  <2>2. Bytes' = Bytes
    BY <2>1 DEF Bytes
  <2>3. Flow => Flow'
    BY <2>1, <2>2, FlowStays
  <2>4. ChannelTyped' /\ Owned' /\ OneAtATime' /\ Returned' /\ MalformedHasCause'
    BY <2>1 DEF ChannelInv, ChannelTyped, Owned, OneAtATime, Returned, MalformedHasCause
  <2> QED
    BY <2>1, <2>3, <2>4 DEF ChannelInv, Ended
<1> QED
  BY <1>1, <1>2, <1>3, <1>4, <1>5, <1>6 DEF ChannelNext, recv_frame

\* A new channel has no bytes.
LEMMA ChannelStarts == ChannelInit => ChannelInv
<1> SUFFICES ASSUME ChannelInit PROVE ChannelInv
  OBVIOUS
<1>1. Len(Bytes) = 0 /\ Len(received) = 0 /\ Len(begun) = 0
  BY DEF ChannelInit, Bytes
<1>2. ChannelTyped /\ Owned /\ OneAtATime /\ Returned /\ MalformedHasCause
  BY <1>1, ChannelAssumption DEF ChannelInit, Idle, ChannelTyped, Owned, OneAtATime, Returned, MalformedHasCause
<1>3. Flow
  BY <1>1 DEF Flow, Sent, Due, Ending, Unbroken, Following
<1> QED
  BY <1>2, <1>3 DEF ChannelInv, Ended, ChannelInit

\* The invariant holds of the reachable states.
THEOREM ChannelSafe == ChannelSpec => []ChannelInv
  BY ChannelStarts, ChannelStep, PTL DEF ChannelSpec

-----------------------------------------------------------------------------
\* recv_frame returns only frames within its limit.
LEMMA TakesAcceptable ==
  ASSUME ChannelInv, TakeFrame
  PROVE  recv_buffer[1][1] \in Frame /\ PayloadLength[recv_buffer[1][1]] <= kMaxFramePayload
<1>1. PICK f \in Frame: recv_buffer = Wire(f)
  BY DEF TakeFrame, validate_frame
<1>2. /\ Size(f) \in Nat /\ Size(f) >= kHeaderSize /\ kHeaderSize \in Nat /\ kHeaderSize >= 1
  BY Sizes
<1>3. /\ recv_buffer \in Seq(Byte) /\ Len(recv_buffer) = Size(f)
      /\ \A i \in 1 .. Size(f): recv_buffer[i] = <<f, i>>
  BY <1>1, WireFacts
<1>4. recv_buffer[1][1] = f
  BY <1>2, <1>3
<1>5. HeaderOf(recv_buffer) = {f}
  <2>1. Len(recv_buffer) >= kHeaderSize
    BY <1>2, <1>3
  <2>2. \A q \in 1 .. Len(recv_buffer): q <= Size(f) => recv_buffer[q] = <<f, q>>
    BY <1>3
  <2> QED
    BY <1>3, <2>1, <2>2, HeaderFacts
<1>6. \E g \in HeaderOf(recv_buffer): PayloadLength[g] <= kMaxFramePayload
  BY DEF TakeFrame, Complete, HeaderAccepted
<1> QED
  BY <1>4, <1>5, <1>6

\* Every step of the channel is a step of the queue or none: a frame is sent
\* with its first byte, lost when send_all gives up on it, and received when
\* recv_frame returns it.
LEMMA StepIsQueues ==
  ASSUME ChannelInv, ChannelInv', [ChannelNext]_channel_vars
  PROVE  [Queue!Next]_(Queue!vars)
<1> DEFINE reason == IF receiver \in {"malformed", "closed"} THEN receiver ELSE "no"
<1>0. /\ begun \in Seq(Frame) /\ received \in Seq(Frame)
      /\ received' \in Seq(Frame) /\ Len(begun) \in Nat /\ Len(received) \in Nat
  BY DEF ChannelInv, ChannelTyped
<1>1. ASSUME UNCHANGED <<begun, cut, received>>, reason' = reason
      PROVE  UNCHANGED Queue!vars
  BY <1>1 DEF Queue!vars
<1>2. ASSUME NEW s \in Sender, SendSome(s) PROVE [Queue!Next]_(Queue!vars)
  <2> DEFINE f == sender[s].frame
             k == sender[s].sent
  <2>1. /\ begun' = IF k = 0 THEN Append(begun, f) ELSE begun
        /\ UNCHANGED <<cut, receiver, received>>
    BY <1>2 DEF SendSome, receiving
  <2>2. f \in Frame
    BY <1>2, ChannelAssumption DEF SendSome, ChannelInv, ChannelTyped, OneAtATime
  <2>3. k = 0 => \A i \in 1 .. Len(begun): begun[i] # f
    BY DEF ChannelInv, OneAtATime
  <2> HIDE DEF f, k
  <2>4. CASE k = 0
    <3>1. Queue!Send(f)
      BY <2>1, <2>3, <2>4 DEF Queue!Send
    <3> QED
      BY <2>2, <3>1 DEF Queue!Next
  <2>5. CASE k # 0
    BY <1>1, <2>1, <2>5
  <2> QED
    BY <2>4, <2>5
<1>3. ASSUME NEW s \in Sender, SendEnds(s) PROVE [Queue!Next]_(Queue!vars)
  <2> DEFINE f == sender[s].frame
             whole == sender[s].sent = Len(Wire(f))
  <2>1. /\ cut' = IF whole THEN cut ELSE cut \union {f}
        /\ UNCHANGED <<begun, receiver, received>>
    BY <1>3 DEF SendEnds, receiving
  <2>2. f \in Frame
    BY <1>3, ChannelAssumption DEF SendEnds, ChannelInv, ChannelTyped, OneAtATime
  <2>3. Len(Wire(f)) = Size(f)
    BY <2>2, WireFacts
  <2>4. ~whole => \A i \in 1 .. Len(received): received[i] # f
    BY <2>3 DEF ChannelInv, Returned
  <2> HIDE DEF f, whole
  <2>5. CASE whole
    BY <1>1, <2>1, <2>5
  <2>6. CASE ~whole
    <3>1. Queue!Lose(f)
      BY <2>1, <2>4, <2>6 DEF Queue!Lose
    <3> QED
      BY <2>2, <3>1 DEF Queue!Next
  <2> QED
    BY <2>5, <2>6
<1>4. CASE TakeFrame
  <2> DEFINE f == recv_buffer[1][1]
             n == Len(received)
  <2>1. /\ received' = Append(received, f) /\ receiver = "receiving" /\ receiver' = "idle"
        /\ UNCHANGED <<begun, cut>>
    BY <1>4 DEF TakeFrame, sending
  <2>2. f \in Frame /\ PayloadLength[f] <= kMaxFramePayload
    BY <1>4, TakesAcceptable
  <2> HIDE DEF f
  <2>3. Len(received') = n + 1 /\ received'[n + 1] = f
    BY <1>0, <2>1, <2>2
  <2>4. n + 1 <= Len(begun) /\ received'[n + 1] = begun[n + 1] /\ received'[n + 1] \notin cut
    <3>1. /\ Len(received') <= Len(begun)
          /\ \A i \in 1 .. Len(received'): received'[i] = begun[i] /\ received'[i] \notin cut
      BY <2>1 DEF ChannelInv, Returned
    <3> QED
      BY <1>0, <2>3, <3>1
  <2>5. Queue!Receive
    <3>1. n < Len(begun) /\ begun[n + 1] = f /\ f \notin cut
      BY <1>0, <2>3, <2>4
    <3> QED
      BY <2>1, <2>2, <3>1 DEF Queue!Receive, Queue!Due
  <2> QED
    BY <2>5 DEF Queue!Next
<1>5. CASE Malformed
  <2>1. /\ receiver = "receiving" /\ receiver' = "malformed"
        /\ UNCHANGED <<begun, cut, received>>
    BY <1>5 DEF Malformed, sending
  <2> DEFINE f == begun[Len(received) + 1]
  <2>2. Len(received) < Len(begun) /\ (f \in cut \/ PayloadLength[f] > kMaxFramePayload)
    BY <2>1 DEF ChannelInv, MalformedHasCause
  <2>3. f \in Frame => PayloadLength[f] \in Nat /\ kMaxFramePayload \in Nat
    BY ChannelAssumption
  <2> HIDE DEF f
  <2>4. f \notin {g \in Frame: PayloadLength[g] <= kMaxFramePayload} \ cut
    BY <2>2, <2>3
  <2>5. Queue!Refuse
    BY <2>1, <2>2, <2>4 DEF Queue!Refuse, Queue!Due, f
  <2> QED
    BY <2>5 DEF Queue!Next
<1>6. CASE RecvFails
  <2>1. Queue!Close
    BY <1>6 DEF RecvFails, sending, Queue!Close
  <2> QED
    BY <2>1 DEF Queue!Next
<1>7. ASSUME NEW s \in Sender, Lock(s) \/ \E f \in Frame: Begin(s, f)
      PROVE  UNCHANGED Queue!vars
  BY <1>1, <1>7 DEF Lock, Begin, receiving
<1>8. CASE Call \/ RecvTimeout \/ ConnectionClosed \/ RecvSome \/ UNCHANGED channel_vars
  BY <1>1, <1>8 DEF Call, RecvTimeout, ConnectionClosed, RecvSome, channel_vars, sending, receiving
<1> QED
  BY <1>2, <1>3, <1>4, <1>5, <1>6, <1>7, <1>8 DEF ChannelNext, send_frame, recv_frame

\* For any number of senders, all frames and every way in which sends, receives
\* and timeouts cut the stream, Channel is the queue of FrameQueue.
THEOREM ChannelIsQueue == ChannelSpec => IsQueue
<1>1. ChannelInit => Queue!Init
  BY DEF ChannelInit, Queue!Init
<1> QED
  BY <1>1, ChannelStarts, ChannelStep, StepIsQueues, PTL
     DEF ChannelSpec, IsQueue, Queue!Spec

\* recv_frame returns whole frames, in the order in which they were sent.
THEOREM ChannelWholeAndInOrder == ChannelSpec => []WholeAndInOrder
<1>1. ChannelInv => WholeAndInOrder
  BY DEF ChannelInv, Returned, WholeAndInOrder
<1> QED
  BY <1>1, ChannelSafe, PTL

\* recv_frame reports a malformed frame only where a send was cut short or the
\* frame is over the limit.
THEOREM ChannelMalformedHasCause == ChannelSpec => []MalformedHasCause
<1>1. ChannelInv => MalformedHasCause
  BY DEF ChannelInv
<1> QED
  BY <1>1, ChannelSafe, PTL

\* recv_frame returns no frame twice.
THEOREM ChannelReturnsOnce ==
  ChannelSpec => [](\A i, j \in 1 .. Len(received): received[i] = received[j] => i = j)
<1>1. ChannelInv => \A i, j \in 1 .. Len(received): received[i] = received[j] => i = j
  BY DEF ChannelInv, ChannelTyped, Owned, Returned
<1> QED
  BY <1>1, ChannelSafe, PTL
=============================================================================
