------------------------------ MODULE Channel ------------------------------
(***************************************************************************)
(* Frames over a byte stream (src/src/net/channel.cpp, send_all and        *)
(* recv_some of src/src/net/socket.cpp, src/src/protocol/frame.cpp).       *)
(* Several threads send on one channel under send_mu_, in chunks and with  *)
(* a timeout that may cut a frame short; one thread receives, in chunks    *)
(* and with a timeout that may fall in the middle of a frame.              *)
(*                                                                         *)
(* A byte is a frame and a position in it.  The checksums are taken to     *)
(* tell every mixture of frames from a frame.                              *)
(***************************************************************************)
EXTENDS Naturals, Sequences, Functions

CONSTANTS
  Frame, Sender,
  kHeaderSize,
  PayloadLength,      \* [Frame -> Nat]
  kMaxFramePayload,   \* the receiver's limit
  MayTimeOut,         \* whether a send may time out
  None

ASSUME ChannelAssumption ==
  /\ kHeaderSize \in Nat \ {0} /\ PayloadLength \in [Frame -> Nat] /\ kMaxFramePayload \in Nat
  /\ MayTimeOut \in BOOLEAN /\ None \notin Frame \union Sender

VARIABLES
  todo,       \* frames that no thread has begun to send
  sender,     \* [Sender -> [frame, sent]]: bytes of its frame sent so far
  send_mu,    \* the sender that holds send_mu_, or None
  stream,     \* bytes under way
  open,       \* whether the connection is open
  receiver,   \* where the receiving thread is
  recv_buffer,
  received,   \* frames that recv_frame has returned
  begun, cut  \* history: frames in the order of their first byte; cut short

sending == <<todo, sender, send_mu, begun, cut>>
receiving == <<receiver, recv_buffer, received>>
channel_vars == <<sending, receiving, stream, open>>

\* make_frame and encode_header: a header, then the payload
Wire(f) == [i \in 1 .. kHeaderSize + PayloadLength[f] |-> <<f, i>>]

-----------------------------------------------------------------------------
(* send_frame.                                                             *)

Idle == [frame |-> None, sent |-> 0]

Begin(s, f) ==
  /\ sender[s] = Idle /\ f \in todo
  /\ sender' = [sender EXCEPT ![s] = [frame |-> f, sent |-> 0]] /\ todo' = todo \ {f}
  /\ UNCHANGED <<send_mu, begun, cut, stream, open, receiving>>

\* lock_guard(send_mu_)
Lock(s) ==
  /\ sender[s].frame # None /\ send_mu = None /\ send_mu' = s
  /\ UNCHANGED <<todo, sender, begun, cut, stream, open, receiving>>

\* send: the system takes n bytes of what is left
SendSome(s) ==
  /\ send_mu = s /\ open
  /\ LET f == sender[s].frame
         k == sender[s].sent
     IN  \E n \in 1 .. Len(Wire(f)) - k:
           /\ stream' = stream \o SubSeq(Wire(f), k + 1, k + n)
           /\ sender' = [sender EXCEPT ![s] = [frame |-> f, sent |-> k + n]]
           /\ begun' = IF k = 0 THEN Append(begun, f) ELSE begun
  /\ UNCHANGED <<todo, send_mu, cut, open, receiving>>

\* send_all returns: all is sent, the deadline passed, or the connection is
\* closed.  A frame that is cut short leaves the connection as it is.
SendEnds(s) ==
  /\ send_mu = s
  /\ LET whole == sender[s].sent = Len(Wire(sender[s].frame))
     IN  /\ whole \/ MayTimeOut \/ ~open
         /\ cut' = IF whole THEN cut ELSE cut \union {sender[s].frame}
  /\ sender' = [sender EXCEPT ![s] = Idle] /\ send_mu' = None
  /\ UNCHANGED <<todo, begun, stream, open, receiving>>

-----------------------------------------------------------------------------
(* recv_frame.                                                             *)

\* decode_header: the frame whose header the buffer starts with, if any
HeaderOf(b) == {f \in Frame: SubSeq(b, 1, kHeaderSize) = SubSeq(Wire(f), 1, kHeaderSize)}

HasHeader == Len(recv_buffer) >= kHeaderSize

\* What the header promises
required_size ==
  IF ~HasHeader THEN kHeaderSize
  ELSE kHeaderSize + PayloadLength[CHOOSE f \in HeaderOf(recv_buffer): TRUE]

\* There is no header yet, or one within the limit
HeaderAccepted == HasHeader => \E f \in HeaderOf(recv_buffer): PayloadLength[f] <= kMaxFramePayload

Complete == HasHeader /\ HeaderAccepted /\ Len(recv_buffer) = required_size

Call ==
  /\ receiver = "idle" /\ receiver' = "receiving"
  /\ UNCHANGED <<sending, stream, open, recv_buffer, received>>

\* Mutant: the buffer is not taken into account.
RecvSome_whole ==
  /\ receiver = "receiving" /\ HeaderAccepted /\ ~Complete
  /\ \E n \in 1 .. Len(stream):
       /\ n <= required_size
       /\ recv_buffer' = recv_buffer \o SubSeq(stream, 1, n)
       /\ stream' = SubSeq(stream, n + 1, Len(stream))
  /\ UNCHANGED <<sending, open, receiver, received>>

\* recv_some: at most what is missing of the header, or of the frame
RecvSome ==
  /\ receiver = "receiving" /\ HeaderAccepted
  /\ \E n \in 1 .. Len(stream):
       /\ Len(recv_buffer) + n <= required_size
       /\ recv_buffer' = recv_buffer \o SubSeq(stream, 1, n)
       /\ stream' = SubSeq(stream, n + 1, Len(stream))
  /\ UNCHANGED <<sending, open, receiver, received>>

\* Mutant: what was read of a frame is dropped.
RecvTimeout_drops ==
  /\ receiver = "receiving" /\ HeaderAccepted /\ ~Complete
  /\ receiver' = "idle" /\ recv_buffer' = << >>
  /\ UNCHANGED <<sending, stream, open, received>>

\* The timeout leaves what was read for the next call.
RecvTimeout ==
  /\ receiver = "receiving" /\ HeaderAccepted /\ ~Complete /\ receiver' = "idle"
  /\ UNCHANGED <<sending, stream, open, recv_buffer, received>>

\* Mutant: the payload is not checked.
validate_frame_header(b) == HeaderOf(b) # {}

validate_frame(b) == \E f \in Frame: b = Wire(f)

\* A whole frame is returned if its checksum is right.
TakeFrame ==
  /\ receiver = "receiving" /\ Complete /\ validate_frame(recv_buffer)
  /\ received' = Append(received, recv_buffer[1][1]) /\ recv_buffer' = << >> /\ receiver' = "idle"
  /\ UNCHANGED <<sending, stream, open>>

\* A bad header or payload: every caller closes the channel.
Malformed ==
  /\ receiver = "receiving"
  /\ HeaderAccepted => Complete /\ ~validate_frame(recv_buffer)
  /\ receiver' = "malformed" /\ recv_buffer' = << >> /\ open' = FALSE
  /\ UNCHANGED <<sending, stream, received>>

\* The peer or the network closes the connection; what came before can be
\* read, and then recv_frame fails.
ConnectionClosed ==
  /\ open /\ open' = FALSE
  /\ UNCHANGED <<sending, stream, receiving>>

RecvFails ==
  /\ receiver = "receiving" /\ ~open /\ stream = << >> /\ HeaderAccepted /\ ~Complete
  /\ receiver' = "closed" /\ recv_buffer' = << >>
  /\ UNCHANGED <<sending, stream, open, received>>

-----------------------------------------------------------------------------
ChannelInit ==
  /\ todo = Frame /\ sender = [s \in Sender |-> Idle] /\ send_mu = None
  /\ stream = << >> /\ open = TRUE
  /\ receiver = "idle" /\ recv_buffer = << >> /\ received = << >> /\ begun = << >> /\ cut = {}

send_frame(s) == Lock(s) \/ SendSome(s) \/ SendEnds(s)

recv_frame == RecvSome \/ TakeFrame \/ Malformed \/ RecvFails

ChannelNext ==
  \/ \E s \in Sender: send_frame(s) \/ \E f \in Frame: Begin(s, f)
  \/ Call \/ recv_frame \/ RecvTimeout
  \/ ConnectionClosed

ChannelSpec == ChannelInit /\ [][ChannelNext]_channel_vars

\* Threads run, and a receiver calls again.  The lock goes round, and a call
\* that finds bytes takes them, so that timeouts cannot hold these steps back
\* for ever.  Nothing obliges a send to time out or a connection to close.
FairChannelSpec ==
  /\ ChannelSpec /\ WF_channel_vars(Call) /\ SF_channel_vars(recv_frame)
  /\ \A s \in Sender: SF_channel_vars(send_frame(s))

-----------------------------------------------------------------------------
(* Properties.                                                             *)

\* The receiver returns frames that were sent whole, in the order in which
\* they were sent, whatever was cut short and wherever timeouts fell.
WholeAndInOrder ==
  /\ Len(received) <= Len(begun)
  /\ \A i \in 1 .. Len(received): received[i] = begun[i] /\ received[i] \notin cut

\* The receiver finds a malformed frame only if the next frame it is due, the
\* first that it has not returned, was cut short or is over the limit: neither
\* several senders nor timeouts of the receiver confuse the stream.
MalformedHasCause ==
  receiver = "malformed" =>
    /\ Len(received) < Len(begun)
    /\ LET f == begun[Len(received) + 1]
       IN  f \in cut \/ PayloadLength[f] > kMaxFramePayload

\* The channel is the queue of FrameQueue: a frame enters it with its first
\* byte, and every step of the senders, of the receiver and of the network is a
\* step of the queue or none.
Queue ==
  INSTANCE FrameQueue WITH
    Acceptable <- {f \in Frame: PayloadLength[f] <= kMaxFramePayload},
    sent <- begun,
    lost <- cut,
    got <- received,
    ended <- IF receiver \in {"malformed", "closed"} THEN receiver ELSE "no"

IsQueue == Queue!Spec

\* Every frame that a thread begins to send is received, unless the
\* connection closes or a send is cut short.
Delivered ==
  \A f \in Frame: f \notin todo ~> f \in Range(received) \/ ~open \/ cut # {}
=============================================================================
