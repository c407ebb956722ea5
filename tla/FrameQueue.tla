---------------------------- MODULE FrameQueue -----------------------------
(***************************************************************************)
(* What a channel promises the threads that use it (channel.h: "Framed     *)
(* message channel over a TcpSocket.  Handles partial reads/writes, strict *)
(* frame-size limits", recv_frame: "Reads one complete valid frame"): a    *)
(* queue in which each frame is sent once and returned at most once, in    *)
(* the order of the sends.  A send may fail and leave a part of its frame; *)
(* the receiver stops there, and never returns what follows.               *)
(***************************************************************************)
EXTENDS Naturals, Sequences

CONSTANTS
  Frame,
  Acceptable   \* the frames within the receiver's limit

VARIABLES
  sent,   \* the frames in the order in which they are sent
  lost,   \* the frames whose send failed
  got,    \* the frames returned
  ended   \* "no", or why the receiver stopped: "malformed", "closed"

vars == <<sent, lost, got, ended>>

\* The frame that the receiver is due
Due == sent[Len(got) + 1]

Send(f) ==
  /\ \A i \in 1 .. Len(sent): sent[i] # f
  /\ sent' = Append(sent, f)
  /\ UNCHANGED <<lost, got, ended>>

\* The send of a frame fails, before or after its first byte; what was
\* returned was sent whole.
Lose(f) ==
  /\ \A i \in 1 .. Len(got): got[i] # f
  /\ lost' = lost \union {f}
  /\ UNCHANGED <<sent, got, ended>>

Receive ==
  /\ ended = "no" /\ Len(got) < Len(sent) /\ Due \in Acceptable \ lost
  /\ got' = Append(got, Due)
  /\ UNCHANGED <<sent, lost, ended>>

Refuse ==
  /\ ended = "no" /\ Len(got) < Len(sent) /\ Due \notin Acceptable \ lost
  /\ ended' = "malformed"
  /\ UNCHANGED <<sent, lost, got>>

Close ==
  /\ ended = "no" /\ ended' = "closed"
  /\ UNCHANGED <<sent, lost, got>>

Init == sent = << >> /\ lost = {} /\ got = << >> /\ ended = "no"

Next == (\E f \in Frame: Send(f) \/ Lose(f)) \/ Receive \/ Refuse \/ Close

Spec == Init /\ [][Next]_vars
=============================================================================
