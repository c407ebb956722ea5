------------------------------- MODULE Socket -------------------------------
(***************************************************************************)
(* The lifetime of a descriptor (SocketState, src/src/net/socket.cpp):     *)
(* threads use it in send, recv or accept while others close it.  A number *)
(* that has been given back may be that of another socket at once, so no   *)
(* thread may use or close it then.                                        *)
(***************************************************************************)
EXTENDS Naturals, FiniteSets

CONSTANTS
  User,     \* threads that send, receive or accept
  Closer,   \* threads that call close, destructors included
  Unblock   \* whether close shuts the socket down first: TRUE for a TcpSocket

ASSUME SocketAssumption == IsFiniteSet(User) /\ Unblock \in BOOLEAN

VARIABLES
  handle,             \* whether SocketState::handle is valid
  closing,
  active_operations,
  fd,                 \* the system's side: "open", "shut" or "closed"
  user,               \* [User -> where the thread is]
  closer              \* [Closer -> where the thread is]

socket_vars == <<handle, closing, active_operations, fd, user, closer>>

-----------------------------------------------------------------------------
(* ActiveSocketOperation.                                                  *)

\* Mutant: a socket that is being closed can still be used.
Acquire_closing(t) ==
  /\ user[t] = "idle"
  /\ IF ~handle THEN UNCHANGED <<user, active_operations>>
     ELSE user' = [user EXCEPT ![t] = "using"] /\ active_operations' = active_operations + 1
  /\ UNCHANGED <<handle, closing, fd, closer>>

\* The constructor, under the lock; a closing or closed socket is refused.
Acquire(t) ==
  /\ user[t] = "idle"
  /\ IF closing \/ ~handle THEN UNCHANGED <<user, active_operations>>
     ELSE user' = [user EXCEPT ![t] = "using"] /\ active_operations' = active_operations + 1
  /\ UNCHANGED <<handle, closing, fd, closer>>

\* The system call returns: bytes, its timeout, or the end of the connection.
CallReturns(t) ==
  /\ user[t] = "using" /\ user' = [user EXCEPT ![t] = "leaving"]
  /\ UNCHANGED <<handle, closing, active_operations, fd, closer>>

\* The destructor, under the lock
Release(t) ==
  /\ user[t] = "leaving" /\ user' = [user EXCEPT ![t] = "idle"]
  /\ active_operations' = active_operations - 1
  /\ UNCHANGED <<handle, closing, fd, closer>>

-----------------------------------------------------------------------------
(* close_state.                                                            *)

\* Mutant: every closer goes on.
Close_again(c) ==
  /\ closer[c] = "idle"
  /\ closer' = [closer EXCEPT ![c] = IF ~handle THEN "done" ELSE "shutdown"]
  /\ closing' = (closing \/ handle)
  /\ UNCHANGED <<handle, active_operations, fd, user>>

\* The first closer goes on; others wait for it.
Close(c) ==
  /\ closer[c] = "idle"
  /\ closer' = [closer EXCEPT ![c] = IF ~handle THEN "done" ELSE IF closing THEN "waiting" ELSE "shutdown"]
  /\ closing' = (closing \/ handle)
  /\ UNCHANGED <<handle, active_operations, fd, user>>

\* Outside the lock
native_shutdown(c) ==
  /\ closer[c] = "shutdown" /\ closer' = [closer EXCEPT ![c] = "drain"]
  /\ fd' = IF Unblock THEN "shut" ELSE fd
  /\ UNCHANGED <<handle, closing, active_operations, user>>

\* Once no operation is active, under the lock
native_close(c) ==
  /\ closer[c] = "drain" /\ active_operations = 0
  /\ fd' = "closed" /\ handle' = FALSE /\ closing' = FALSE
  /\ closer' = [closer EXCEPT ![c] = "done"]
  /\ UNCHANGED <<active_operations, user>>

Waited(c) ==
  /\ closer[c] = "waiting" /\ ~handle /\ closer' = [closer EXCEPT ![c] = "done"]
  /\ UNCHANGED <<handle, closing, active_operations, fd, user>>

-----------------------------------------------------------------------------
SocketInit ==
  /\ handle = TRUE /\ closing = FALSE /\ active_operations = 0 /\ fd = "open"
  /\ user = [t \in User |-> "idle"] /\ closer = [c \in Closer |-> "idle"]

SocketNext ==
  \/ \E t \in User: Acquire(t) \/ CallReturns(t) \/ Release(t)
  \/ \E c \in Closer: Close(c) \/ native_shutdown(c) \/ native_close(c) \/ Waited(c)

SocketSpec == SocketInit /\ [][SocketNext]_socket_vars

\* Every system call has a timeout; a thread that closes goes on when it can.
FairSocketSpec ==
  /\ SocketSpec
  /\ \A t \in User: WF_socket_vars(CallReturns(t) \/ Release(t))
  /\ \A c \in Closer: WF_socket_vars(native_shutdown(c) \/ native_close(c) \/ Waited(c))

-----------------------------------------------------------------------------
(* Properties.                                                             *)

\* No thread is in a system call on a descriptor that has been given back, and
\* none is about to shut down or close one: at most one closes it, once.
DescriptorIsOurs ==
  /\ (\E t \in User: user[t] = "using") \/ (\E c \in Closer: closer[c] \in {"shutdown", "drain"})
       => fd # "closed"
  /\ \A c, d \in Closer: closer[c] \in {"shutdown", "drain"} /\ closer[d] \in {"shutdown", "drain"}
       => c = d

\* Every call of close returns, and leaves the socket closed, however many
\* threads use or close it.
CloseReturns ==
  \A c \in Closer: closer[c] # "idle" ~> closer[c] = "done" /\ fd = "closed"
=============================================================================
