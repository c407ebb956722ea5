------------------------------ MODULE Launcher ------------------------------
(***************************************************************************)
(* LocalFabric (src/src/launcher/launcher.cpp): one coordinator process    *)
(* and N node processes, spawned, watched, killed, shut down and reaped by *)
(* the thread that owns them, while they exit when they like.              *)
(*                                                                         *)
(* A process is alive, dying (SIGKILL is on its way), a zombie that waits  *)
(* to be reaped, or gone.  A step is one system call on one child, or one  *)
(* request to the coordinator; a deadline may pass at the end of any turn  *)
(* of a loop that has one.                                                 *)
(***************************************************************************)
EXTENDS Naturals

CONSTANT N   \* node_count

ASSUME NodeCount == N \in Nat \ {0}

Coordinator == 0
Child == 0 .. N
Node == 1 .. N

VARIABLES
  proc,       \* the operating system's view of each process
  owned,      \* the children with a sys_pid
  reaped,     \* the children whose ChildProcess::reaped is set
  connected,  \* the nodes the coordinator lists as connected
  pc,         \* where the owner is
  k,          \* the child at which its loop is
  after,      \* what follows shutdown_all: "launch", "user", "destroy"
  result,     \* of the last call that ended
  seen        \* the processes that had not exited at the last status

os == <<proc, connected>>
launcher_vars == <<os, owned, reaped, pc, k, after, result, seen>>

-----------------------------------------------------------------------------
(* System calls on one child.                                              *)

Unreaped(c) == c \in owned /\ c \notin reaped

\* Mutant: a reaped child only counts as not running.
Polled_unmarked(c) ==
  /\ proc' = [proc EXCEPT ![c] = IF Unreaped(c) /\ @ = "zombie" THEN "gone" ELSE @]
  /\ UNCHANGED reaped

\* process_running: waitpid(WNOHANG), which reaps a zombie
Polled(c) ==
  IF Unreaped(c) /\ proc[c] = "zombie"
  THEN proc' = [proc EXCEPT ![c] = "gone"] /\ reaped' = reaped \union {c}
  ELSE UNCHANGED <<proc, reaped>>

Running(c) == Unreaped(c) /\ proc[c] # "zombie"

\* terminate: SIGKILL, which a zombie ignores
terminate(c) ==
  /\ proc' = [proc EXCEPT ![c] = IF Unreaped(c) /\ @ = "alive" THEN "dying" ELSE @]
  /\ UNCHANGED reaped

Go(p, i) == pc' = p /\ k' = i

Return(r) == pc' = "up" /\ k' = 0 /\ result' = r

\* shutdown_all for a caller that goes on with a
Shutdown(a) == pc' = "ask" /\ k' = 0 /\ after' = a /\ result' = "none"

-----------------------------------------------------------------------------
(* launch.                                                                 *)

\* pick_free_port, twice: without two distinct ports there is nothing to own
PickPorts ==
  /\ pc = "ports"
  /\ Go("spawn", 0) \/ Go("destroyed", 0)
  /\ UNCHANGED <<os, owned, reaped, after, result, seen>>

\* spawn: posix_spawn of the coordinator or of the next node
Spawn ==
  /\ pc = "spawn"
  /\ proc' = [proc EXCEPT ![k] = "alive"] /\ owned' = owned \union {k}
  /\ IF k = Coordinator THEN Go("probe", 0) /\ UNCHANGED result
     ELSE IF k < N THEN Go("spawn", k + 1) /\ UNCHANGED result
     ELSE Return("launched")
  /\ UNCHANGED <<connected, reaped, after, seen>>

\* A failed spawn of a node shuts down what there is; the destructor of the
\* fabric, which runs in either case, returns at once when it owns nothing.
SpawnFails ==
  /\ pc = "spawn"
  /\ IF k = Coordinator THEN Go("destroyed", 0) /\ UNCHANGED <<after, result>>
     ELSE Shutdown("launch")
  /\ UNCHANGED <<os, owned, reaped, seen>>

\* The readiness loop: the process runs, answers a status request, and still
\* runs; an exit or the deadline ends the launch.
Probe ==
  /\ pc = "probe"
  /\ Polled(Coordinator)
  /\ IF Running(Coordinator) THEN Go("status", 0) /\ UNCHANGED <<after, result>>
     ELSE Shutdown("launch")
  /\ UNCHANGED <<connected, owned, seen>>

ProbeAnswers ==
  /\ pc = "status" /\ proc[Coordinator] = "alive" /\ Go("recheck", 0)
  /\ UNCHANGED <<os, owned, reaped, after, result, seen>>

ProbeFails ==
  /\ pc = "status" /\ Go("probe", 0)
  /\ UNCHANGED <<os, owned, reaped, after, result, seen>>

ReadyDeadline ==
  /\ pc \in {"probe", "status"} /\ Shutdown("launch")
  /\ UNCHANGED <<os, owned, reaped, seen>>

ReadyRecheck ==
  /\ pc = "recheck" /\ Polled(Coordinator)
  /\ IF Running(Coordinator) THEN Go("spawn", 1) ELSE Go("probe", 0)
  /\ UNCHANGED <<connected, owned, after, result, seen>>

-----------------------------------------------------------------------------
(* wait_registered: all processes run, one status lists every node as      *)
(* connected, and all processes still run.                                 *)

WaitRegistered ==
  /\ pc = "up"
  /\ \/ Go("check", 0) /\ result' = "none"
     \/ Return("timeout")                     \* timeout_ms <= 0
  /\ UNCHANGED <<os, owned, reaped, after, seen>>

RequireRunning ==
  /\ pc \in {"check", "checkagain", "lastcheck"} /\ Polled(k)
  /\ IF ~Running(k) THEN Return("exited")
     ELSE IF k < N THEN Go(pc, k + 1) /\ UNCHANGED result
     ELSE IF pc = "check" THEN Go("list", 0) /\ UNCHANGED result
     ELSE Return(IF pc = "lastcheck" THEN "timeout" ELSE "registered")
  /\ UNCHANGED <<connected, owned, after, seen>>

\* Mutant: the processes are not looked at again after the status.
ListNodes_trusts ==
  /\ pc = "list" /\ proc[Coordinator] = "alive"
  /\ IF connected = Node THEN Return("registered") ELSE Go("check", 0) /\ UNCHANGED result
  /\ seen' = {c \in Child: proc[c] \in {"alive", "dying"}}
  /\ UNCHANGED <<os, owned, reaped, after>>

\* The status request, after a reconnect if the last one failed
ListNodes ==
  /\ pc = "list" /\ proc[Coordinator] = "alive"
  /\ Go(IF connected = Node THEN "checkagain" ELSE "check", 0)
  /\ seen' = {c \in Child: proc[c] \in {"alive", "dying"}}
  /\ UNCHANGED <<os, owned, reaped, after, result>>

ListFails ==
  /\ pc = "list" /\ Go("check", 0)
  /\ UNCHANGED <<os, owned, reaped, after, result, seen>>

WaitDeadline ==
  /\ k = 0 /\ pc \in {"check", "list"}
  /\ Go("lastcheck", 0)
  /\ UNCHANGED <<os, owned, reaped, after, result, seen>>

-----------------------------------------------------------------------------
(* kill_node_by_label: terminate, then wait_process until a deadline.      *)

KillNode(n) ==
  /\ pc = "up" /\ terminate(n) /\ Go("killed", n) /\ result' = "none"
  /\ UNCHANGED <<connected, owned, after, seen>>

WaitKilled ==
  /\ pc = "killed" /\ Polled(k)
  /\ IF Running(k) THEN Return("timeout") \/ UNCHANGED <<pc, k, result>>
     ELSE Return("killed")
  /\ UNCHANGED <<connected, owned, after, seen>>

-----------------------------------------------------------------------------
(* shutdown_all and the destructor.                                        *)

\* By the user or, as the last thing, by the destructor
CallShutdown(a) ==
  /\ pc = "up" /\ Shutdown(a)
  /\ UNCHANGED <<os, owned, reaped, seen>>

\* A coordinator that runs is asked to stop, and may answer or not.
AskCoordinator ==
  /\ pc = "ask" /\ Polled(Coordinator) /\ Go("poll", 0)
  /\ UNCHANGED <<connected, owned, after, result, seen>>

\* Mutant: the coordinator is taken to be the last to exit.
AllReaped_last == owned # {} => Coordinator \in reaped

\* all_reaped, and confirmed == total
AllReaped == \A c \in owned: c \in reaped

\* poll_all, one child at a time: turns until all are reaped or a deadline
\* passes, and one more
PollOne ==
  /\ pc \in {"poll", "lastpoll", "reap", "lastreap"} /\ k \in Child
  /\ Polled(k) /\ Go(pc, k + 1)
  /\ UNCHANGED <<connected, owned, after, result, seen>>

PollAgain ==
  /\ pc \in {"poll", "reap"} /\ k > N /\ ~AllReaped /\ Go(pc, 0)
  /\ UNCHANGED <<os, owned, reaped, after, result, seen>>

PollEnds ==
  /\ k > N
  /\ \/ pc = "poll" /\ Go("lastpoll", 0)
     \/ pc = "lastpoll" /\ Go("terminate", 0)
     \/ pc = "reap" /\ Go("lastreap", 0)
  /\ UNCHANGED <<os, owned, reaped, after, result, seen>>

\* Mutant: once the coordinator is gone its nodes are left to follow it.
TerminateOne_follow ==
  /\ pc = "terminate"
  /\ IF Coordinator \in reaped THEN UNCHANGED <<proc, reaped>> ELSE terminate(k)
  /\ IF k < N THEN Go("terminate", k + 1) ELSE Go("reap", 0)
  /\ UNCHANGED <<connected, owned, after, result, seen>>

\* terminate_one for every child that was not reaped
TerminateOne ==
  /\ pc = "terminate"
  /\ terminate(k)
  /\ IF k < N THEN Go("terminate", k + 1) ELSE Go("reap", 0)
  /\ UNCHANGED <<connected, owned, after, result, seen>>

\* The count of confirmed exits is the result; a launch that failed returns,
\* and its fabric is destroyed.
ShutdownReturns ==
  /\ pc = "lastreap" /\ k > N
  /\ result' = IF AllReaped THEN "confirmed" ELSE "unconfirmed"
  /\ CASE after = "launch" -> pc' = "ask" /\ after' = "destroy"
       [] after = "user" -> pc' = "up" /\ UNCHANGED after
       [] after = "destroy" -> pc' = "destroyed" /\ UNCHANGED after
  /\ k' = 0
  /\ UNCHANGED <<os, owned, reaped, seen>>

-----------------------------------------------------------------------------
(* The processes.                                                          *)

Owner == <<owned, reaped, pc, k, after, result, seen>>

\* A process ends: asked to, by itself, or by the signal.
Exits(c) ==
  /\ proc[c] \in {"alive", "dying"} /\ proc' = [proc EXCEPT ![c] = "zombie"]
  /\ UNCHANGED <<connected, Owner>>

\* A node registers; the coordinator learns of a loss in its own time.
Registers(n) ==
  /\ proc[n] = "alive" /\ proc[Coordinator] = "alive" /\ n \notin connected
  /\ connected' = connected \union {n} /\ UNCHANGED <<proc, Owner>>

LossNoticed(n) ==
  /\ n \in connected /\ proc[n] # "alive" /\ proc[Coordinator] = "alive"
  /\ connected' = connected \ {n} /\ UNCHANGED <<proc, Owner>>

-----------------------------------------------------------------------------
LauncherInit ==
  /\ proc = [c \in Child |-> "none"] /\ connected = {}
  /\ owned = {} /\ reaped = {} /\ pc = "ports" /\ k = 0
  /\ after = "user" /\ result = "none" /\ seen = {}

launch == PickPorts \/ Spawn \/ SpawnFails \/ Probe \/ ProbeAnswers \/ ProbeFails \/ ReadyDeadline
          \/ ReadyRecheck

wait_registered == RequireRunning \/ ListNodes \/ ListFails \/ WaitDeadline

shutdown_all ==
  AskCoordinator \/ PollOne \/ PollAgain \/ PollEnds \/ TerminateOne \/ ShutdownReturns

LauncherNext ==
  \/ launch \/ wait_registered \/ WaitKilled \/ shutdown_all
  \/ WaitRegistered \/ \E n \in Node: KillNode(n) \/ \E a \in {"user", "destroy"}: CallShutdown(a)
  \/ \E c \in Child: Exits(c)
  \/ \E n \in Node: Registers(n) \/ LossNoticed(n)
  \/ pc = "destroyed" /\ UNCHANGED launcher_vars

LauncherSpec == LauncherInit /\ [][LauncherNext]_launcher_vars

-----------------------------------------------------------------------------
(* Properties.                                                             *)

\* "Guarantees zero orphaned processes on shutdown": whatever step of launch
\* failed and whatever the caller did, a destroyed fabric leaves no process
\* that runs and has not been sent SIGKILL.
NoOrphans == pc = "destroyed" => \A c \in Child: proc[c] # "alive"

\* The pid of a child is signalled and waited for only while the child has
\* it: what the system has taken back is marked as reaped.
PidsAreOurs ==
  \A c \in Child: /\ Unreaped(c) => proc[c] \notin {"none", "gone"}
                  /\ c \in reaped => proc[c] = "gone"

\* "Returns the number of processes confirmed gone": when shutdown_all has
\* confirmed every child, every child is gone.
ConfirmedGone == result = "confirmed" => \A c \in Child: proc[c] \in {"none", "gone"}

\* wait_registered succeeds only if no process had exited when the status
\* listed every node: the stale entry of a dead node does not count.
RegisteredAlive == result = "registered" => seen = Child
=============================================================================
