------------------------- MODULE NodeRuntimeProofs -------------------------
(***************************************************************************)
(* For every set of attempts and workers, every bound of the two queues    *)
(* and every way kernels end: what the coordinator is told about an        *)
(* attempt, and which cancellation tokens the runtime keeps.               *)
(*                                                                         *)
(* The argument: an attempt is in one place at a time, with the reader, in *)
(* the executor's queue, with one worker, in the completion queue or with  *)
(* the completion thread, and its place says what has been sent about it.  *)
(***************************************************************************)
EXTENDS NodeRuntime, SequenceTheorems, TLAPS

Idle(pcs) == [pc: pcs, item: {None}]
Busy(pcs) == [pc: pcs, item: Attempt]
Said == Terminal \union {"Started", "Release"}
Message == [report: Said, fate: {"arrived", "timed out", "lost"}]

ReaderState == Idle({"recv", "exit"}) \union Busy({"enqueue", "refuse", "release"})
CompletionState == Idle({"wait", "exit"}) \union Busy({"report", "release"})
WorkerState == Idle({"idle", "exit"}) \union Busy({"start", "test", "run", "report"})

Typed ==
  /\ reader \in ReaderState /\ completion \in CompletionState
  /\ worker \in [Worker -> WorkerState]
  /\ queue \in Seq(Attempt) /\ comp_queue \in Seq(Attempt)
  /\ active_tokens \subseteq Attempt /\ given \subseteq Attempt
  /\ outcome \in [Attempt -> Terminal \union {"None"}]
  /\ wire \in [Attempt -> Seq(Message)]

-----------------------------------------------------------------------------
(* Places.                                                                 *)

Queued == Range(queue)
Completed == Range(comp_queue)
Executing(w, a) == worker[w].item = a

\* An attempt is in one place at most, and nowhere before it is dispatched.
PlaceOf(a) ==
  /\ reader.item = a => a \in given \ (Queued \union Completed \union {completion.item})
  /\ a \in Queued => a \in given \ (Completed \union {completion.item})
  /\ a \in Completed => a \in given \ {completion.item}
  /\ completion.item = a => a \in given
  /\ \A w \in Worker: Executing(w, a) =>
       /\ a \in given \ (Queued \union Completed \union {reader.item, completion.item})
       /\ \A v \in Worker: Executing(v, a) => v = w

OnePlace ==
  /\ IsInjective(queue) /\ IsInjective(comp_queue)
  /\ \A a \in Attempt: PlaceOf(a)

-----------------------------------------------------------------------------
(* Tokens.                                                                 *)

Tokens ==
  main \notin {"stopped", "exit"} =>
    /\ active_tokens \subseteq given
    /\ reader.pc = "enqueue" => reader.item \in active_tokens
    /\ reader.pc \in {"refuse", "release"} => reader.item \notin active_tokens
    /\ Queued \subseteq active_tokens
    /\ \A w \in Worker: worker[w].item # None => worker[w].item \in active_tokens
    /\ \A a \in active_tokens:
         \/ a \in Queued \/ a \in Completed \/ reader.item = a
         \/ \E w \in Worker: Executing(w, a)

-----------------------------------------------------------------------------
(* Reports.                                                                *)

\* The messages s are the reports t.
Says(s, t) == Len(s) = Len(t) /\ \A i \in 1 .. Len(t): s[i].report = t[i]

InOrder(s) ==
  \E o \in Terminal: Follows(s, <<"Started", o, "Release">>) \/ Follows(s, <<"Failed", "Release">>)

Fresh(a) == Says(wire[a], << >>)
Begun(a) == Says(wire[a], <<"Started">>)
Ended(a) == Begun(a) /\ outcome[a] \in Terminal
Told(a) == Says(wire[a], <<"Started", outcome[a]>>) /\ outcome[a] \in Terminal
Refused(a) == Says(wire[a], <<"Failed">>)

InTurn == \A a \in Attempt: InOrder(wire[a])

ReportedOf(a) ==
  /\ a \notin given => Fresh(a)
  /\ reader.item = a /\ reader.pc \in {"enqueue", "refuse"} => Fresh(a)
  /\ reader.item = a /\ reader.pc = "release" => Refused(a)
  /\ a \in Queued => Fresh(a)
  /\ \A w \in Worker: Executing(w, a) =>
       /\ worker[w].pc = "start" => Fresh(a)
       /\ worker[w].pc \in {"test", "run"} => Begun(a)
       /\ worker[w].pc = "report" => Ended(a)
  /\ a \in Completed => Ended(a)
  /\ completion.item = a /\ completion.pc = "report" => Ended(a)
  /\ completion.item = a /\ completion.pc = "release" => Told(a)

Reported == \A a \in Attempt: ReportedOf(a)

IInv == Typed /\ OnePlace /\ Tokens /\ InTurn /\ Reported

-----------------------------------------------------------------------------
(* Lemmas about sequences and reports.                                     *)

\* A thread's record, by where it is and what it holds.
LEMMA States ==
  /\ \A p, a: At(p, a).pc = p /\ At(p, a).item = a
  /\ At("recv", None) \in ReaderState /\ At("exit", None) \in ReaderState
  /\ At("wait", None) \in CompletionState /\ At("exit", None) \in CompletionState
  /\ At("idle", None) \in WorkerState /\ At("exit", None) \in WorkerState
  /\ \A a \in Attempt:
       /\ \A p \in {"enqueue", "refuse", "release"}: At(p, a) \in ReaderState
       /\ \A p \in {"report", "release"}: At(p, a) \in CompletionState
       /\ \A p \in {"start", "test", "run", "report"}: At(p, a) \in WorkerState
BY DEF At, ReaderState, CompletionState, WorkerState, Idle, Busy

\* What a thread holds, by where it is.
LEMMA Holds ==
  ASSUME Typed
  PROVE  /\ \/ reader.pc \in {"recv", "exit"} /\ reader.item = None
            \/ reader.pc \in {"enqueue", "refuse", "release"} /\ reader.item \in Attempt
         /\ \/ completion.pc \in {"wait", "exit"} /\ completion.item = None
            \/ completion.pc \in {"report", "release"} /\ completion.item \in Attempt
         /\ \A w \in Worker:
              /\ \/ worker[w].pc \in {"idle", "exit"} /\ worker[w].item = None
                 \/ worker[w].pc \in {"start", "test", "run", "report"} /\ worker[w].item \in Attempt
              /\ \A p: [worker EXCEPT ![w].pc = p] = [worker EXCEPT ![w] = At(p, worker[w].item)]
<1>1. \A r \in ReaderState:
        \/ r.pc \in {"recv", "exit"} /\ r.item = None
        \/ r.pc \in {"enqueue", "refuse", "release"} /\ r.item \in Attempt
  BY DEF ReaderState, Idle, Busy
<1>2. \A r \in CompletionState:
        \/ r.pc \in {"wait", "exit"} /\ r.item = None
        \/ r.pc \in {"report", "release"} /\ r.item \in Attempt
  BY DEF CompletionState, Idle, Busy
<1>3. \A r \in WorkerState:
        /\ \/ r.pc \in {"idle", "exit"} /\ r.item = None
           \/ r.pc \in {"start", "test", "run", "report"} /\ r.item \in Attempt
        /\ \A p: [r EXCEPT !.pc = p] = At(p, r.item)
  BY DEF WorkerState, Idle, Busy, At
<1>4. ASSUME NEW w \in Worker, NEW p
      PROVE  [worker EXCEPT ![w].pc = p] = [worker EXCEPT ![w] = At(p, worker[w].item)]
  <2>1. worker[w] \in WorkerState
    BY DEF Typed
  <2>2. [worker[w] EXCEPT !.pc = p] = At(p, worker[w].item)
    BY <1>3, <2>1
  <2> QED
    BY <2>2, Zenon
<1> QED
  BY <1>1, <1>2, <1>3, <1>4, Zenon DEF Typed

\* One worker moves.
LEMMA WorkerMoves ==
  ASSUME Typed, NEW w \in Worker, NEW p, NEW a, At(p, a) \in WorkerState,
         worker' = [worker EXCEPT ![w] = At(p, a)]
  PROVE  /\ worker' \in [Worker -> WorkerState] /\ worker'[w].pc = p /\ worker'[w].item = a
         /\ \A v \in Worker \ {w}: worker'[v] = worker[v]
<1>1. worker'[w] = At(p, a)
  BY DEF Typed
<1> QED
  BY <1>1, States DEF Typed

\* What a queue holds after a push.
LEMMA Pushed ==
  ASSUME NEW s \in Seq(Attempt), NEW e \in Attempt
  PROVE  /\ Append(s, e) \in Seq(Attempt) /\ Range(Append(s, e)) = Range(s) \union {e}
         /\ IsInjective(s) /\ e \notin Range(s) => IsInjective(Append(s, e))
<1> DEFINE t == Append(s, e)
           n == Len(s)
<1>1. /\ t \in Seq(Attempt) /\ n \in Nat /\ Len(t) = n + 1 /\ t[n + 1] = e
      /\ \A i \in 1 .. n: t[i] = s[i]
  BY AppendProperties, LenProperties
<1>2. DOMAIN s = 1 .. n /\ DOMAIN t = 1 .. n + 1
  BY <1>1, LenProperties
<1> HIDE DEF t, n
<1>3. \A i \in 1 .. n + 1: i \in 1 .. n \/ i = n + 1
  BY <1>1
<1>4. Range(t) = Range(s) \union {e}
  <2>1. \A x \in Range(t): x \in Range(s) \union {e}
    BY <1>1, <1>2, <1>3 DEF Range
  <2>2. \A x \in Range(s) \union {e}: x \in Range(t)
    <3>1. \A i \in 1 .. n: i \in 1 .. n + 1
      BY <1>1
    <3>2. n + 1 \in 1 .. n + 1
      BY <1>1
    <3> QED
      BY <1>1, <1>2, <3>1, <3>2 DEF Range
  <2> QED
    BY <2>1, <2>2
<1>5. IsInjective(s) /\ e \notin Range(s) => IsInjective(t)
  BY <1>1, <1>2, <1>3 DEF IsInjective, Range
<1> QED
  BY <1>1, <1>4, <1>5 DEF t

\* What a queue without repetition holds after a pop.
LEMMA Popped ==
  ASSUME NEW s \in Seq(Attempt), s # << >>, IsInjective(s)
  PROVE  /\ Head(s) \in Attempt /\ Head(s) \in Range(s) /\ Tail(s) \in Seq(Attempt)
         /\ Range(Tail(s)) = Range(s) \ {Head(s)} /\ IsInjective(Tail(s))
<1> DEFINE t == Tail(s)
           n == Len(s)
<1>1. /\ t \in Seq(Attempt) /\ n \in Nat \ {0} /\ Len(t) = n - 1 /\ Head(s) = s[1]
      /\ \A i \in 1 .. n - 1: t[i] = s[i + 1]
  BY HeadTailProperties, EmptySeq
<1>2. DOMAIN s = 1 .. n /\ DOMAIN t = 1 .. n - 1 /\ Head(s) \in Attempt
  BY <1>1, LenProperties, HeadTailProperties
<1> HIDE DEF t, n
<1>3. /\ 1 \in 1 .. n /\ \A i \in 1 .. n - 1: i + 1 \in 1 .. n /\ i + 1 # 1
      /\ \A i \in 1 .. n: i = 1 \/ (i - 1 \in 1 .. n - 1 /\ (i - 1) + 1 = i)
  BY <1>1
<1>4. Range(t) = Range(s) \ {Head(s)}
  <2>1. \A x \in Range(t): x \in Range(s) /\ x # s[1]
    BY <1>1, <1>2, <1>3, SMTT(30) DEF Range, IsInjective
  <2>2. \A x \in Range(s) \ {s[1]}: x \in Range(t)
    <3> SUFFICES ASSUME NEW i \in 1 .. n, i # 1 PROVE s[i] \in Range(t)
      BY <1>2 DEF Range
    <3>1. i - 1 \in 1 .. n - 1 /\ t[i - 1] = s[i]
      BY <1>1, <1>3
    <3> QED
      BY <1>2, <3>1 DEF Range
  <2> QED
    BY <1>1, <2>1, <2>2
<1>5. IsInjective(t)
  <2> SUFFICES ASSUME NEW i \in 1 .. n - 1, NEW j \in 1 .. n - 1, t[i] = t[j] PROVE i = j
    BY <1>2 DEF IsInjective
  <2>1. i + 1 = j + 1
    BY <1>1, <1>2, <1>3, Zenon DEF IsInjective
  <2> QED
    BY <2>1, <1>1
<1>6. Head(s) \in Range(s)
  BY <1>1, <1>2, <1>3 DEF Range
<1> QED
  BY <1>1, <1>2, <1>4, <1>5, <1>6 DEF t

\* The reports of each kind of attempt, as far as they have come.
LEMMA Orders ==
  ASSUME NEW s \in Seq(Message), NEW o \in Terminal
  PROVE  \/ Says(s, << >>) \/ Says(s, <<"Started">>) \/ Says(s, <<"Started", o>>)
         \/ Says(s, <<"Started", o, "Release">>)
         \/ Says(s, <<"Failed">>) \/ Says(s, <<"Failed", "Release">>)
         => InOrder(s)
<1> DEFINE t == <<"Started", o, "Release">>
           u == <<"Failed", "Release">>
<1>1. Says(s, << >>) => Follows(s, t)
  BY DEF Says, Follows
<1>2. Says(s, <<"Started">>) => Follows(s, t)
  BY DEF Says, Follows
<1>3. Says(s, <<"Started", o>>) => Follows(s, t)
  BY DEF Says, Follows
<1>4. Says(s, t) => Follows(s, t)
  BY DEF Says, Follows
<1>5. Says(s, <<"Failed">>) => Follows(s, u)
  BY DEF Says, Follows
<1>6. Says(s, u) => Follows(s, u)
  BY DEF Says, Follows
<1> QED
  BY <1>1, <1>2, <1>3, <1>4, <1>5, <1>6, Zenon DEF InOrder

\* A step that reports on a, and on no other attempt: a's reports are then t.
OneMore(a, t) ==
  /\ wire' \in [Attempt -> Seq(Message)] /\ Says(wire'[a], t)
  /\ \A b \in Attempt \ {a}: wire'[b] = wire[b]

\* A send adds its report to those of its attempt, whatever becomes of it.
LEMMA Sends ==
  ASSUME Typed, NEW a \in Attempt, NEW s \in Seq(Said), NEW m \in Said,
         Says(wire[a], s), Send(a, m)
  PROVE  OneMore(a, Append(s, m))
<1> DEFINE k == Len(s)
<1>1. PICK f \in Fates: wire' = [wire EXCEPT ![a] = Append(@, [report |-> m, fate |-> f])]
  BY Zenon DEF Send
<1> DEFINE r == [report |-> m, fate |-> f]
<1>2. r \in Message /\ r.report = m
  BY <1>1, Zenon DEF Fates, Message
<1>3. wire[a] \in Seq(Message) /\ k \in Nat /\ Len(wire[a]) = k
  BY LenProperties DEF Typed, Says
<1>4. wire'[a] = Append(wire[a], r) /\ \A b \in Attempt \ {a}: wire'[b] = wire[b]
  BY <1>1 DEF Typed
<1> HIDE DEF r
<1>5. /\ wire'[a] \in Seq(Message) /\ Len(wire'[a]) = k + 1 /\ wire'[a][k + 1] = r
      /\ \A i \in 1 .. k: wire'[a][i] = wire[a][i]
  BY <1>2, <1>3, <1>4, AppendProperties
<1>6. wire' \in [Attempt -> Seq(Message)]
  BY <1>1, <1>4, <1>5 DEF Typed
<1>7. /\ Len(Append(s, m)) = k + 1 /\ Append(s, m)[k + 1] = m
      /\ \A i \in 1 .. k: Append(s, m)[i] = s[i]
  BY AppendProperties
<1>8. \A i \in 1 .. k: wire[a][i].report = s[i]
  BY DEF Says
<1> HIDE DEF k
<1>9. \A i \in 1 .. k + 1: i \in 1 .. k \/ i = k + 1
  BY <1>3
<1>10. Says(wire'[a], Append(s, m))
  BY <1>2, <1>5, <1>7, <1>8, <1>9 DEF Says
<1> QED
  BY <1>4, <1>6, <1>10 DEF OneMore

\* Sequences of up to three reports, one report after the other.
LEMMA Appends ==
  ASSUME NEW x, NEW y, NEW z
  PROVE  /\ Append(<< >>, x) = <<x>> /\ Append(<<x>>, y) = <<x, y>>
         /\ Append(<<x, y>>, z) = <<x, y, z>>
<1> DEFINE S == {x, y, z}
<1>1. /\ << >> \in Seq(S) /\ <<x>> \in Seq(S) /\ <<x, y>> \in Seq(S) /\ <<x, y, z>> \in Seq(S)
      /\ Len(<< >>) = 0 /\ Len(<<x>>) = 1 /\ Len(<<x, y>>) = 2 /\ Len(<<x, y, z>>) = 3
  OBVIOUS
<1>2. Append(<< >>, x) = <<x>>
  <2>1. /\ Append(<< >>, x) \in Seq(S) /\ Len(Append(<< >>, x)) = 1 /\ Append(<< >>, x)[1] = x
    BY <1>1, AppendProperties
  <2> QED
    BY <1>1, <2>1, SeqEqual
<1>3. Append(<<x>>, y) = <<x, y>>
  <2> DEFINE t == Append(<<x>>, y)
  <2>1. t \in Seq(S) /\ Len(t) = 2 /\ t[1] = x /\ t[2] = y
    BY <1>1, AppendProperties
  <2>2. \A i \in 1 .. 2: t[i] = <<x, y>>[i]
    BY <2>1
  <2> QED
    BY <1>1, <2>1, <2>2, SeqEqual, Zenon
<1>4. Append(<<x, y>>, z) = <<x, y, z>>
  <2> DEFINE t == Append(<<x, y>>, z)
  <2>1. t \in Seq(S) /\ Len(t) = 3 /\ t[1] = x /\ t[2] = y /\ t[3] = z
    BY <1>1, AppendProperties
  <2>2. \A i \in 1 .. 3: t[i] = <<x, y, z>>[i]
    BY <2>1
  <2> QED
    BY <1>1, <2>1, <2>2, SeqEqual, Zenon
<1> QED
  BY <1>2, <1>3, <1>4

\* The five sends, each when it is due.
LEMMA Reports ==
  ASSUME Typed, InTurn, UNCHANGED outcome, NEW a \in Attempt,
         \/ Fresh(a) /\ (Send(a, "Started") \/ Send(a, "Failed"))
         \/ Ended(a) /\ Send(a, outcome[a])
         \/ (Told(a) \/ Refused(a)) /\ Send(a, "Release")
  PROVE  /\ wire' \in [Attempt -> Seq(Message)] /\ InTurn'
         /\ \A b \in Attempt \ {a}: wire'[b] = wire[b]
         /\ Fresh(a) /\ Send(a, "Started") => Begun(a)'
         /\ Fresh(a) /\ Send(a, "Failed") => Refused(a)'
         /\ Ended(a) /\ Send(a, outcome[a]) => Told(a)'
<1>1. /\ "Started" \in Said /\ "Failed" \in Said /\ "Release" \in Said /\ "Failed" \in Terminal
      /\ \A o \in Terminal: o \in Said
  BY DEF Said, Terminal
<1>2. /\ << >> \in Seq(Said) /\ <<"Started">> \in Seq(Said) /\ <<"Failed">> \in Seq(Said)
      /\ \A o \in Terminal: <<"Started", o>> \in Seq(Said)
  BY <1>1
<1>3. Fresh(a) /\ Send(a, "Started") => OneMore(a, <<"Started">>)
  BY <1>1, <1>2, Sends, Appends, Zenon DEF Fresh
<1>4. Fresh(a) /\ Send(a, "Failed") => OneMore(a, <<"Failed">>)
  BY <1>1, <1>2, Sends, Appends, Zenon DEF Fresh
<1>5. Ended(a) /\ Send(a, outcome[a]) => OneMore(a, <<"Started", outcome[a]>>)
  BY <1>1, <1>2, Sends, Appends, Zenon DEF Ended, Begun
<1>6. Told(a) /\ Send(a, "Release") => OneMore(a, <<"Started", outcome[a], "Release">>)
  BY <1>1, <1>2, Sends, Appends, Zenon DEF Told
<1>7. Refused(a) /\ Send(a, "Release") => OneMore(a, <<"Failed", "Release">>)
  BY <1>1, <1>2, Sends, Appends, Zenon DEF Refused
<1>8. ASSUME NEW t, OneMore(a, t), NEW o \in Terminal,
             t \in {<<"Started">>, <<"Failed">>, <<"Started", o>>, <<"Started", o, "Release">>,
                   <<"Failed", "Release">>}
      PROVE  wire' \in [Attempt -> Seq(Message)] /\ InTurn' /\ \A b \in Attempt \ {a}: wire'[b] = wire[b]
  <2>1. InOrder(wire'[a])
    BY <1>8, Orders, Zenon DEF OneMore
  <2> QED
    BY <1>8, <2>1, Zenon DEF OneMore, InTurn
<1>9. OneMore(a, <<"Started">>) => Begun(a)'
  BY DEF OneMore, Begun
<1>10. OneMore(a, <<"Failed">>) => Refused(a)'
  BY DEF OneMore, Refused
<1>11. Ended(a) /\ OneMore(a, <<"Started", outcome[a]>>) => Told(a)'
  BY DEF OneMore, Told, Ended
<1>12. (Ended(a) \/ Told(a)) => outcome[a] \in Terminal
  BY DEF Ended, Told
<1>13. wire' \in [Attempt -> Seq(Message)] /\ InTurn' /\ \A b \in Attempt \ {a}: wire'[b] = wire[b]
  BY <1>1, <1>3, <1>4, <1>5, <1>6, <1>7, <1>8, <1>12, Zenon
<1> QED
  BY <1>3, <1>4, <1>5, <1>9, <1>10, <1>11, <1>13

\* What was sent about an attempt stays so while nothing more is sent about it.
LEMMA Stays ==
  ASSUME NEW a \in Attempt, wire'[a] = wire[a], outcome'[a] = outcome[a]
  PROVE  /\ Fresh(a) => Fresh(a)'
         /\ Begun(a) => Begun(a)'
         /\ Ended(a) => Ended(a)'
         /\ Told(a) => Told(a)'
         /\ Refused(a) => Refused(a)'
BY DEF Fresh, Begun, Ended, Told, Refused

-----------------------------------------------------------------------------
(* The invariant is inductive.                                             *)

\* Steps that move no attempt: threads that stop, flags, the runner, stop().
LEMMA QuietKeeps ==
  ASSUME IInv, UNCHANGED <<queue, comp_queue, given, outcome, wire>>,
         reader' = reader \/ (reader.item = None /\ reader' = At("exit", None)),
         completion' = completion \/ (completion.item = None /\ completion' = At("exit", None)),
         \/ worker' = worker
         \/ \E w \in Worker: worker[w].item = None /\ worker' = [worker EXCEPT ![w] = At("exit", None)],
         main \in {"stopped", "exit"} => main' \in {"stopped", "exit"},
         \/ UNCHANGED active_tokens
         \/ main' \in {"stopped", "exit"} /\ active_tokens' = {}
  PROVE  IInv'
<1>0. Typed /\ OnePlace /\ Tokens /\ InTurn /\ Reported
  BY DEF IInv
<1>1. /\ reader'.item = reader.item /\ (reader'.pc = reader.pc \/ reader'.pc = "exit")
      /\ completion'.item = completion.item /\ (completion'.pc = completion.pc \/ completion'.pc = "exit")
  BY States
<1>2. \A w \in Worker: /\ worker'[w].item = worker[w].item
                       /\ worker'[w].pc = worker[w].pc \/ worker'[w].pc = "exit"
  BY <1>0, States, WorkerMoves
<1>3. Queued' = Queued /\ Completed' = Completed
  BY DEF Queued, Completed
<1>4. Typed'
  <2>1. reader' \in ReaderState /\ completion' \in CompletionState
    BY <1>0, States DEF Typed
  <2>2. worker' \in [Worker -> WorkerState]
    BY <1>0, States, Zenon DEF Typed
  <2> QED
    BY <1>0, <2>1, <2>2 DEF Typed
<1>5. OnePlace'
  BY <1>0, <1>1, <1>2, <1>3 DEF OnePlace, PlaceOf, Executing
<1>6. Tokens'
  <2>1. CASE main' \in {"stopped", "exit"}
    BY <2>1 DEF Tokens
  <2>2. CASE main' \notin {"stopped", "exit"}
    BY <1>0, <1>1, <1>2, <1>3, <2>2 DEF Tokens, Executing
  <2> QED
    BY <2>1, <2>2
<1>7. InTurn'
  BY <1>0 DEF InTurn
<1>8. Reported'
  <2> SUFFICES ASSUME NEW a \in Attempt PROVE ReportedOf(a)'
    BY DEF Reported
  <2>1. /\ Fresh(a) => Fresh(a)'
        /\ Begun(a) => Begun(a)'
        /\ Ended(a) => Ended(a)'
        /\ Told(a) => Told(a)'
        /\ Refused(a) => Refused(a)'
    BY Stays
  <2> QED
    BY <1>0, <1>1, <1>2, <1>3, <2>1 DEF Reported, ReportedOf, Executing
<1> QED
  BY <1>4, <1>5, <1>6, <1>7, <1>8 DEF IInv

\* The reader takes, hands on or refuses an attempt.
LEMMA ReaderMoves ==
  ASSUME IInv, (\E a \in Attempt: handle_dispatch(a)) \/ enqueue \/ Refuse
  PROVE  IInv'
<1> USE RuntimeAssumption
<1>0. Typed /\ OnePlace /\ Tokens /\ InTurn /\ Reported
  BY DEF IInv
<1>1. UNCHANGED <<main, completion, worker, comp_queue, outcome>>
  BY DEF handle_dispatch, enqueue, Refuse, ReaderKeeps
<1>2. Completed' = Completed /\ \A w \in Worker, a \in Attempt: Executing(w, a)' <=> Executing(w, a)
  BY <1>1 DEF Completed, Executing
<1>3. ASSUME NEW a \in Attempt, wire'[a] = wire[a]
      PROVE  /\ Fresh(a) => Fresh(a)'
             /\ Begun(a) => Begun(a)'
             /\ Ended(a) => Ended(a)'
             /\ Told(a) => Told(a)'
             /\ Refused(a) => Refused(a)'
  BY <1>1, <1>3, Stays
<1>4. ASSUME NEW a \in Attempt, handle_dispatch(a) PROVE IInv'
  <2>1. /\ a \notin given /\ given' = given \union {a} /\ UNCHANGED <<queue, wire>>
        /\ reader.pc = "recv" /\ reader.item = None
    BY <1>0, <1>4, Holds DEF handle_dispatch
  <2>2. \/ reader' = At("refuse", a) /\ UNCHANGED active_tokens
        \/ reader' = At("enqueue", a) /\ active_tokens' = active_tokens \union {a}
    BY <1>4 DEF handle_dispatch
  <2>3. reader'.item = a /\ reader'.pc \in {"refuse", "enqueue"} /\ reader' \in ReaderState
    BY <2>2, States
  <2>4. Queued' = Queued
    BY <2>1 DEF Queued
  <2>5. Typed'
    BY <1>0, <1>1, <2>1, <2>2, <2>3 DEF Typed
  <2>6. OnePlace'
    BY <1>0, <1>1, <1>2, <2>1, <2>3, <2>4 DEF OnePlace, PlaceOf
  <2>7. Tokens'
    <3>1. \A b \in active_tokens': b = a \/ (b \in active_tokens /\ reader.item # b)
      BY <1>0, <2>1, <2>2 DEF Typed
    <3>2. reader'.pc = "enqueue" => a \in active_tokens'
      BY <2>2, <2>3, States
    <3>3. reader'.pc = "refuse" => active_tokens' = active_tokens
      BY <2>2, <2>3, States
    <3>4. active_tokens \subseteq active_tokens' /\ active_tokens' \subseteq active_tokens \union {a}
      BY <2>2
    <3> SUFFICES ASSUME main \notin {"stopped", "exit"} PROVE Tokens'
      BY <1>1 DEF Tokens
    <3>5. /\ active_tokens \subseteq given /\ Queued \subseteq active_tokens
          /\ \A w \in Worker: worker[w].item # None => worker[w].item \in active_tokens
          /\ \A b \in active_tokens: \/ b \in Queued \/ b \in Completed \/ reader.item = b
                                   \/ \E w \in Worker: Executing(w, b)
      BY <1>0 DEF Tokens
    <3>6. \A b \in active_tokens': \/ b \in Queued \/ b \in Completed \/ b = a
                                  \/ \E w \in Worker: Executing(w, b)'
      BY <1>0, <1>2, <3>1, <3>5, Zenon DEF Typed
    <3>7. active_tokens' \subseteq given' /\ (reader'.pc = "refuse" => a \notin active_tokens')
      BY <2>1, <3>3, <3>4, <3>5
    <3> QED
      BY <1>1, <1>2, <2>1, <2>3, <2>4, <3>2, <3>4, <3>5, <3>6, <3>7 DEF Tokens
  <2>8. InTurn'
    BY <1>0, <2>1 DEF InTurn
  <2>9. Reported'
    BY <1>0, <1>1, <1>2, <1>3, <2>1, <2>3, <2>4, Zenon DEF Reported, ReportedOf
  <2> QED
    BY <2>5, <2>6, <2>7, <2>8, <2>9 DEF IInv
<1>5. CASE enqueue
  <2> DEFINE a == reader.item
  <2>1. a \in Attempt /\ reader.pc = "enqueue" /\ UNCHANGED <<given, wire>>
    BY <1>0, <1>5, Holds DEF enqueue
  <2>2. InTurn'
    BY <1>0, <2>1 DEF InTurn
  <2>3. CASE queue' = Append(queue, a) /\ reader' = At("recv", None) /\ UNCHANGED active_tokens
    <3>1. a \notin Queued /\ queue \in Seq(Attempt)
      BY <1>0, <2>1 DEF OnePlace, PlaceOf, Typed
    <3>2. queue' \in Seq(Attempt) /\ Queued' = Queued \union {a} /\ IsInjective(queue')
      BY <1>0, <2>1, <2>3, <3>1, Pushed DEF Queued, OnePlace, PlaceOf
    <3>3. reader'.item = None /\ reader'.pc = "recv" /\ reader' \in ReaderState
      BY <2>3, States
    <3> HIDE DEF a
    <3>4. Typed'
      BY <1>0, <1>1, <2>1, <2>3, <3>2, <3>3 DEF Typed
    <3>5. OnePlace'
      BY <1>0, <1>1, <1>2, <2>1, <3>2, <3>3 DEF OnePlace, PlaceOf, a
    <3>6. Tokens'
      BY <1>0, <1>1, <1>2, <2>1, <2>3, <3>2, <3>3 DEF Tokens, Typed, a
    <3>7. Reported'
      BY <1>0, <1>1, <1>2, <1>3, <2>1, <3>2, <3>3, Zenon DEF Reported, ReportedOf, a
    <3> QED
      BY <2>2, <3>4, <3>5, <3>6, <3>7 DEF IInv
  <2>4. CASE /\ active_tokens' = active_tokens \ {a} /\ reader' = At("refuse", a)
             /\ UNCHANGED queue
    <3>1. Queued' = Queued
      BY <2>4 DEF Queued
    <3>2. reader'.item = a /\ reader'.pc = "refuse" /\ reader' \in ReaderState
      BY <2>1, <2>4, States
    <3> HIDE DEF a
    <3>3. Typed'
      BY <1>0, <1>1, <2>1, <2>4, <3>2 DEF Typed
    <3>4. OnePlace'
      BY <1>0, <1>1, <1>2, <2>1, <2>4, <3>1, <3>2 DEF OnePlace, PlaceOf, a
    <3>5. Tokens'
      BY <1>0, <1>1, <1>2, <2>1, <2>4, <3>1, <3>2 DEF Tokens, Typed, OnePlace, PlaceOf, Executing, a
    <3>6. Reported'
      BY <1>0, <1>1, <1>2, <1>3, <2>1, <3>1, <3>2, Zenon DEF Reported, ReportedOf, a
    <3> QED
      BY <2>2, <3>3, <3>4, <3>5, <3>6 DEF IInv
  <2> QED
    BY <1>5, <2>3, <2>4 DEF enqueue, forget_attempt
<1>6. CASE Refuse
  <2>0. PICK a \in Attempt: a = reader.item
    BY <1>0, <1>6, Holds DEF Refuse
  <2>1. /\ UNCHANGED <<given, queue, active_tokens>> /\ Queued' = Queued
        /\ reader.pc \in {"refuse", "release"}
    BY <1>0, <1>6, Holds DEF Refuse, Queued
  <2>2. \/ /\ reader.pc = "refuse" /\ Send(a, "Failed") /\ reader' = At("release", a)
        \/ /\ reader.pc = "release" /\ Send(a, "Release") /\ reader' = At("recv", None)
    BY <1>6, <2>0 DEF Refuse
  <2>3. /\ wire' \in [Attempt -> Seq(Message)] /\ InTurn'
        /\ \A b \in Attempt \ {a}: wire'[b] = wire[b]
        /\ reader.pc = "refuse" => Refused(a)'
    <3>1. reader.pc = "refuse" => Fresh(a) /\ Send(a, "Failed")
      BY <1>0, <2>0, <2>2 DEF Reported, ReportedOf
    <3>2. reader.pc = "release" => Refused(a) /\ Send(a, "Release")
      BY <1>0, <2>0, <2>2 DEF Reported, ReportedOf
    <3>3. UNCHANGED outcome
      BY <1>1
    <3>4. CASE reader.pc = "refuse"
      BY <1>0, <3>1, <3>3, <3>4, Reports, Zenon
    <3>5. CASE reader.pc = "release"
      <4>1. reader.pc # "refuse"
        BY <3>5
      <4> QED
        BY <1>0, <3>2, <3>3, <3>5, <4>1, Reports, Zenon
    <3> QED
      BY <2>1, <3>4, <3>5
  <2>4. /\ reader' \in ReaderState
        /\ \/ reader.pc = "refuse" /\ reader'.pc = "release" /\ reader'.item = a
           \/ reader.pc = "release" /\ reader'.pc = "recv" /\ reader'.item = None
    BY <2>0, <2>1, <2>2, States
  <2>5. Typed'
    BY <1>0, <1>1, <2>1, <2>3, <2>4, SMTT(30) DEF Typed
  <2>6. OnePlace'
    BY <1>0, <1>1, <1>2, <2>0, <2>1, <2>4 DEF OnePlace, PlaceOf
  <2>7. Tokens'
    BY <1>0, <1>1, <1>2, <2>0, <2>1, <2>4, Zenon DEF Tokens, Typed
  <2>8. Reported'
    <3> SUFFICES ASSUME NEW b \in Attempt PROVE ReportedOf(b)'
      BY DEF Reported
    <3>1. CASE b # a
      BY <1>0, <1>1, <1>2, <1>3, <2>0, <2>1, <2>3, <2>4, <3>1, Zenon DEF Reported, ReportedOf
    <3>2. CASE b = a
      BY <1>0, <1>1, <1>2, <2>0, <2>1, <2>3, <2>4, <3>2, Zenon DEF OnePlace, PlaceOf, ReportedOf
    <3> QED
      BY <3>1, <3>2
  <2> QED
    BY <2>3, <2>5, <2>6, <2>7, <2>8 DEF IInv
<1> QED
  BY <1>4, <1>5, <1>6

\* A worker takes an attempt, runs it and hands its outcome on.
LEMMA WorkerKeepsAll ==
  ASSUME IInv, NEW w \in Worker,
         \/ TakeWork(w) \/ OnStart(w) \/ TestToken(w) \/ RunKernel(w) \/ OnComplete(w) \/ Saturated(w)
  PROVE  IInv'
<1> USE RuntimeAssumption
<1>0. Typed /\ OnePlace /\ Tokens /\ InTurn /\ Reported
  BY DEF IInv
<1>1. UNCHANGED <<main, reader, completion, given>>
  BY DEF TakeWork, OnStart, TestToken, RunKernel, OnComplete, Saturated, WorkerKeeps
<1>2. ASSUME NEW a \in Attempt, wire'[a] = wire[a], outcome'[a] = outcome[a]
      PROVE  /\ Fresh(a) => Fresh(a)'
             /\ Begun(a) => Begun(a)'
             /\ Ended(a) => Ended(a)'
             /\ Told(a) => Told(a)'
             /\ Refused(a) => Refused(a)'
  BY <1>1, <1>2, Stays, Zenon
<1>3. CASE TakeWork(w)
  <2>1. /\ UNCHANGED <<comp_queue, active_tokens, outcome, wire>> /\ Completed' = Completed
        /\ queue # << >> /\ queue' = Tail(queue) /\ worker[w].item = None
    BY <1>0, <1>3, Holds DEF TakeWork, WorkerAt, Completed
  <2>2. PICK a \in Attempt:
          /\ a = Head(queue) /\ a \in Queued /\ Queued' = Queued \ {a}
          /\ queue' \in Seq(Attempt) /\ IsInjective(queue')
    BY <1>0, <2>1, Popped, Zenon DEF Queued, OnePlace, PlaceOf, Typed
  <2>3. worker' = [worker EXCEPT ![w] = At("start", a)] /\ At("start", a) \in WorkerState
    BY <1>3, <2>2, States DEF TakeWork
  <2>4. /\ worker' \in [Worker -> WorkerState] /\ worker'[w].pc = "start" /\ worker'[w].item = a
        /\ \A v \in Worker \ {w}: worker'[v] = worker[v]
    BY <1>0, <2>3, WorkerMoves, Zenon
  <2>5. \A v \in Worker, b \in Attempt: Executing(v, b)' <=> (IF v = w THEN b = a ELSE Executing(v, b))
    BY <2>4, Zenon DEF Executing
  <2>6. Typed'
    BY <1>0, <1>1, <2>1, <2>2, <2>4 DEF Typed
  <2>7. OnePlace'
    <3> SUFFICES ASSUME NEW b \in Attempt PROVE PlaceOf(b)'
      BY <1>0, <2>1, <2>2 DEF OnePlace
    <3>1. PlaceOf(a) /\ PlaceOf(b)
      BY <1>0 DEF OnePlace
    <3>2. ASSUME NEW v \in Worker, Executing(v, b)'
          PROVE  /\ b \in given' \ (Queued' \union Completed' \union {reader'.item, completion'.item})
                 /\ \A u \in Worker: Executing(u, b)' => u = v
      BY <1>1, <2>1, <2>2, <2>5, <3>1, <3>2, ZenonT(30) DEF PlaceOf
    <3> QED
      BY <1>1, <2>1, <2>2, <3>1, <3>2, ZenonT(30) DEF PlaceOf
  <2>8. Tokens'
    <3> SUFFICES ASSUME main \notin {"stopped", "exit"} PROVE Tokens'
      BY <1>1, Zenon DEF Tokens
    <3>1. \A v \in Worker: worker'[v].item # None => worker'[v].item \in active_tokens
      BY <1>0, <2>2, <2>4 DEF Tokens
    <3>2. ASSUME NEW b \in active_tokens
          PROVE  \/ b \in Queued' \/ b \in Completed \/ reader.item = b
                 \/ \E v \in Worker: Executing(v, b)'
      <4>1. b \in Attempt /\ \/ b \in Queued \/ b \in Completed \/ reader.item = b
                             \/ \E v \in Worker: Executing(v, b)
        BY <1>0, Zenon DEF Tokens, Typed
      <4>2. ASSUME NEW v \in Worker, Executing(v, b) PROVE v # w
        BY <2>1, <4>1, <4>2 DEF Executing
      <4> QED
        BY <2>2, <2>5, <4>1, <4>2
    <3> QED
      BY <1>0, <1>1, <2>1, <2>2, <3>1, <3>2, Zenon DEF Tokens
  <2>9. InTurn'
    BY <1>0, <2>1 DEF InTurn
  <2>10. Reported'
    BY <1>0, <1>1, <1>2, <2>1, <2>2, <2>4, <2>5, Zenon DEF Reported, ReportedOf
  <2> QED
    BY <2>6, <2>7, <2>8, <2>9, <2>10 DEF IInv
<1>4. CASE OnStart(w) \/ TestToken(w) \/ RunKernel(w)
  <2>1. PICK a \in Attempt: a = worker[w].item
    BY <1>0, <1>4, Holds DEF OnStart, TestToken, RunKernel, WorkerAt
  <2>2. /\ UNCHANGED <<queue, comp_queue, active_tokens>>
        /\ Queued' = Queued /\ Completed' = Completed
    BY <1>4 DEF OnStart, TestToken, RunKernel, Queued, Completed
  <2>3. PICK p \in {"test", "run", "report"}: worker' = [worker EXCEPT ![w] = At(p, a)]
    BY <1>0, <1>4, <2>1, Holds, Zenon DEF OnStart, TestToken, RunKernel, WorkerTo
  <2>4. /\ worker' \in [Worker -> WorkerState] /\ worker'[w].pc = p /\ worker'[w].item = a
        /\ \A v \in Worker \ {w}: worker'[v] = worker[v]
    <3>1. At(p, a) \in WorkerState
      BY States
    <3> QED
      BY <1>0, <2>3, <3>1, WorkerMoves, Zenon
  <2>5. \A v \in Worker: worker'[v].item = worker[v].item
    BY <2>1, <2>4, Zenon
  <2>6. OnePlace'
    <3> SUFFICES ASSUME NEW b \in Attempt PROVE PlaceOf(b)'
      BY <1>0, <2>2 DEF OnePlace
    <3>1. PlaceOf(b)
      BY <1>0 DEF OnePlace
    <3>2. \A v \in Worker: Executing(v, b)' <=> Executing(v, b)
      BY <2>5 DEF Executing
    <3> QED
      BY <1>1, <2>2, <3>1, <3>2, ZenonT(30) DEF PlaceOf
  <2>7. Tokens'
    BY <1>0, <1>1, <2>2, <2>5, Zenon DEF Tokens, Executing
  <2>8. /\ a \in given \ (Queued \union Completed \union {reader.item, completion.item})
        /\ \A v \in Worker \ {w}: worker[v].item # a
    BY <1>0, <2>1, Zenon DEF OnePlace, PlaceOf, Executing
  <2>9. ASSUME /\ wire' \in [Attempt -> Seq(Message)] /\ InTurn'
               /\ outcome' \in [Attempt -> Terminal \union {"None"}],
               \A b \in Attempt \ {a}: wire'[b] = wire[b] /\ outcome'[b] = outcome[b],
               p \in {"test", "run"} => Begun(a)', p = "report" => Ended(a)'
        PROVE  IInv'
    <3>1. Typed'
      BY <1>0, <1>1, <2>2, <2>4, <2>9 DEF Typed
    <3>2. Reported'
      <4> SUFFICES ASSUME NEW b \in Attempt PROVE ReportedOf(b)'
        BY DEF Reported
      <4>1. CASE b # a
        <5>1. \A v \in Worker: Executing(v, b)' => Executing(v, b) /\ worker'[v].pc = worker[v].pc
          BY <2>4, <4>1, Zenon DEF Executing
        <5>2. wire'[b] = wire[b] /\ outcome'[b] = outcome[b]
          BY <2>9, <4>1
        <5> QED
          BY <1>0, <1>1, <1>2, <2>2, <5>1, <5>2, Zenon DEF Reported, ReportedOf
      <4>2. CASE b = a
        <5>1. b \in given' /\ b \notin Queued' /\ b \notin Completed' /\ reader'.item # b /\ completion'.item # b
          BY <1>1, <2>2, <2>8, <4>2, Zenon
        <5>2. \A v \in Worker: Executing(v, b)' => v = w
          BY <2>4, <2>8, <4>2, Zenon DEF Executing
        <5> QED
          BY <2>4, <2>9, <4>2, <5>1, <5>2, Zenon DEF ReportedOf
      <4> QED
        BY <4>1, <4>2
    <3> QED
      BY <2>6, <2>7, <2>9, <3>1, <3>2, Zenon DEF IInv
  <2>10. CASE OnStart(w)
    <3>1. worker[w].pc = "start" /\ Send(a, "Started") /\ UNCHANGED outcome /\ p = "test"
      <4>1. worker' = [worker EXCEPT ![w] = At("test", a)]
        BY <1>0, <2>1, <2>10, Holds, Zenon DEF OnStart, WorkerTo
      <4>2. p = "test"
        BY <1>0, <2>4, <4>1, WorkerMoves, States
      <4> QED
        BY <2>1, <2>10, <4>2 DEF OnStart, WorkerAt
    <3>2. Fresh(a)
      BY <1>0, <2>1, <3>1, Zenon DEF Reported, ReportedOf, Executing
    <3>3. UNCHANGED outcome
      BY <1>1, <2>2, <3>1, Zenon
    <3>4. /\ wire' \in [Attempt -> Seq(Message)] /\ InTurn' /\ Begun(a)'
          /\ \A b \in Attempt \ {a}: wire'[b] = wire[b]
      BY <1>0, <3>1, <3>2, <3>3, Reports, Zenon
    <3> QED
      BY <1>0, <2>9, <3>1, <3>4 DEF Typed
  <2>11. CASE TestToken(w) \/ RunKernel(w)
    <3>1. UNCHANGED wire /\ worker[w].pc \in {"test", "run"}
      BY <2>11, Zenon DEF TestToken, RunKernel, WorkerAt
    <3>2. Begun(a)
      BY <1>0, <2>1, <3>1, Zenon DEF Reported, ReportedOf, Executing
    <3>3. Begun(a)'
      BY <1>1, <2>2, <3>1, <3>2, Zenon DEF Begun
    <3>4. /\ p \in {"test", "run"} /\ UNCHANGED outcome
          \/ \E o \in Terminal: outcome' = [outcome EXCEPT ![a] = o]
      <4>1. CASE outcome' # outcome
        BY <2>1, <2>11, <4>1 DEF TestToken, RunKernel, Terminal
      <4>2. CASE outcome' = outcome
        <5>1. \/ worker' = [worker EXCEPT ![w] = At("run", a)]
              \/ \E o \in Terminal: outcome' = [outcome EXCEPT ![a] = o]
          BY <1>0, <2>1, <2>11, Holds, Zenon DEF TestToken, RunKernel, WorkerTo, Terminal
        <5>2. worker' = [worker EXCEPT ![w] = At("run", a)] => p = "run"
          BY <1>0, <2>4, WorkerMoves, States
        <5> QED
          BY <4>2, <5>1, <5>2
      <4> QED
        BY <4>1, <4>2
    <3>5. /\ outcome' \in [Attempt -> Terminal \union {"None"}]
          /\ \A b \in Attempt \ {a}: outcome'[b] = outcome[b]
          /\ p = "report" => outcome'[a] \in Terminal
      BY <1>0, <3>4, Zenon DEF Typed
    <3>6. InTurn' /\ wire' \in [Attempt -> Seq(Message)]
      BY <1>0, <3>1 DEF InTurn, Typed
    <3> QED
      BY <2>9, <3>1, <3>3, <3>5, <3>6, Zenon DEF Ended
  <2> QED
    BY <1>4, <2>10, <2>11
<1>5. CASE OnComplete(w) \/ Saturated(w)
  <2>1. PICK a \in Attempt: a = worker[w].item
    BY <1>0, <1>5, Holds DEF OnComplete, Saturated, WorkerAt
  <2>2. /\ UNCHANGED <<queue, outcome, wire>> /\ Queued' = Queued /\ worker[w].pc = "report"
        /\ worker' = [worker EXCEPT ![w] = At("idle", None)]
    BY <1>5 DEF OnComplete, Saturated, Queued, WorkerAt
  <2>3. /\ worker' \in [Worker -> WorkerState] /\ worker'[w].pc = "idle" /\ worker'[w].item = None
        /\ \A v \in Worker \ {w}: worker'[v] = worker[v]
    BY <1>0, <2>2, WorkerMoves, States, Zenon
  <2>4. /\ a \in given \ (Queued \union Completed \union {reader.item, completion.item})
        /\ \A v \in Worker \ {w}: worker[v].item # a
        /\ Ended(a)
    BY <1>0, <2>1, <2>2, Zenon DEF OnePlace, PlaceOf, Executing, Reported, ReportedOf
  <2>5. \A v \in Worker, b \in Attempt: Executing(v, b)' <=> (v # w /\ Executing(v, b))
    BY <2>3 DEF Executing
  <2>6. /\ comp_queue' \in Seq(Attempt) /\ IsInjective(comp_queue')
        /\ \/ Completed' = Completed \union {a} /\ active_tokens' = active_tokens
           \/ Completed' = Completed /\ active_tokens' = active_tokens \ {a}
    <3>1. \/ comp_queue' = Append(comp_queue, a) /\ active_tokens' = active_tokens
          \/ comp_queue' = comp_queue /\ active_tokens' = active_tokens \ {a}
      BY <1>5, <2>1 DEF OnComplete, Saturated, forget_attempt
    <3>2. comp_queue \in Seq(Attempt) /\ IsInjective(comp_queue) /\ a \notin Range(comp_queue)
      BY <1>0, <2>4, Zenon DEF Typed, OnePlace, PlaceOf, Completed
    <3> QED
      BY <3>1, <3>2, Pushed, Zenon DEF Completed
  <2>7. Typed'
    BY <1>0, <1>1, <2>2, <2>3, <2>6 DEF Typed
  <2>8. OnePlace'
    <3> SUFFICES ASSUME NEW b \in Attempt PROVE PlaceOf(b)'
      BY <1>0, <2>2, <2>6 DEF OnePlace
    <3>1. PlaceOf(b)
      BY <1>0 DEF OnePlace
    <3>2. CASE b # a
      <4>1. b \in Completed' <=> b \in Completed
        BY <2>6, <3>2
      <4> QED
        BY <1>1, <2>2, <2>5, <3>1, <4>1, Zenon DEF PlaceOf
    <3>3. CASE b = a
      <4>1. \A v \in Worker: ~Executing(v, a)'
        BY <2>4, <2>5, Zenon DEF Executing
      <4> QED
        BY <1>1, <2>2, <2>4, <3>3, <4>1, Zenon DEF PlaceOf
    <3> QED
      BY <3>2, <3>3
  <2>9. Tokens'
    <3> SUFFICES ASSUME main \notin {"stopped", "exit"} PROVE Tokens'
      BY <1>1, Zenon DEF Tokens
    <3>1. \A v \in Worker: worker'[v].item # None => worker'[v].item \in active_tokens'
      BY <1>0, <2>3, <2>4, <2>6, Zenon DEF Tokens
    <3>2. ASSUME NEW b \in active_tokens'
          PROVE  \/ b \in Queued \/ b \in Completed' \/ reader.item = b
                 \/ \E v \in Worker: Executing(v, b)'
      <4>1. b \in Attempt /\ \/ b \in Queued \/ b \in Completed \/ reader.item = b
                             \/ \E v \in Worker: Executing(v, b)
        BY <1>0, <2>6, Zenon DEF Tokens, Typed
      <4>2. Executing(w, b) => b = a
        BY <2>1 DEF Executing
      <4>3. b = a => b \in Completed'
        BY <2>6
      <4> QED
        BY <2>5, <2>6, <4>1, <4>2, <4>3
    <3>3. Queued \subseteq active_tokens' /\ active_tokens' \subseteq active_tokens
      BY <1>0, <2>4, <2>6 DEF Tokens
    <3>4. reader.pc = "enqueue" => reader.item \in active_tokens'
      BY <1>0, <2>4, <2>6 DEF Tokens
    <3> QED
      BY <1>0, <1>1, <2>2, <3>1, <3>2, <3>3, <3>4, Zenon DEF Tokens
  <2>10. InTurn'
    BY <1>0, <2>2 DEF InTurn
  <2>11. Reported'
    BY <1>0, <1>1, <1>2, <2>2, <2>3, <2>4, <2>5, <2>6, ZenonT(30) DEF Reported, ReportedOf
  <2> QED
    BY <2>7, <2>8, <2>9, <2>10, <2>11 DEF IInv
<1> QED
  BY <1>3, <1>4, <1>5

\* The completion thread takes an outcome and reports it.
LEMMA CompletionMoves ==
  ASSUME IInv, TakeCompletion \/ Report
  PROVE  IInv'
<1> USE RuntimeAssumption
<1>0. Typed /\ OnePlace /\ Tokens /\ InTurn /\ Reported
  BY DEF IInv
<1>1. UNCHANGED <<main, reader, worker, queue, given, outcome>>
  BY Zenon DEF TakeCompletion, Report, CompletionKeeps, flags
<1>2. Queued' = Queued /\ \A v \in Worker, a \in Attempt: Executing(v, a)' <=> Executing(v, a)
  BY <1>1 DEF Queued, Executing
<1>3. ASSUME NEW a \in Attempt, wire'[a] = wire[a]
      PROVE  /\ Fresh(a) => Fresh(a)'
             /\ Begun(a) => Begun(a)'
             /\ Ended(a) => Ended(a)'
             /\ Told(a) => Told(a)'
             /\ Refused(a) => Refused(a)'
  BY <1>1, <1>3, Stays, Zenon
<1>4. CASE TakeCompletion
  <2>1. UNCHANGED wire /\ comp_queue # << >> /\ comp_queue' = Tail(comp_queue) /\ completion.item = None
    BY <1>0, <1>4, Holds DEF TakeCompletion
  <2>2. PICK a \in Attempt:
          /\ a = Head(comp_queue) /\ a \in Completed /\ Completed' = Completed \ {a}
          /\ comp_queue' \in Seq(Attempt) /\ IsInjective(comp_queue')
    BY <1>0, <2>1, Popped DEF Completed, OnePlace, PlaceOf, Typed
  <2>3. active_tokens' = active_tokens \ {a} /\ completion' = At("report", a)
    BY <1>4, <2>2 DEF TakeCompletion, forget_attempt
  <2>4. completion'.pc = "report" /\ completion'.item = a /\ completion' \in CompletionState
    BY <2>3, States
  <2>5. Typed'
    BY <1>0, <1>1, <2>1, <2>2, <2>3, <2>4 DEF Typed
  <2>6. /\ a \in given /\ a \notin Queued /\ reader.item # a
        /\ \A v \in Worker: worker[v].item # a
    BY <1>0, <2>2 DEF OnePlace, PlaceOf, Executing
  <2>7. OnePlace'
    <3> SUFFICES ASSUME NEW b \in Attempt PROVE PlaceOf(b)'
      BY <1>0, <1>1, <2>2 DEF OnePlace
    <3>1. PlaceOf(b)
      BY <1>0 DEF OnePlace
    <3>2. \A v \in Worker: Executing(v, b) => b # a
      BY <2>6 DEF Executing
    <3> QED
      BY <1>1, <1>2, <2>1, <2>2, <2>4, <2>6, <3>1, <3>2, Zenon DEF PlaceOf
  <2>8. Tokens'
    <3> SUFFICES ASSUME main \notin {"stopped", "exit"} PROVE Tokens'
      BY <1>1, Zenon DEF Tokens
    <3>1. \A b \in active_tokens': \/ b \in Queued \/ b \in Completed' \/ reader.item = b
                                  \/ \E v \in Worker: Executing(v, b)
      BY <1>0, <2>2, <2>3 DEF Tokens
    <3> QED
      BY <1>0, <1>1, <1>2, <2>3, <2>6, <3>1, Zenon DEF Tokens, Executing
  <2>9. InTurn'
    BY <1>0, <2>1 DEF InTurn
  <2>10. Reported'
    BY <1>0, <1>1, <1>2, <1>3, <2>1, <2>2, <2>4, Zenon DEF Reported, ReportedOf
  <2> QED
    BY <2>5, <2>7, <2>8, <2>9, <2>10 DEF IInv
<1>5. CASE Report
  <2>1. PICK a \in Attempt: a = completion.item
    BY <1>0, <1>5, Holds DEF Report
  <2>2. UNCHANGED <<comp_queue, active_tokens>> /\ Completed' = Completed
    BY <1>5 DEF Report, Completed
  <2>3. \/ completion.pc = "report" /\ Send(a, outcome[a]) /\ completion' = At("release", a)
        \/ completion.pc = "release" /\ Send(a, "Release") /\ completion' = At("wait", None)
    BY <1>5, <2>1 DEF Report
  <2>4. /\ completion' \in CompletionState
        /\ \/ completion.pc = "report" /\ completion'.pc = "release" /\ completion'.item = a
           \/ completion.pc = "release" /\ completion'.pc = "wait" /\ completion'.item = None
    <3>1. /\ At("release", a) \in CompletionState /\ At("wait", None) \in CompletionState
          /\ At("release", a).pc = "release" /\ At("release", a).item = a
          /\ At("wait", None).pc = "wait" /\ At("wait", None).item = None
      BY States
    <3> QED
      BY <2>3, <3>1, Zenon
  <2>5. /\ wire' \in [Attempt -> Seq(Message)] /\ InTurn'
        /\ \A b \in Attempt \ {a}: wire'[b] = wire[b]
        /\ completion.pc = "report" => Told(a)'
    <3>1. UNCHANGED outcome
      BY <1>1
    <3>2. CASE completion.pc = "report"
      <4>1. Ended(a) /\ Send(a, outcome[a])
        BY <1>0, <2>1, <2>3, <3>2, Zenon DEF Reported, ReportedOf
      <4> QED
        BY <1>0, <3>1, <3>2, <4>1, Reports, Zenon
    <3>3. CASE completion.pc = "release"
      <4>1. Told(a) /\ Send(a, "Release") /\ completion.pc # "report"
        BY <1>0, <2>1, <2>3, <3>3, Zenon DEF Reported, ReportedOf
      <4> QED
        BY <1>0, <3>1, <4>1, Reports, Zenon
    <3> QED
      BY <2>3, <3>2, <3>3, Zenon
  <2>6. Typed'
    BY <1>0, <1>1, <2>2, <2>4, <2>5 DEF Typed
  <2>7. OnePlace'
    BY <1>0, <1>1, <1>2, <2>1, <2>2, <2>4, Zenon DEF OnePlace, PlaceOf
  <2>8. Tokens'
    <3>1. active_tokens \subseteq Attempt
      BY <1>0 DEF Typed
    <3> QED
      BY <1>0, <1>1, <2>2, <1>2, <3>1, Zenon DEF Tokens, Executing
  <2>9. Reported'
    <3> SUFFICES ASSUME NEW b \in Attempt PROVE ReportedOf(b)'
      BY DEF Reported
    <3>1. CASE b # a
      <4>1. wire'[b] = wire[b] /\ completion'.item # b
        BY <2>4, <2>5, <3>1
      <4> QED
        BY <1>0, <1>1, <1>2, <1>3, <2>2, <4>1, Zenon DEF Reported, ReportedOf
    <3>2. CASE b = a
      <4>1. /\ a \in given /\ a \notin Queued /\ a \notin Completed /\ reader.item # a
            /\ \A v \in Worker: ~Executing(v, a)
        BY <1>0, <2>1 DEF OnePlace, PlaceOf
      <4>2. /\ a \in given' /\ a \notin Queued' /\ a \notin Completed' /\ reader'.item # a
            /\ \A v \in Worker: ~Executing(v, a)'
        BY <1>1, <1>2, <2>2, <4>1
      <4> QED
        BY <2>4, <2>5, <3>2, <4>2, Zenon DEF ReportedOf
    <3> QED
      BY <3>1, <3>2
  <2> QED
    BY <2>5, <2>6, <2>7, <2>8, <2>9 DEF IInv
<1> QED
  BY <1>4, <1>5

\* The invariant holds throughout, for every choice of the constants.
THEOREM RuntimeSafe == Spec => []IInv
<1>1. Init => IInv
  <2> SUFFICES ASSUME Init PROVE IInv
    OBVIOUS
  <2>1. Range(<< >>) = {} /\ IsInjective(<< >>)
    BY DEF Range, IsInjective
  <2>2. /\ queue = << >> /\ comp_queue = << >> /\ Queued = {} /\ Completed = {} /\ given = {}
        /\ active_tokens = {} /\ reader = At("recv", None) /\ completion = At("wait", None)
        /\ worker = [w \in Worker |-> At("idle", None)]
        /\ outcome = [a \in Attempt |-> "None"] /\ wire = [a \in Attempt |-> << >>]
    BY <2>1 DEF Init, Queued, Completed
  <2>3. reader.item = None /\ completion.item = None /\ \A w \in Worker: worker[w].item = None
    BY <2>2, States
  <2>4. reader.pc = "recv" /\ completion.pc = "wait"
    BY <2>2, States
  <2>5. Typed
    BY <2>2, States, EmptySeq DEF Typed
  <2>6. OnePlace
    BY <2>1, <2>2, <2>3, RuntimeAssumption DEF OnePlace, PlaceOf, Executing
  <2>7. Tokens
    BY <2>2, <2>3, <2>4 DEF Tokens
  <2>8. \A a \in Attempt: wire[a] = << >> /\ Fresh(a)
    BY <2>2 DEF Fresh, Says
  <2>9. InTurn
    <3>1. "Failed" \in Terminal
      BY DEF Terminal
    <3> QED
      BY <2>5, <2>8, <3>1, Orders, Zenon DEF InTurn, Fresh, Typed
  <2>10. Reported
    BY <2>2, <2>3, <2>8, RuntimeAssumption DEF Reported, ReportedOf, Executing
  <2> QED
    BY <2>5, <2>6, <2>7, <2>9, <2>10 DEF IInv
<1>2. IInv /\ [Next]_vars => IInv'
  <2> SUFFICES ASSUME IInv, [Next]_vars PROVE IInv'
    OBVIOUS
  <2>0. /\ reader.pc = "recv" => reader.item = None
        /\ completion.pc = "wait" => completion.item = None
        /\ \A w \in Worker: worker[w].pc = "idle" => worker[w].item = None
    BY Holds DEF IInv
  <2>1. CASE UNCHANGED vars \/ Exited
    BY <2>1, QuietKeeps DEF vars, flags, work, book, Exited
  <2>2. CASE ReadStops \/ ReadFails \/ ToldToStop \/ \E a \in Attempt: handle_cancel(a)
    <3>1. /\ UNCHANGED <<queue, comp_queue, given, outcome, wire, completion, worker, main,
                         active_tokens>>
          /\ reader' = reader \/ (reader.item = None /\ reader' = At("exit", None))
      BY <2>0, <2>2 DEF ReadStops, ReadFails, ToldToStop, handle_cancel, ReaderKeeps
    <3> QED
      BY <3>1, QuietKeeps
  <2>3. CASE \E w \in Worker: WorkerExit(w)
    <3>1. PICK w \in Worker: WorkerExit(w)
      BY <2>3
    <3>2. UNCHANGED <<queue, comp_queue, given, outcome, wire, completion, reader, main,
                      active_tokens>>
      BY <3>1 DEF WorkerExit, WorkerKeeps
    <3>3. worker[w].item = None /\ worker' = [worker EXCEPT ![w] = At("exit", None)]
      <4>1. Typed /\ worker[w].item = None
        BY <2>0, <3>1, Zenon DEF WorkerExit, WorkerAt, IInv
      <4> QED
        BY <3>1, <4>1, Holds, Zenon DEF WorkerExit, WorkerTo
    <3> QED
      BY <3>2, <3>3, QuietKeeps, Zenon
  <2>4. CASE CompletionExit
    <3>1. /\ UNCHANGED <<queue, comp_queue, given, outcome, wire, worker, reader, main,
                         active_tokens>>
          /\ completion.item = None /\ completion' = At("exit", None)
      BY <2>0, <2>4, Zenon DEF CompletionExit, CompletionKeeps, flags
    <3> QED
      BY <3>1, QuietKeeps
  <2>5. CASE HeartbeatFails \/ HeartbeatExit \/ run \/ RunWakes \/ PeerLost
    <3>1. UNCHANGED <<worker, reader, completion, main, work, book>>
      BY <2>5 DEF HeartbeatFails, HeartbeatExit, run, RunTests, RunParks, RunWakes, PeerLost
    <3>2. /\ UNCHANGED <<queue, comp_queue, given, outcome, wire>>
          /\ UNCHANGED worker /\ UNCHANGED reader /\ UNCHANGED completion
          /\ UNCHANGED main /\ UNCHANGED active_tokens
      BY <3>1 DEF work, book
    <3>3. main \in {"stopped", "exit"} => main' \in {"stopped", "exit"}
      BY <3>2, Zenon
    <3> QED
      BY <3>2, <3>3, QuietKeeps, Zenon
  <2>6. CASE stop \/ BeginStop(TRUE)
    <3>1. MainKeeps
      BY <2>6, Zenon DEF stop, BeginStop, CancelTokens, CloseChannel, ExecutorStops, CancelQueued,
                         JoinWorkers, JoinThreads, JoinRunner
    <3>2. /\ UNCHANGED <<queue, comp_queue, given, outcome, wire>>
          /\ UNCHANGED worker /\ UNCHANGED reader /\ UNCHANGED completion
      BY <3>1 DEF MainKeeps
    <3>3. main \in {"stopped", "exit"} => main' \in {"stopped", "exit"}
      BY <2>6 DEF stop, BeginStop, CancelTokens, CloseChannel, ExecutorStops, CancelQueued,
                  JoinWorkers, JoinThreads, JoinRunner
    <3>4. UNCHANGED active_tokens \/ (main' = "stopped" /\ active_tokens' = {})
      BY <2>6 DEF stop, BeginStop, CancelTokens, CloseChannel, ExecutorStops, CancelQueued,
                  JoinWorkers, JoinThreads, JoinRunner
    <3>5. UNCHANGED active_tokens \/ (main' \in {"stopped", "exit"} /\ active_tokens' = {})
      BY <3>4
    <3> QED
      BY <3>2, <3>3, <3>5, QuietKeeps, Zenon
  <2> QED
    BY <2>1, <2>2, <2>3, <2>4, <2>5, <2>6, ReaderMoves, WorkerKeepsAll, CompletionMoves, Zenon
       DEF Next, read_loop, worker_loop, completion_loop
<1> QED
  BY <1>1, <1>2, PTL DEF Spec

\* Whatever threads the reports come from and whatever sends fail or time out,
\* an attempt's start, its outcome and its release are sent once each and in
\* that order, and a refused attempt's failure and release.
THEOREM ToldInOrder == Spec => []ReportsInOrder
<1>1. IInv => ReportsInOrder
  BY SMTT(30) DEF IInv, InTurn, InOrder, ReportsInOrder
<1> QED
  BY <1>1, RuntimeSafe, PTL

\* Every attempt that waits or runs can be cancelled, and no token outlives
\* the work it belongs to.
THEOREM TokensRight == Spec => []TokensMatchWork
<1>1. IInv => TokensMatchWork
  <2> DEFINE executing == (Range(queue) \union {worker[w].item: w \in Worker}) \ {None}
  <2> SUFFICES ASSUME IInv, main \notin {"stopped", "exit"}
               PROVE  /\ executing \subseteq active_tokens
                      /\ active_tokens \subseteq executing \union Range(comp_queue) \union {reader.item}
    BY DEF TokensMatchWork
  <2>1. Typed /\ Tokens
    BY DEF IInv
  <2>2. executing \subseteq active_tokens
    BY <2>1 DEF Tokens, Queued
  <2>3. ASSUME NEW a \in active_tokens
        PROVE  a \in executing \union Range(comp_queue) \union {reader.item}
    <3>1. a \in Attempt /\ a # None
      BY <2>1, RuntimeAssumption DEF Typed
    <3>2. CASE a \in Queued
      BY <3>1, <3>2, Zenon DEF Queued
    <3>3. CASE \E w \in Worker: Executing(w, a)
      BY <3>1, <3>3 DEF Executing
    <3> QED
      BY <2>1, <3>2, <3>3, Zenon DEF Tokens, Completed
  <2> QED
    BY <2>2, <2>3
<1> QED
  BY <1>1, RuntimeSafe, PTL

=============================================================================
