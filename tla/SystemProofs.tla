--------------------------- MODULE SystemProofs ----------------------------
(***************************************************************************)
(* What rests on the operating system: the file of the store and the       *)
(* descriptors.                                                            *)
(*                                                                         *)
(* Store: for every set of states, every size of file and any number of    *)
(* saves, deaths and restarts, load gives what was saved.                  *)
(*                                                                         *)
(* Files of which a part is missing or harmed are told from whole ones by  *)
(* Inv, which holds under all the faults: whatever there is at path_, in   *)
(* the staging file or on the disk was written from a state that was       *)
(* offered to save.  Until power is lost or bytes are harmed the file at   *)
(* path_ is whole; until a write fails or a file is unreadable as well, it *)
(* also holds every commitment that persist() has returned for.            *)
(*                                                                         *)
(* Socket: for every finite set of threads that use a socket and every set *)
(* of threads that close it, no descriptor is used or closed after it was  *)
(* given back.  The inductive invariant ties the counter to the threads it *)
(* counts, and the flags of SocketState to the one closer that goes on.    *)
(***************************************************************************)
EXTENDS Store, Socket, FiniteSetTheorems, TLAPS

-----------------------------------------------------------------------------
(* The store.                                                              *)

File == [records: SUBSET Record, size: Nat, len: Nat, intact: BOOLEAN]

Saving == {"staging", "write", "rename", "renamed"}

\* f was written from the state s
From(f, s) == f \in File /\ f.records = records(s) /\ f.size = SizeOf[s]

Whole(f) == f.len = f.size /\ f.intact

\* Every file there is was written from a state that was offered to save.
Inv ==
  /\ offered \subseteq DurableState
  /\ saving \in offered \union {None}
  /\ (saving # None) <=> (pc \in Saving)
  /\ file # None => \E s \in offered: From(file, s)
  /\ settled # None => \E s \in offered: From(settled, s)
  /\ pc \in {"write", "rename"} => From(tmp, saving) /\ tmp.intact
  /\ pc = "rename" => tmp.len = tmp.size
  /\ loaded \in offered \union {None}

-----------------------------------------------------------------------------
\* load rebuilds exactly the state whose records save wrote.
LEMMA RoundTrip ==
  ASSUME NEW s \in DurableState
  PROVE  Decode(records(s)) = s
<1>1. s \in [Tag -> SUBSET Entry] /\ s[kRecAttempt] \subseteq Committed
  BY StoreAssumption
<1>2. \A g \in Tag, x \in Entry: ([tag |-> g, entry |-> x] \in records(s)) <=> x \in s[g]
  BY DEF records, Record
<1>3. ASSUME NEW g \in Tag
      PROVE  {x \in Entry: /\ [tag |-> g, entry |-> x] \in records(s)
                           /\ g = kRecAttempt => x \in Committed} = s[g]
  BY <1>1, <1>2, <1>3
<1> QED
  BY <1>1, <1>3 DEF Decode

\* A whole file written from a state decodes to that state.
LEMMA WholeDecodes ==
  ASSUME NEW s \in DurableState, NEW f, From(f, s), Whole(f)
  PROVE  Decode(Present(f)) = s
BY RoundTrip DEF From, Whole, Present

\* A record of the shape of a file is not the mark of its absence.
LEMMA FileIsNotNone == None \notin File /\ None \notin DurableState
BY StoreAssumption DEF File, Record

\* The image of a state is a file written from it.
LEMMA ImageFrom ==
  ASSUME NEW s \in DurableState, NEW n \in Nat
  PROVE  From(Image(s, n), s) /\ Image(s, n).intact /\ Image(s, n).len = n
BY StoreAssumption DEF From, Image, File, records

\* Cutting a file to a length does not change what it was written from.
LEMMA FromCut ==
  ASSUME NEW s, NEW f, From(f, s), NEW n \in Nat
  PROVE  LET g == [f EXCEPT !.len = n]
         IN  From(g, s) /\ (f.intact => g.intact) /\ g.len = n /\ g.size = f.size
BY DEF From, File

\* Nor does harming it.
LEMMA FromHarmed ==
  ASSUME NEW s, NEW f, From(f, s)
  PROVE  From([f EXCEPT !.intact = FALSE], s)
BY Zenon DEF From, File

-----------------------------------------------------------------------------
(* Inv is inductive, under all the faults.                                 *)

\* The existential conjuncts of Inv survive a growing set of offered states.
LEMMA OfferedGrows ==
  ASSUME NEW f, NEW A, NEW B, A \subseteq B, f # None => \E s \in A: From(f, s)
  PROVE  f # None => \E s \in B: From(f, s)
OBVIOUS

\* The store starts in Inv: there is no file yet.
LEMMA InitInv == Init => Inv
BY DEF Init, Inv, Saving

\* Every step of the store and of the machine keeps Inv.
LEMMA NextInv == Inv /\ [Next]_vars => Inv'
<1> SUFFICES ASSUME Inv, [Next]_vars PROVE Inv'
  OBVIOUS
<1> USE FileIsNotNone
<1>1. CASE OpenTmp
  <2>1. pc = "staging" /\ saving # None /\ saving \in DurableState
    BY <1>1 DEF OpenTmp, Inv, Saving
  <2>2. From(tmp', saving) /\ tmp'.intact
    BY <1>1, <2>1, ImageFrom DEF OpenTmp
  <2> QED
    BY <1>1, <2>1, <2>2 DEF OpenTmp, Inv, Saving
<1>2. CASE WriteTmp
  <2>1. From(tmp, saving) /\ tmp.intact /\ tmp.len \in Nat /\ tmp.size \in Nat
    BY <1>2 DEF WriteTmp, Inv, From, File
  <2>2. PICK n \in tmp.len + 1 .. tmp.size:
          /\ tmp' = [tmp EXCEPT !.len = n]
          /\ pc' = IF n = tmp.size THEN "rename" ELSE "write"
    BY <1>2 DEF WriteTmp
  <2>3. n \in Nat
    BY <2>1, <2>2
  <2>4. From(tmp', saving) /\ tmp'.intact /\ tmp'.len = n /\ tmp'.size = tmp.size
    <3>1. LET g == [tmp EXCEPT !.len = n]
          IN  From(g, saving) /\ (tmp.intact => g.intact) /\ g.len = n /\ g.size = tmp.size
      BY <2>1, <2>3, FromCut, Zenon
    <3>2. tmp' = [tmp EXCEPT !.len = n]
      BY <2>2
    <3> QED
      BY <2>1, <3>1, <3>2, Zenon
  <2>5. pc' = "rename" => tmp'.len = tmp'.size
    BY <2>2, <2>4
  <2>6. pc' \in Saving /\ pc \in Saving
    BY <1>2, <2>2 DEF WriteTmp, Saving
  <2> QED
    BY <1>2, <2>4, <2>5, <2>6 DEF WriteTmp, Inv
<1>3. CASE Rename
  <2>1. saving \in offered /\ From(tmp, saving)
    BY <1>3 DEF Rename, Inv, Saving
  <2> QED
    BY <1>3, <2>1 DEF Rename, Inv, Saving
<1>4. ASSUME NEW answer \in {"ok", "failed"}, SaveReturns(answer), UNCHANGED disk
      PROVE  Inv'
  <2>1. pc' \in {"run", "load", "down"}
    BY <1>4 DEF SaveReturns
  <2> QED
    BY <1>4, <2>1 DEF SaveReturns, disk, Inv, Saving
<1>5. CASE WriteFails
  BY <1>4, <1>5 DEF WriteFails
<1>6. CASE WriteReturns
  BY <1>4, <1>6 DEF WriteReturns
<1>7. ASSUME NEW s \in DurableState, Save(s), UNCHANGED <<disk, loaded>>
      PROVE  Inv'
  <2>1. offered \subseteq offered' /\ offered' \subseteq DurableState /\ s \in offered'
    BY <1>7 DEF Save, Inv
  <2>2. /\ file' # None => \E x \in offered': From(file', x)
        /\ settled' # None => \E x \in offered': From(settled', x)
    BY <1>7, <2>1, OfferedGrows DEF disk, Inv
  <2> QED
    BY <1>7, <2>1, <2>2 DEF Save, Inv, Saving
<1>8. CASE Open
  <2>1. CASE Save(Empty)
    BY <1>7, <1>8, <2>1, StoreAssumption DEF Open
  <2>2. CASE pc' = "load" /\ UNCHANGED <<saving, result, offered>>
    BY <1>8, <2>2 DEF Open, disk, Inv, Saving
  <2> QED
    BY <1>8, <2>1, <2>2 DEF Open
<1>9. CASE Load
  <2>1. pc' \in {"run", "down"} /\ UNCHANGED <<disk, saving, offered>>
    BY <1>9 DEF Load
  <2>2. loaded' \in offered \union {None}
    <3>1. CASE file # None /\ readable /\ Valid(file)
      <4>1. PICK s \in offered: From(file, s)
        BY <3>1 DEF Inv
      <4>2. Decode(Present(file)) = s
        BY <3>1, <4>1, WholeDecodes DEF Valid, Whole, Inv
      <4> QED
        BY <1>9, <3>1, <4>2 DEF Load
    <3>2. CASE ~(file # None /\ readable /\ Valid(file))
      BY <1>9, <3>2 DEF Load
    <3> QED
      BY <3>1, <3>2
  <2> QED
    BY <1>9, <2>1, <2>2 DEF Load, Inv, Saving, disk
<1>10. CASE Persist
  BY <1>7, <1>10 DEF Persist
<1>11. CASE Crash
  BY <1>11 DEF Crash, Dies, disk, Inv, Saving
<1>12. CASE Writeback
  BY <1>12 DEF Writeback, Inv
<1>13. CASE PowerLoss
  <2>1. file' # None => \E s \in offered: From(file', s)
    <3>1. CASE file' \in {settled, file}
      BY <3>1 DEF Inv
    <3>2. ASSUME NEW n \in 0 .. file.len, file' = [file EXCEPT !.len = n], file # None
          PROVE  \E s \in offered: From(file', s)
      <4>1. PICK s \in offered: From(file, s)
        BY <3>2 DEF Inv
      <4>2. n \in Nat
        BY <4>1 DEF From, File
      <4> QED
        BY <3>2, <4>1, <4>2, FromCut
    <3> QED
      BY <1>13, <3>1, <3>2 DEF PowerLoss
  <2> QED
    BY <1>13, <2>1 DEF PowerLoss, Dies, Inv, Saving
<1>14. CASE Damage
  <2>1. PICK s \in offered: From(file, s)
    BY <1>14 DEF Damage, Inv
  <2>2. From(file', s)
    BY <1>14, <2>1, FromHarmed DEF Damage
  <2> QED
    BY <1>14, <2>2, Zenon DEF Damage, Inv
<1>15. CASE Unreadable
  BY <1>15 DEF Unreadable, Inv
<1>16. CASE UNCHANGED vars
  BY <1>16 DEF vars, disk, Inv
<1> QED
  BY <1>1, <1>2, <1>3, <1>5, <1>6, <1>8, <1>9, <1>10, <1>11, <1>12, <1>13, <1>14, <1>15, <1>16
     DEF Next, Works

\* Whatever happened to the files, start() loads a state that was saved or
\* fails: the checks of load leave no other file through.
THEOREM LoadsWhatWasSaved == Spec => []LoadedWasSaved
<1>1. Inv => LoadedWasSaved
  BY DEF Inv, LoadedWasSaved
<1> QED
  BY <1>1, InitInv, NextInv, PTL DEF Spec

-----------------------------------------------------------------------------
(* Until power is lost or bytes are harmed, the file at path_ is whole.    *)

FileWhole == NoDiskFault /\ file # None => Whole(file)

\* A fault that has happened stays in the history.
LEMMA FaultsGrow == [Next]_vars => faults \subseteq faults'
BY DEF Next, vars, Happens, WriteFails, PowerLoss, Damage, Unreadable

\* Only the rename changes the file, and what it renames is written out.
LEMMA FileStaysWhole == Inv /\ FileWhole /\ [Next]_vars => FileWhole'
<1> SUFFICES ASSUME Inv, FileWhole, [Next]_vars, NoDiskFault', file' # None PROVE Whole(file)'
  BY DEF FileWhole
<1>1. NoDiskFault
  BY FaultsGrow DEF NoDiskFault
<1>2. CASE Rename
  BY <1>2 DEF Rename, Inv, Whole
<1>3. CASE UNCHANGED file
  BY <1>1, <1>3 DEF FileWhole, Whole
<1>4. Rename \/ UNCHANGED file
  BY DEF NoDiskFault, Happens, Next, Works, vars, disk, OpenTmp, WriteTmp, WriteFails, WriteReturns,
         Open, Load, Persist, Crash, Writeback, PowerLoss, Damage, Unreadable
<1> QED
  BY <1>2, <1>3, <1>4

\* Whichever step of write_file_atomic fails or is the last the process takes,
\* the file at path_ is the whole of what one save was given, and load accepts
\* it exactly if that state is within its limits.
THEOREM StoreNeverTorn == Spec => []NeverTorn
<1>1. Init => FileWhole
  BY DEF Init, FileWhole
<1>2. Inv /\ FileWhole => NeverTorn
  <2> SUFFICES ASSUME Inv, FileWhole, NoDiskFault, file # None
               PROVE  \E s \in offered: file = Image(s, SizeOf[s]) /\ (Valid(file) <=> Fits(s))
    BY DEF NeverTorn
  <2>1. PICK s \in offered: From(file, s)
    BY DEF Inv
  <2>2. s \in DurableState /\ Whole(file)
    BY DEF Inv, FileWhole
  <2>3. file.len = SizeOf[s] /\ SizeOf[s] >= kHeader
    BY <2>1, <2>2, StoreAssumption DEF From, Whole
  <2>4. file = Image(s, SizeOf[s])
    BY <2>1, <2>2, <2>3 DEF From, Whole, Image, File
  <2>5. Valid(file) <=> Fits(s)
    BY <2>1, <2>2, <2>3 DEF Valid, Fits, From, Whole
  <2> QED
    BY <2>4, <2>5
<1> QED
  BY <1>1, <1>2, InitInv, NextInv, FileStaysWhole, PTL DEF Spec

-----------------------------------------------------------------------------
(* The store implements the register of AtomicStore.                       *)

\* Every step of the store is a step of the register, or none: open, stage,
\* write, load and write-back are invisible, the rename is the commit.
LEMMA StepRefines == Inv /\ [Next]_vars => [Register!Next]_(Register!vars)
<1> SUFFICES ASSUME Inv, [Next]_vars, NoDiskFault' PROVE [Register!Next]_(Register!vars)
  BY Zenon DEF Register!Next
<1> USE FileIsNotNone
<1>0. NoDiskFault /\ (~NoDiskFault)' = (~NoDiskFault)
  BY FaultsGrow DEF NoDiskFault
<1>k. Register!Keeps => Register!Next
  BY <1>0 DEF Register!Next
<1> DEFINE invisible == UNCHANGED <<file, saving, result>> /\ pc # "renamed" /\ pc' # "renamed"
<1>1. ASSUME invisible PROVE UNCHANGED Register!vars
  BY <1>0, <1>1 DEF Register!vars
<1>2. CASE OpenTmp \/ WriteTmp
  BY <1>1, <1>2 DEF OpenTmp, WriteTmp
<1>3. CASE Rename
  <2>1. saving \in DurableState /\ From(tmp, saving) /\ Whole(tmp) /\ saving # None
    BY <1>3 DEF Rename, Inv, Saving, Whole
  <2>2. Decode(Present(tmp)) = saving /\ tmp # None
    BY <2>1, WholeDecodes DEF From
  <2>3. Register!Commit
    BY <1>3, <2>1, <2>2 DEF Rename, Register!Commit
  <2> QED
    BY <1>k, <2>3 DEF Register!Keeps
<1>4. CASE WriteFails
  <2>1. saving # None /\ pc # "renamed"
    BY <1>4 DEF WriteFails, Inv, Saving
  <2>2. Register!Fail
    BY <1>4, <2>1 DEF WriteFails, SaveReturns, disk, Register!Fail
  <2> QED
    BY <1>k, <2>2 DEF Register!Keeps
<1>5. CASE WriteReturns
  <2>1. saving # None /\ pc = "renamed" /\ pc' # "renamed"
    BY <1>5 DEF WriteReturns, SaveReturns, Inv, Saving
  <2>2. Register!Succeed
    BY <1>5, <2>1 DEF WriteReturns, SaveReturns, disk, Register!Succeed
  <2> QED
    BY <1>k, <2>2 DEF Register!Keeps
<1>6. ASSUME NEW s \in DurableState, Save(s), UNCHANGED disk, saving = None
      PROVE  Register!Next
  BY <1>k, <1>6 DEF Save, disk, Register!Begin, Register!Keeps
<1>7. CASE Open
  <2>1. saving = None
    BY <1>7 DEF Open, Inv, Saving
  <2>2. CASE Save(Empty)
    BY <1>6, <1>7, <2>1, <2>2, StoreAssumption DEF Open
  <2>3. CASE pc' = "load" /\ UNCHANGED <<saving, result, offered>>
    BY <1>1, <1>7, <2>3 DEF Open, disk
  <2> QED
    BY <1>7, <2>2, <2>3 DEF Open
<1>8. CASE Load
  BY <1>1, <1>8 DEF Load, disk
<1>9. CASE Persist
  <2>1. saving = None
    BY <1>9 DEF Persist, Inv, Saving
  <2> QED
    BY <1>6, <1>9, <2>1 DEF Persist
<1>10. CASE Crash
  <2>1. Register!Crash
    BY <1>10 DEF Crash, Dies, disk, Register!Crash
  <2> QED
    BY <1>k, <2>1 DEF Register!Keeps
<1>11. CASE Writeback \/ Unreadable
  BY <1>0, <1>11 DEF Writeback, Unreadable, Register!vars
<1>12. CASE UNCHANGED vars
  BY <1>0, <1>12 DEF vars, disk, Register!vars
<1> QED
  BY <1>2, <1>3, <1>4, <1>5, <1>7, <1>8, <1>9, <1>10, <1>11, <1>12
     DEF Next, Works, NoDiskFault, Happens, PowerLoss, Damage

\* Staging and rename implement an atomic register under process deaths and
\* failed writes at every step of write_file_atomic, for as long as the disk
\* keeps what it was given.
THEOREM StoreIsAtomic == Spec => IsAtomic
<1>1. Init => Register!Init
  BY DEF Init, Register!Init, NoDiskFault
<1> QED
  BY <1>1, InitInv, NextInv, StepRefines, PTL DEF Spec, IsAtomic, Register!Spec

-----------------------------------------------------------------------------
(* Committed work survives the death of the process.                       *)

Att(f) == Decode(Present(f))[kRecAttempt]

\* What persist() has returned for is in the file, what the coordinator knows
\* is what it saves, and a new store is created only where there was none.
Kept ==
  /\ readable = TRUE
  /\ IF file = None THEN acked = {} ELSE acked \subseteq Att(file)
  /\ loaded # None => acked \subseteq known
  /\ loaded # None /\ pc \in Saving => known = saving[kRecAttempt]
  /\ loaded = None /\ pc \in Saving /\ pc # "renamed" => file = None
  /\ pc = "renamed" => file # None /\ Decode(Present(file)) = saving
  /\ pc \in {"down", "load"} => loaded = None
  /\ pc = "run" => loaded # None

\* Every step that is not a fault of the machine keeps Kept.
LEMMA WorksKept == Inv /\ Kept /\ (Works \/ UNCHANGED vars) => Kept'
<1> SUFFICES ASSUME Inv, Kept, Works \/ UNCHANGED vars PROVE Kept'
  OBVIOUS
<1> USE FileIsNotNone
<1>1. CASE OpenTmp
  BY <1>1 DEF OpenTmp, Kept, Saving
<1>2. CASE WriteTmp
  <2>1. pc \in Saving /\ pc # "renamed" /\ pc' \in Saving /\ pc' \in {"write", "rename"}
    BY <1>2 DEF WriteTmp, Saving
  <2> QED
    BY <1>2, <2>1 DEF WriteTmp, Kept
<1>3. CASE Rename
  <2>1. saving \in DurableState /\ From(tmp, saving) /\ Whole(tmp)
    BY <1>3 DEF Rename, Inv, Saving, Whole
  <2>2. Decode(Present(tmp)) = saving /\ tmp # None
    BY <2>1, WholeDecodes DEF From
  <2>3. acked \subseteq saving[kRecAttempt]
    BY <1>3 DEF Rename, Kept, Saving
  <2>4. file' = tmp /\ pc = "rename" /\ pc' = "renamed" /\ readable' = TRUE
        /\ UNCHANGED <<saving, loaded, known, acked>>
    BY <1>3 DEF Rename
  <2>5. file' # None /\ Decode(Present(file')) = saving'
    BY <2>2, <2>4
  <2>6. acked' \subseteq Decode(Present(file'))[kRecAttempt]
    BY <2>3, <2>4, <2>5
  <2> QED
    BY <2>4, <2>5, <2>6 DEF Kept, Saving, Att
<1>4. CASE WriteReturns
  <2>1. pc = "renamed" /\ SaveReturns("ok") /\ UNCHANGED disk
    BY <1>4 DEF WriteReturns
  <2>2. loaded # None => known = Att(file)
    BY <2>1 DEF Kept, Saving, Att
  <2>3. acked' \subseteq Att(file) /\ file # None
    BY <2>1, <2>2 DEF SaveReturns, Kept
  <2>4. file' = file /\ readable' = TRUE /\ UNCHANGED <<loaded, known>>
    BY <2>1 DEF SaveReturns, disk, Kept
  <2>5. loaded' # None => acked' \subseteq known'
    BY <2>1 DEF SaveReturns, Kept
  <2>6. IF loaded # None THEN pc' = "run" ELSE pc' = "load"
    BY <2>1 DEF SaveReturns
  <2>7. Att(file)' = Att(file)
    BY <2>4 DEF Att
  <2> QED
    BY <2>3, <2>4, <2>5, <2>6, <2>7 DEF Kept, Saving
<1>5. CASE Open
  <2>1. CASE Save(Empty) /\ ~file_exists
    BY <1>5, <2>1 DEF Open, Save, file_exists, disk, Kept, Saving, Att
  <2>2. CASE pc' = "load" /\ UNCHANGED <<saving, result, offered>>
    BY <1>5, <2>2 DEF Open, disk, Kept, Saving, Att
  <2> QED
    BY <1>5, <2>1, <2>2 DEF Open
<1>6. CASE Load
  <2>1. CASE file # None /\ readable /\ Valid(file)
    <3>1. UNCHANGED disk /\ acked' = acked /\ pc = "load" /\ pc' = "run" /\ readable' = TRUE
      BY <1>6, <2>1 DEF Load, disk, Kept
    <3>2. loaded' = Decode(Present(file)) /\ known' = Att(file)
      BY <1>6, <2>1 DEF Load, Att
    <3>3. acked \subseteq Att(file) /\ Att(file)' = Att(file)
      BY <2>1, <3>1 DEF Kept, Att, disk
    <3>4. PICK s \in offered: From(file, s)
      BY <2>1 DEF Inv
    <3>5. loaded' # None
      BY <2>1, <3>2, <3>4, WholeDecodes DEF Inv, Valid, Whole
    <3> QED
      BY <2>1, <3>1, <3>2, <3>3, <3>5 DEF Kept, Saving, disk
  <2>2. CASE ~(file # None /\ readable /\ Valid(file))
    BY <1>6, <2>2 DEF Load, disk, Kept, Saving, Att
  <2> QED
    BY <2>1, <2>2
<1>7. CASE Persist
  BY <1>7 DEF Persist, Save, disk, Kept, Saving, Att
<1>8. CASE Crash
  BY <1>8 DEF Crash, Dies, disk, Kept, Saving, Att
<1>9. CASE Writeback
  BY <1>9 DEF Writeback, Kept, Saving, Att
<1>10. CASE UNCHANGED vars
  BY <1>10 DEF vars, disk, Kept, Saving, Att
<1> QED
  BY <1>1, <1>2, <1>3, <1>4, <1>5, <1>6, <1>7, <1>8, <1>9, <1>10
     DEF Works

\* Until the first fault of the machine, Kept holds.
KeptUntil == faults = {} => Kept

\* The first fault ends what KeptUntil promises; until then every step works.
LEMMA NextKept == Inv /\ KeptUntil /\ [Next]_vars => KeptUntil'
<1> SUFFICES ASSUME Inv, KeptUntil, [Next]_vars, faults' = {} PROVE Kept'
  BY DEF KeptUntil
<1>1. faults = {}
  BY FaultsGrow
<1>2. Works \/ UNCHANGED vars
  BY DEF Next, Happens, WriteFails, PowerLoss, Damage, Unreadable
<1> QED
  BY <1>1, <1>2, WorksKept DEF KeptUntil

\* A coordinator that dies between any two steps of a save and is started
\* again knows every committed attempt that persist() had returned for.
THEOREM CommitsSurvive == Spec => []CommittedSurvives
<1>1. Init => KeptUntil
  BY DEF Init, KeptUntil, Kept, Saving
<1>2. KeptUntil => CommittedSurvives
  BY DEF KeptUntil, Kept, CommittedSurvives
<1> QED
  BY <1>1, <1>2, InitInv, NextInv, NextKept, PTL DEF Spec

-----------------------------------------------------------------------------
(* The socket.                                                             *)

\* The threads between the constructor and the destructor of an operation
Active == {t \in User: user[t] \in {"using", "leaving"}}

\* The closers past the first look
Closing == {c \in Closer: closer[c] \in {"shutdown", "drain"}}

SocketTyped ==
  /\ handle \in BOOLEAN /\ closing \in BOOLEAN
  /\ user \in [User -> {"idle", "using", "leaving"}]
  /\ closer \in [Closer -> {"idle", "shutdown", "drain", "waiting", "done"}]

\* active_operations counts the active threads.
Counted == active_operations = Cardinality(Active)

\* A valid handle is a descriptor that is not closed; operations are active,
\* and one closer goes on, only while it is.
Guarded ==
  /\ handle <=> fd # "closed"
  /\ Active # {} => handle
  /\ Closing # {} => handle /\ closing
  /\ closing => handle
  /\ \A c, d \in Closing: c = d

SocketInv == SocketTyped /\ Counted /\ Guarded

\* A thread that begins an operation is one more, one that ends it one less.
LEMMA CountChanges ==
  ASSUME NEW S, IsFiniteSet(S), NEW t
  PROVE  /\ t \notin S => Cardinality(S \union {t}) = Cardinality(S) + 1
         /\ t \in S => Cardinality(S \ {t}) = Cardinality(S) - 1
         /\ Cardinality(S) = 0 <=> S = {}
  BY FS_AddElement, FS_RemoveElement, FS_EmptySet, Zenon

\* Active threads are finitely many, as the users are.
LEMMA ActiveFinite == IsFiniteSet(Active)
  BY SocketAssumption, FS_Subset DEF Active

\* Every step of a user or of a closer keeps the invariant.
LEMMA SocketStep == SocketInv /\ [SocketNext]_socket_vars => SocketInv'
<1> SUFFICES ASSUME SocketInv, [SocketNext]_socket_vars PROVE SocketInv'
  OBVIOUS
<1>a. Active = {} <=> active_operations = 0
  BY ActiveFinite, CountChanges, Zenon DEF SocketInv, Counted
<1>1. ASSUME NEW t \in User, Acquire(t) PROVE SocketInv'
  <2>1. CASE closing \/ ~handle
    BY <1>1, <2>1 DEF SocketInv, SocketTyped, Counted, Guarded, Active, Closing, Acquire
  <2>2. CASE ~closing /\ handle
    <3>1. t \notin Active /\ Active' = Active \union {t} /\ active_operations' = active_operations + 1
      BY <1>1, <2>2 DEF SocketInv, SocketTyped, Active, Acquire
    <3>2. Counted'
      BY <3>1, ActiveFinite, CountChanges DEF SocketInv, Counted
    <3> QED
      BY <1>1, <2>2, <3>1, <3>2 DEF SocketInv, SocketTyped, Guarded, Closing, Acquire
  <2> QED
    BY <2>1, <2>2 DEF SocketInv, SocketTyped
<1>2. ASSUME NEW t \in User, CallReturns(t) PROVE SocketInv'
  <2>1. Active' = Active
    BY <1>2 DEF SocketInv, SocketTyped, Active, CallReturns
  <2> QED
    BY <1>2, <2>1 DEF SocketInv, SocketTyped, Counted, Guarded, Closing, CallReturns
<1>3. ASSUME NEW t \in User, Release(t) PROVE SocketInv'
  <2>1. t \in Active /\ Active' = Active \ {t} /\ active_operations' = active_operations - 1
    BY <1>3 DEF SocketInv, SocketTyped, Active, Release
  <2>2. Counted'
    BY <2>1, ActiveFinite, CountChanges DEF SocketInv, Counted
  <2> QED
    BY <1>3, <2>1, <2>2 DEF SocketInv, SocketTyped, Guarded, Closing, Release
<1>4. ASSUME NEW c \in Closer, Close(c) PROVE SocketInv'
  <2>1. Active' = Active
    BY <1>4 DEF Active, Close
  <2>2. CASE handle /\ ~closing
    <3>1. Closing = {} /\ Closing' = {c}
      BY <1>4, <2>2 DEF SocketInv, SocketTyped, Guarded, Closing, Close
    <3> QED
      BY <1>4, <2>1, <2>2, <3>1, Zenon DEF SocketInv, SocketTyped, Counted, Guarded, Close
  <2>3. CASE ~handle \/ closing
    <3>1. Closing' = Closing
      BY <1>4, <2>3 DEF SocketInv, SocketTyped, Guarded, Closing, Close
    <3> QED
      BY <1>4, <2>1, <2>3, <3>1 DEF SocketInv, SocketTyped, Counted, Guarded, Close
  <2> QED
    BY <2>2, <2>3 DEF SocketInv, SocketTyped
<1>5. ASSUME NEW c \in Closer, native_shutdown(c) PROVE SocketInv'
  <2>1. Active' = Active /\ Closing' = Closing /\ c \in Closing
    BY <1>5 DEF SocketInv, SocketTyped, Active, Closing, native_shutdown
  <2> QED
    BY <1>5, <2>1 DEF SocketInv, SocketTyped, Counted, Guarded, native_shutdown
<1>6. ASSUME NEW c \in Closer, native_close(c) PROVE SocketInv'
  <2>1. Active' = Active /\ Active = {}
    BY <1>6, <1>a DEF Active, native_close
  <2>2. Closing' = {}
    BY <1>6 DEF SocketInv, SocketTyped, Guarded, Closing, native_close
  <2> QED
    BY <1>6, <2>1, <2>2, Zenon DEF SocketInv, SocketTyped, Counted, Guarded, native_close
<1>7. ASSUME NEW c \in Closer, Waited(c) PROVE SocketInv'
  <2>1. Active' = Active /\ Closing' = Closing
    BY <1>7 DEF SocketInv, SocketTyped, Active, Closing, Waited
  <2> QED
    BY <1>7, <2>1 DEF SocketInv, SocketTyped, Counted, Guarded, Waited
<1>8. CASE UNCHANGED socket_vars
  BY <1>8 DEF SocketInv, SocketTyped, Counted, Guarded, Active, Closing, socket_vars
<1> QED
  BY <1>1, <1>2, <1>3, <1>4, <1>5, <1>6, <1>7, <1>8 DEF SocketNext

\* For all threads: no system call, shutdown or close on a descriptor that
\* has been given back, and no second close.
THEOREM SocketSafe == SocketSpec => []DescriptorIsOurs
<1>1. SocketInit => SocketInv
  <2> SUFFICES ASSUME SocketInit PROVE SocketInv
    OBVIOUS
  <2>1. Active = {} /\ Closing = {}
    BY DEF SocketInit, Active, Closing
  <2> QED
    BY <2>1, FS_EmptySet, Zenon DEF SocketInit, SocketInv, SocketTyped, Counted, Guarded
<1>2. SocketInv => DescriptorIsOurs
  BY DEF SocketInv, Guarded, Active, Closing, DescriptorIsOurs
<1> QED
  BY <1>1, <1>2, SocketStep, PTL DEF SocketSpec
=============================================================================
