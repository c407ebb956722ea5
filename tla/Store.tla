------------------------------- MODULE Store -------------------------------
(***************************************************************************)
(* The durable store (src/src/persist/store.cpp): open, load, and save by  *)
(* staging file and rename, step by step, with the process dying between   *)
(* any two of them, and with the faults of the machine below it.           *)
(*                                                                         *)
(* A DurableState is the records it is stored as: for every record tag a   *)
(* set of entries (a map's entries, the attempts, the placements, the one  *)
(* epoch).  Byte layout is Codec's subject; here a file is the records it  *)
(* was written from, how many of its bytes there are, and whether they are *)
(* unharmed.  That Crc32 tells a harmed file from an unharmed one is       *)
(* assumed.                                                                *)
(***************************************************************************)
EXTENDS Naturals, FiniteSets

CONSTANTS
  Tag,           \* kRecEpoch .. kRecPlacement
  kRecAttempt,   \* the tag of attempt records
  Entry,         \* what a record can hold
  Committed,     \* the entries that are committed attempts
  DurableState,  \* the states persist() makes: committed attempts only
  Empty,         \* DurableState{}: what open() stores in a new file
  SizeOf,        \* bytes of a state's file
  kHeader,       \* bytes of the header: the shortest file
  kMaxFileSize,  \* longest file load accepts
  kMaxRecords,   \* most records load accepts (1 << 20)
  Faults,        \* of the machine: some of "full", "power", "damage", "unreadable"
  None

ASSUME StoreAssumption ==
  /\ kRecAttempt \in Tag /\ Committed \subseteq Entry
  /\ DurableState \subseteq [Tag -> SUBSET Entry] /\ Empty \in DurableState
  /\ \A s \in DurableState: s[kRecAttempt] \subseteq Committed
  /\ SizeOf \in [DurableState -> Nat] /\ kHeader \in Nat
  /\ \A s \in DurableState: SizeOf[s] >= kHeader
  /\ kMaxFileSize \in Nat /\ kMaxRecords \in Nat
  /\ None \notin DurableState
  /\ None \notin [records: SUBSET [tag: Tag, entry: Entry], size: Nat, len: Nat, intact: BOOLEAN]

VARIABLES
  file,      \* the file at path_, or None
  tmp,       \* the file at path_ + ".tmp", or None
  settled,   \* what a loss of power would leave at path_
  readable,  \* whether the file at path_ can be opened
  pc,        \* where the coordinator process is
  saving,    \* the state being saved, or None
  result,    \* of the last save: "none", "ok", "failed"
  loaded,    \* the state start() loaded, or None
  known,     \* the committed attempts in the coordinator's memory
  acked,     \* history: the committed attempts persist() has returned for
  offered,   \* history: the states ever passed to save
  faults     \* history: the kinds of fault that have happened

disk == <<file, tmp, settled, readable>>
vars == <<disk, pc, saving, result, loaded, known, acked, offered, faults>>

-----------------------------------------------------------------------------
Record == [tag: Tag, entry: Entry]

\* save: one record for every entry of the state
records(s) == {r \in Record: r.entry \in s[r.tag]}

\* The first n bytes of what save writes for s
Image(s, n) == [records |-> records(s), size |-> SizeOf[s], len |-> n, intact |-> TRUE]

\* Mutant: the body size in the header is not compared with the bytes there
Valid_unsized(f) == f.len <= kMaxFileSize /\ f.intact /\ Cardinality(f.records) <= kMaxRecords

\* load: the checks of the file, the header, the body and the record count
Valid(f) ==
  /\ f.len >= kHeader /\ f.len <= kMaxFileSize
  /\ f.len = f.size
  /\ f.intact
  /\ Cardinality(f.records) <= kMaxRecords

\* The records a reader finds: all of them only in a whole, unharmed file
Present(f) == IF f.len = f.size /\ f.intact THEN f.records ELSE {}

\* load: the state rebuilt from the records; an attempt only if committed
Decode(R) ==
  [g \in Tag |-> {x \in Entry: /\ [tag |-> g, entry |-> x] \in R
                               /\ g = kRecAttempt => x \in Committed}]

\* A fault of the machine, of a kind it is exposed to
Happens(f) == f \in Faults /\ faults' = faults \union {f}

-----------------------------------------------------------------------------
(* Store::save and write_file_atomic.                                      *)

\* save: the call, by open() for a new store or by persist()
Save(s) ==
  /\ saving' = s /\ offered' = offered \union {s}
  /\ pc' = "staging"
  /\ result' = "none"

\* save returns to open(), which fails with it, or to persist(), which only
\* logs a failure: its caller goes on to answer nodes and clients.
SaveReturns(answer) ==
  /\ result' = answer /\ saving' = None
  /\ pc' = IF loaded # None THEN "run" ELSE IF answer = "ok" THEN "load" ELSE "down"
  /\ acked' = IF loaded # None THEN acked \union known ELSE acked
  /\ UNCHANGED <<loaded, known, offered>>

\* std::ofstream f(tmp, std::ios::binary | std::ios::trunc)
OpenTmp ==
  /\ pc = "staging"
  /\ tmp' = Image(saving, 0) /\ pc' = "write"
  /\ UNCHANGED <<file, settled, readable, saving, result, loaded, known, acked, offered>>

\* Mutant: the staging file is renamed before its buffer is flushed
WriteTmp_unflushed ==
  /\ pc = "write"
  /\ \E n \in tmp.len + 1 .. tmp.size: tmp' = [tmp EXCEPT !.len = n]
  /\ pc' = "rename"
  /\ UNCHANGED <<file, settled, readable, saving, result, loaded, known, acked, offered>>

\* f.write and f.flush hand the bytes to the system, piece by piece
WriteTmp ==
  /\ pc = "write"
  /\ \E n \in tmp.len + 1 .. tmp.size:
       /\ tmp' = [tmp EXCEPT !.len = n]
       /\ pc' = IF n = tmp.size THEN "rename" ELSE "write"
  /\ UNCHANGED <<file, settled, readable, saving, result, loaded, known, acked, offered>>

\* std::rename(tmp, path): the new file is what the next open() finds
Rename ==
  /\ pc = "rename"
  /\ file' = tmp /\ tmp' = None /\ readable' = TRUE /\ pc' = "renamed"
  /\ UNCHANGED <<settled, saving, result, loaded, known, acked, offered>>

\* Mutant: the state of the stream is not looked at after the flush
WriteFails_unseen ==
  /\ Happens("full")
  /\ pc \in {"staging", "write", "rename"}
  /\ SaveReturns("ok")
  /\ UNCHANGED disk

\* A step fails (a full or failing disk, a permission) and save says so; what
\* was written to the staging file stays there.
WriteFails ==
  /\ Happens("full")
  /\ pc \in {"staging", "write", "rename"}
  /\ SaveReturns("failed")
  /\ UNCHANGED disk

WriteReturns == pc = "renamed" /\ SaveReturns("ok") /\ UNCHANGED disk

-----------------------------------------------------------------------------
(* Coordinator::start and persist.                                         *)

\* Mutant: existence is asked of the staging file
file_exists_staged == tmp # None

\* Store::open(store_dir, create_if_missing = true); ensure_dir may fail
file_exists == file # None /\ readable

Open ==
  /\ pc = "down"
  /\ \/ ~file_exists /\ Save(Empty)
     \/ file_exists /\ pc' = "load" /\ UNCHANGED <<saving, result, offered>>
  /\ UNCHANGED <<disk, loaded, known, acked>>

\* start() returns load's error, and the process ends
Load ==
  /\ pc = "load"
  /\ LET ok == file # None /\ readable /\ Valid(file)
     IN  /\ pc' = IF ok THEN "run" ELSE "down"
         /\ loaded' = IF ok THEN Decode(Present(file)) ELSE None
         /\ known' = IF ok THEN Decode(Present(file))[kRecAttempt] ELSE {}
  /\ UNCHANGED <<disk, saving, result, acked, offered>>

\* The coordinator persists a state with every committed attempt it knows,
\* and perhaps a new one.
Persist ==
  /\ pc = "run"
  /\ \E s \in DurableState:
       /\ known \subseteq s[kRecAttempt]
       /\ known' = s[kRecAttempt]
       /\ Save(s)
  /\ UNCHANGED <<disk, loaded, acked>>

-----------------------------------------------------------------------------
(* Faults.                                                                 *)

Dies ==
  /\ pc' = "down" /\ saving' = None /\ result' = "none"
  /\ loaded' = None /\ known' = {}
  /\ UNCHANGED <<acked, offered>>

\* The process ends or is killed between any two of its steps.
Crash == pc # "down" /\ Dies /\ UNCHANGED disk

\* The system writes the renamed file back to the disk, in its own time:
\* nothing in write_file_atomic waits for it.
Writeback ==
  /\ settled # file /\ settled' = file
  /\ UNCHANGED <<file, tmp, readable, pc, saving, result, loaded, known, acked, offered>>

\* The machine stops before that: the old file is back, or the new name is
\* there with a part of its data.
PowerLoss ==
  /\ Happens("power") /\ settled # file /\ file # None
  /\ file' \in {settled, file} \union {[file EXCEPT !.len = n]: n \in 0 .. file.len}
  /\ settled' = file' /\ tmp' = None
  /\ Dies
  /\ UNCHANGED readable

\* The stored bytes are harmed.
Damage ==
  /\ Happens("damage") /\ file # None /\ file.intact
  /\ file' = [file EXCEPT !.intact = FALSE] /\ settled' = file'
  /\ UNCHANGED <<tmp, readable, pc, saving, result, loaded, known, acked, offered>>

\* The file cannot be opened: its permissions, the process's file limit.
Unreadable ==
  /\ Happens("unreadable") /\ file # None /\ readable
  /\ readable' = FALSE
  /\ UNCHANGED <<file, tmp, settled, pc, saving, result, loaded, known, acked, offered>>

-----------------------------------------------------------------------------
Init ==
  /\ file = None /\ tmp = None /\ settled = None /\ readable = TRUE
  /\ pc = "down" /\ saving = None /\ result = "none" /\ loaded = None
  /\ known = {} /\ acked = {} /\ offered = {} /\ faults = {}

\* The process, and the system below it, at work
Works ==
  \/ OpenTmp \/ WriteTmp \/ Rename \/ WriteReturns
  \/ Open \/ Load \/ Persist \/ Crash \/ Writeback

Next ==
  \/ Works /\ UNCHANGED faults
  \/ WriteFails \/ PowerLoss \/ Damage \/ Unreadable

Spec == Init /\ [][Next]_vars

-----------------------------------------------------------------------------
(* Properties.                                                             *)

\* The disk has kept what it was given.
NoDiskFault == "power" \notin faults /\ "damage" \notin faults

\* The store is the register of AtomicStore: its value is what load would
\* return, a save takes effect at the rename and nowhere else, save answers
\* "ok" only after it and "failed" only without it, and the death of the
\* process between any two steps loses nothing but the answer, as long as the
\* disk keeps what it was given.
Register ==
  INSTANCE AtomicStore WITH
    Value <- DurableState,
    Nothing <- None,
    value <- IF file = None THEN None ELSE Decode(Present(file)),
    wanted <- saving,
    committed <- pc = "renamed",
    answer <- result,
    broken <- ~NoDiskFault

IsAtomic == Register!Spec

\* A state within what load accepts.  Nothing in save compares with it.
Fits(s) == SizeOf[s] <= kMaxFileSize /\ Cardinality(records(s)) <= kMaxRecords

\* Whenever there is a file at path_, it is what one save was given, to the
\* last byte: no crash and no failed write leaves a mixture or a part of a
\* state, and the coordinator can start from it exactly if the state is within
\* load's limits on bytes and records.  Power loss may leave a part:
\* write_file_atomic does not wait for the disk.
NeverTorn ==
  NoDiskFault /\ file # None =>
    \E s \in offered: file = Image(s, SizeOf[s]) /\ (Valid(file) <=> Fits(s))

\* save's result is ok only for a state the next start() can load.
EverySaveLoads == NoDiskFault /\ result = "ok" => Valid(file)

\* "Corruption and truncation are detected on load": start() either fails or
\* rebuilds a state that some save was given, whatever happened to the file.
LoadedWasSaved == loaded # None => loaded \in offered

\* "Durable state records committed progress": a coordinator that has loaded
\* its store knows every committed attempt that an earlier persist() had
\* returned for.  A failed save (persist only logs it), an unreadable file
\* (open replaces it) and a loss of power each break this.
CommittedSurvives == faults = {} /\ loaded # None => acked \subseteq known
=============================================================================
