----------------------------- MODULE FileStore -----------------------------
(***************************************************************************)
(* The directory-backed store (rszigbee-core, store/file.rs): how one      *)
(* directory of records is written, deleted from, loaded and quarantined,  *)
(* over failing operations and power losses at any step.                   *)
(*                                                                         *)
(* External: the file system.  A name stands for an inode; an inode has    *)
(* the content every reader sees, and a set of contents that a power loss  *)
(* may leave of it.  fsync of a file makes its content durable; until the  *)
(* directory is fsynced a power loss may undo what was done to its names.  *)
(***************************************************************************)
EXTENDS Naturals, FiniteSets

CONSTANTS Path,        \* records of the directory
          Value,       \* whole, parsable contents
          Absent,      \* no record
          Torn,        \* anything else a file may hold: empty, partial
          Ino,         \* inodes
          Writer,      \* handles on the store that are in use at once
          None

ASSUME ContentsDiffer == Torn \notin Value /\ Absent \notin Value /\ Torn # Absent
ASSUME NoneIsNoInode == None \notin Ino

VARIABLES file,     \* file[p]: the inode p's .json name stands for, or None
          tmp,      \* tmp[p]: the inode p's .tmp name stands for, or None
          names,    \* names[p]: inodes file[p] may be after a power loss
          mem,      \* mem[i]: what a reader of inode i finds
          kept,     \* kept[i]: what may be left of i after a power loss
          op,       \* op[w]: the operation w is in
          settled,  \* settled[p]: p's content when it last was certain
          since     \* since[p]: contents put in place since then

vars == <<file, tmp, names, mem, kept, op, settled, since>>

Content == Value \cup {Absent}
Idle == [step |-> "idle", path |-> None, value |-> None, ino |-> None]
MaybeIno == Ino \cup {None}

\* What a reader finds at p, and what a power loss may leave there.
Visible(p) == IF file[p] = None THEN Absent ELSE mem[file[p]]
Survivors(p) ==
  UNION { IF i = None THEN {Absent} ELSE kept[i] : i \in names[p] }

Init ==
  /\ file = [p \in Path |-> None]
  /\ tmp = [p \in Path |-> None]
  /\ names = [p \in Path |-> {None}]
  /\ mem = [i \in Ino |-> Torn]
  /\ kept = [i \in Ino |-> {Torn}]
  /\ op = [w \in Writer |-> Idle]
  /\ settled = [p \in Path |-> Absent]
  /\ since = [p \in Path |-> {}]

-----------------------------------------------------------------------------
(* One operation after another per writer.                                 *)

Free == Ino \ ({file[p] : p \in Path} \cup {tmp[p] : p \in Path}
               \cup UNION {names[p] : p \in Path} \cup {op[w].ino : w \in Writer})

Goto(w, step) == op' = [op EXCEPT ![w].step = step]
Return(w) == op' = [op EXCEPT ![w] = Idle]

\* upsert_device, save_network, upsert_group, save_backup.
StartWrite(w, p, v) ==
  /\ op[w].step = "idle"
  /\ op' = [op EXCEPT ![w] = [step |-> "create", path |-> p, value |-> v, ino |-> None]]
  /\ UNCHANGED <<file, tmp, names, mem, kept, settled, since>>

\* A slip: the record is written over in place.
CreateInPlace(w) ==
  /\ op[w].step = "create"
  /\ \E i \in IF file[op[w].path] = None THEN Free ELSE {file[op[w].path]} :
       /\ tmp' = [tmp EXCEPT ![op[w].path] = i]
       /\ mem' = [mem EXCEPT ![i] = Torn]
       /\ kept' = [kept EXCEPT ![i] = @ \cup {Torn}]
       /\ op' = [op EXCEPT ![w].step = "write", ![w].ino = i]
  /\ UNCHANGED <<file, names, settled, since>>

\* File::create on the temporary name: a new inode, or the one there truncated.
Create(w) ==
  /\ op[w].step = "create"
  /\ LET p == op[w].path
     IN  \E i \in IF tmp[p] = None THEN Free ELSE {tmp[p]} :
           /\ tmp' = [tmp EXCEPT ![p] = i]
           /\ mem' = [mem EXCEPT ![i] = Torn]
           /\ kept' = [kept EXCEPT ![i] = IF tmp[p] = None THEN {Torn} ELSE @ \cup {Torn}]
           /\ op' = [op EXCEPT ![w].step = "write", ![w].ino = i]
  /\ UNCHANGED <<file, names, settled, since>>

\* A slip: the fsync before the rename is left out.
WriteUnsynced(w) ==
  /\ op[w].step = "write"
  /\ mem' = [mem EXCEPT ![op[w].ino] = op[w].value]
  /\ kept' = [kept EXCEPT ![op[w].ino] = @ \cup {op[w].value}]
  /\ Goto(w, "rename")
  /\ UNCHANGED <<file, tmp, names, settled, since>>

Write(w) ==
  /\ op[w].step = "write"
  /\ mem' = [mem EXCEPT ![op[w].ino] = op[w].value]
  /\ kept' = [kept EXCEPT ![op[w].ino] = @ \cup {op[w].value}]
  /\ Goto(w, "fsync")
  /\ UNCHANGED <<file, tmp, names, settled, since>>

Fsync(w) ==
  /\ op[w].step = "fsync"
  /\ kept' = [kept EXCEPT ![op[w].ino] = {mem[op[w].ino]}]
  /\ Goto(w, "rename")
  /\ UNCHANGED <<file, tmp, names, mem, settled, since>>

\* The temporary name is gone when another writer renamed it first, and
\* then this step can only fail.
Rename(w) ==
  /\ op[w].step = "rename"
  /\ LET p == op[w].path
     IN  /\ tmp[p] # None
         /\ file' = [file EXCEPT ![p] = tmp[p]]
         /\ names' = [names EXCEPT ![p] = @ \cup {tmp[p]}]
         /\ tmp' = [tmp EXCEPT ![p] = None]
         /\ since' = [since EXCEPT ![p] = @ \cup {op[w].value}]
  /\ Goto(w, "dirsync")
  /\ UNCHANGED <<mem, kept, settled>>

\* The fsync of the directory, after which the write returns; its failure
\* is ignored.
DirSync(w) ==
  /\ op[w].step = "dirsync"
  /\ \/ /\ names' = [p \in Path |-> {file[p]}]
        /\ settled' = [settled EXCEPT ![op[w].path] = op[w].value]
        /\ since' = [since EXCEPT ![op[w].path] =
                       {op[u].value : u \in {u \in Writer \ {w} : op[u].step = "dirsync"
                                                               /\ op[u].path = op[w].path}}]
     \/ UNCHANGED <<names, settled, since>>
  /\ Return(w)
  /\ UNCHANGED <<file, tmp, mem, kept>>

\* A step before the directory fsync fails, and the write returns an error.
Fail(w) ==
  /\ op[w].step \in {"create", "write", "fsync", "rename"}
  /\ Return(w)
  /\ UNCHANGED <<file, tmp, names, mem, kept, settled, since>>

\* delete_device and delete_group; what is not there need not be removed.
Delete(w, p) ==
  /\ op[w].step = "idle"
  /\ file[p] # None
  /\ file' = [file EXCEPT ![p] = None]
  /\ names' = [names EXCEPT ![p] = @ \cup {None}]
  /\ since' = [since EXCEPT ![p] = @ \cup {Absent}]
  /\ UNCHANGED <<tmp, mem, kept, op, settled>>

\* load_dir at a start, one file at a time: one that cannot be loaded is
\* moved aside.  Reading may fail although the record is whole.
Load(p) ==
  /\ \A w \in Writer : op[w].step = "idle"
  /\ file[p] # None
  /\ file' = [file EXCEPT ![p] = None]
  /\ names' = [names EXCEPT ![p] = @ \cup {None}]
  /\ since' = [since EXCEPT ![p] = @ \cup {Absent}]
  /\ UNCHANGED <<tmp, mem, kept, op, settled>>

\* The machine loses power and comes back: every name and every content is
\* one of those it may be.  A leftover temporary file is never read, and
\* truncated by the next write.
PowerLoss ==
  /\ file' \in [Path -> MaybeIno]
  /\ \A p \in Path : file'[p] \in names[p]
  /\ mem' \in [Ino -> Value \cup {Torn}]
  /\ \A i \in Ino : mem'[i] \in IF \E p \in Path : file'[p] = i THEN kept[i] ELSE {Torn}
  /\ kept' = [i \in Ino |-> {mem'[i]}]
  /\ names' = [p \in Path |-> {file'[p]}]
  /\ tmp' = [p \in Path |-> None]
  /\ op' = [w \in Writer |-> Idle]
  /\ settled' = [p \in Path |-> IF file'[p] = None THEN Absent ELSE mem'[file'[p]]]
  /\ since' = [p \in Path |-> {}]

Next ==
  \/ \E w \in Writer :
       \/ \E p \in Path, v \in Value : StartWrite(w, p, v)
       \/ Create(w) \/ Write(w) \/ Fsync(w) \/ Rename(w) \/ DirSync(w) \/ Fail(w)
       \/ \E p \in Path : Delete(w, p)
  \/ \E p \in Path : Load(p)
  \/ PowerLoss

Spec == Init /\ [][Next]_vars

-----------------------------------------------------------------------------
(***************************************************************************)
(* "A crash mid-write leaves either the old file or the new one, never a   *)
(* half-written one" (file.rs, header), for readers and for what a power   *)
(* loss leaves: only the content the record last certainly had, or one     *)
(* put in its place since.  So a write acknowledged with its directory     *)
(* fsynced is durable, and one that failed left nothing.                   *)
(***************************************************************************)
OldOrNew ==
  \A p \in Path : Survivors(p) \cup {Visible(p)} \subseteq {settled[p]} \cup since[p]

(***************************************************************************)
(* The directory behaves as one whose records change in one step.          *)
(***************************************************************************)
Atomic == INSTANCE AtomicStore WITH
  rec <- [p \in Path |-> Visible(p)],
  may <- [p \in Path |-> Survivors(p)]

RecordsAreAtomic == Atomic!Spec
=============================================================================
