-------------------------- MODULE FileStoreProofs --------------------------
(***************************************************************************)
(* One handle on the store: for any records, contents and inodes, a        *)
(* directory of records behaves as one whose records change in one step,   *)
(* over failing steps and power losses.                                    *)
(*                                                                         *)
(* A name only ever stands for an inode that was written and fsynced under *)
(* another name, and nothing is written under that name afterwards.  Two   *)
(* handles that write one record share the other name, so that this is     *)
(* about one.                                                              *)
(***************************************************************************)
EXTENDS FileStore, TLAPS

\* What inode i, or the absence of one, is to a reader.
Holds(m, i) == IF i = None THEN Absent ELSE m[i]

Typed ==
  /\ file \in [Path -> MaybeIno]
  /\ tmp \in [Path -> MaybeIno]
  /\ names \in [Path -> SUBSET MaybeIno]
  /\ mem \in [Ino -> Value \cup {Torn}]
  /\ kept \in [Ino -> SUBSET (Value \cup {Torn})]
  /\ op \in [Writer -> [step : {"idle", "create", "write", "fsync", "rename", "dirsync"},
                        path : Path \cup {None}, value : Value \cup {None}, ino : MaybeIno]]
  /\ settled \in [Path -> Content]
  /\ since \in [Path -> SUBSET Content]

\* An inode with a name is whole, durable, and one of the contents expected.
Whole(m, k, i) == i # None => m[i] \in Value /\ k[i] = {m[i]}

Named ==
  \A p \in Path :
    /\ file[p] \in names[p]
    /\ \A i \in names[p] : Whole(mem, kept, i) /\ Holds(mem, i) \in {settled[p]} \cup since[p]

\* The inode under a temporary name has no other name.
Apart ==
  \A p \in Path : tmp[p] # None =>
    \A q \in Path : tmp[p] \notin names[q] /\ (q # p => tmp[q] # tmp[p])

\* Where a write is, and what it has achieved.
Progress(w) ==
  /\ op[w].step # "idle" => op[w].path \in Path /\ op[w].value \in Value
  /\ op[w].step \in {"write", "fsync", "rename"} =>
       op[w].ino # None /\ op[w].ino = tmp[op[w].path]
  /\ op[w].step \in {"fsync", "rename"} => mem[op[w].ino] = op[w].value
  /\ op[w].step = "rename" => kept[op[w].ino] = {op[w].value}
  /\ op[w].step = "dirsync" =>
       /\ op[w].ino # None /\ op[w].ino = file[op[w].path]
       /\ mem[op[w].ino] = op[w].value

IInv == Typed /\ Named /\ Apart /\ \A w \in Writer : Progress(w)

OneHandle == \A u, w \in Writer : u = w

LEMMA InitIInv == Init => IInv
<1> SUFFICES ASSUME Init PROVE IInv
  OBVIOUS
<1>1. Typed
  BY DEF Init, Typed, MaybeIno, Content, Idle
<1>2. Named /\ Apart
  BY DEF Init, Named, Apart, Whole, Holds
<1>3. \A w \in Writer : Progress(w)
  BY DEF Init, Progress, Idle
<1> QED BY <1>1, <1>2, <1>3 DEF IInv

(***************************************************************************)
(* What is done to an inode without a name shows under no name.            *)
(***************************************************************************)
LEMMA OutOfSight ==
  ASSUME IInv, NEW i \in Ino, \A q \in Path : i \notin names[q],
         UNCHANGED <<file, names, settled, since>>,
         mem' \in [Ino -> Value \cup {Torn}], kept' \in [Ino -> SUBSET (Value \cup {Torn})],
         \A j \in Ino \ {i} : mem'[j] = mem[j] /\ kept'[j] = kept[j]
  PROVE  /\ Named'
         /\ \A q \in Path : \A j \in names[q] :
              Holds(mem', j) = Holds(mem, j) /\ (j # None => kept'[j] = kept[j])
<1>1. \A q \in Path : \A j \in names[q] : j # None => mem'[j] = mem[j] /\ kept'[j] = kept[j]
  BY DEF IInv, Typed, MaybeIno
<1>2. \A q \in Path : \A j \in names[q] : Holds(mem', j) = Holds(mem, j)
  BY <1>1 DEF Holds
<1>3. Named'
  BY <1>1, <1>2 DEF IInv, Named, Whole
<1> QED BY <1>1, <1>2, <1>3

\* The steps of a write before its rename keep to an inode without a name.
LEMMA CreateKeeps ==
  ASSUME OneHandle, IInv, NEW w \in Writer, Create(w)
  PROVE  IInv' /\ \A q \in Path : \A j \in names[q] :
                    Holds(mem', j) = Holds(mem, j) /\ (j # None => kept'[j] = kept[j])
<1> DEFINE p == op[w].path
<1>1. p \in Path /\ op[w].value \in Value /\ op[w].step = "create"
  BY DEF Create, IInv, Progress
<1>2. PICK i \in IF tmp[p] = None THEN Free ELSE {tmp[p]} :
        /\ tmp' = [tmp EXCEPT ![p] = i]
        /\ mem' = [mem EXCEPT ![i] = Torn]
        /\ kept' = [kept EXCEPT ![i] = IF tmp[p] = None THEN {Torn} ELSE @ \cup {Torn}]
        /\ op' = [op EXCEPT ![w].step = "write", ![w].ino = i]
  BY DEF Create
<1>3. i \in Ino /\ i # None /\ \A q \in Path : i \notin names[q] /\ (q # p => tmp[q] # i)
  <2>1. CASE tmp[p] = None
    BY <1>2, <2>1, NoneIsNoInode DEF Free
  <2>2. CASE tmp[p] # None
    BY <1>1, <1>2, <2>2 DEF IInv, Typed, Apart, MaybeIno
  <2> QED BY <2>1, <2>2
<1>4. /\ mem' \in [Ino -> Value \cup {Torn}] /\ kept' \in [Ino -> SUBSET (Value \cup {Torn})]
      /\ \A j \in Ino \ {i} : mem'[j] = mem[j] /\ kept'[j] = kept[j]
  BY <1>2, <1>3 DEF IInv, Typed
<1>5. UNCHANGED <<file, names, settled, since>>
  BY DEF Create
<1>6. Named' /\ \A q \in Path : \A j \in names[q] :
                  Holds(mem', j) = Holds(mem, j) /\ (j # None => kept'[j] = kept[j])
  BY <1>3, <1>4, <1>5, OutOfSight
<1>7. Typed'
  <2>1. tmp' \in [Path -> MaybeIno]
    BY <1>1, <1>2, <1>3 DEF IInv, Typed, MaybeIno
  <2>2. op' = [op EXCEPT ![w] = [op[w] EXCEPT !.step = "write", !.ino = i]]
    BY <1>2 DEF IInv, Typed
  <2>3. op' \in [Writer -> [step : {"idle", "create", "write", "fsync", "rename", "dirsync"},
                           path : Path \cup {None}, value : Value \cup {None}, ino : MaybeIno]]
    <3>1. i \in MaybeIno
      BY <1>3 DEF MaybeIno
    <3>2. op[w] \in [step : {"idle", "create", "write", "fsync", "rename", "dirsync"},
                     path : Path \cup {None}, value : Value \cup {None}, ino : MaybeIno]
      BY DEF IInv, Typed
    <3>3. [op[w] EXCEPT !.step = "write", !.ino = i]
            \in [step : {"idle", "create", "write", "fsync", "rename", "dirsync"},
                path : Path \cup {None}, value : Value \cup {None}, ino : MaybeIno]
      BY <3>1, <3>2
    <3> QED BY <2>2, <3>3 DEF IInv, Typed
  <2> QED BY <1>4, <1>5, <2>1, <2>3 DEF IInv, Typed
<1>8. Apart'
  <2>1. tmp'[p] = i /\ \A q \in Path : q # p => tmp'[q] = tmp[q]
    BY <1>1, <1>2 DEF IInv, Typed
  <2>2. \A q \in Path : q # p => tmp[q] # i
    BY <1>3
  <2> QED BY <1>1, <1>3, <1>5, <2>1, <2>2 DEF IInv, Apart
<1>9. ASSUME NEW u \in Writer PROVE Progress(u)'
  <2>1. u = w
    BY DEF OneHandle
  <2>2. /\ op'[u].step = "write" /\ op'[u].path = p /\ op'[u].value = op[w].value
        /\ op'[u].ino = i /\ tmp'[p] = i
    BY <1>1, <1>2, <2>1 DEF IInv, Typed
  <2> QED BY <1>1, <1>3, <2>2 DEF Progress
<1> QED BY <1>6, <1>7, <1>8, <1>9 DEF IInv

LEMMA WriteKeeps ==
  ASSUME OneHandle, IInv, NEW w \in Writer, Write(w) \/ Fsync(w)
  PROVE  IInv' /\ \A q \in Path : \A j \in names[q] :
                    Holds(mem', j) = Holds(mem, j) /\ (j # None => kept'[j] = kept[j])
<1> DEFINE i == op[w].ino
           p == op[w].path
<1>1. /\ p \in Path /\ op[w].value \in Value /\ i # None /\ i = tmp[p]
      /\ op[w].step \in {"write", "fsync"} /\ (op[w].step = "fsync" => mem[i] = op[w].value)
  BY DEF Write, Fsync, IInv, Progress
<1>2. i \in Ino /\ \A q \in Path : i \notin names[q]
  BY <1>1 DEF IInv, Typed, Apart, MaybeIno
<1>3. /\ mem' \in [Ino -> Value \cup {Torn}] /\ kept' \in [Ino -> SUBSET (Value \cup {Torn})]
      /\ \A j \in Ino \ {i} : mem'[j] = mem[j] /\ kept'[j] = kept[j]
      /\ mem'[i] = op[w].value
      /\ op[w].step = "fsync" => kept'[i] = {op[w].value}
  <2>1. CASE Write(w)
    BY <1>1, <1>2, <2>1 DEF Write, IInv, Typed
  <2>2. CASE Fsync(w)
    BY <1>1, <1>2, <2>2 DEF Fsync, IInv, Typed
  <2> QED BY <2>1, <2>2
<1>4. /\ UNCHANGED <<file, tmp, names, settled, since>>
      /\ op' = [op EXCEPT ![w].step = IF op[w].step = "write" THEN "fsync" ELSE "rename"]
  BY DEF Write, Fsync, Goto
<1>5. Named' /\ \A q \in Path : \A j \in names[q] :
                  Holds(mem', j) = Holds(mem, j) /\ (j # None => kept'[j] = kept[j])
  BY <1>2, <1>3, <1>4, OutOfSight
<1>6. Typed'
  <2>1. op' \in [Writer -> [step : {"idle", "create", "write", "fsync", "rename", "dirsync"},
                           path : Path \cup {None}, value : Value \cup {None}, ino : MaybeIno]]
    BY <1>4 DEF IInv, Typed
  <2>2. UNCHANGED <<file, tmp, names, settled, since>>
    BY <1>4
  <2> QED BY <1>3, <2>1, <2>2 DEF IInv, Typed
<1>7. Apart'
  BY <1>4 DEF IInv, Apart
<1>8. ASSUME NEW u \in Writer PROVE Progress(u)'
  <2>1. u = w
    BY DEF OneHandle
  <2>2. /\ op'[u].step = IF op[w].step = "write" THEN "fsync" ELSE "rename"
        /\ op'[u].path = p /\ op'[u].value = op[w].value /\ op'[u].ino = i /\ tmp'[p] = i
    BY <1>1, <1>4, <2>1 DEF IInv, Typed
  <2> QED BY <1>1, <1>3, <2>2 DEF Progress
<1> QED BY <1>5, <1>6, <1>7, <1>8 DEF IInv

LEMMA RenameKeeps ==
  ASSUME OneHandle, IInv, NEW w \in Writer, Rename(w)
  PROVE  /\ IInv'
         /\ op[w].path \in Path /\ op[w].value \in Value
         /\ file' = [file EXCEPT ![op[w].path] = op[w].ino]
         /\ names' = [names EXCEPT ![op[w].path] = @ \cup {op[w].ino}]
         /\ Holds(mem, op[w].ino) = op[w].value /\ UNCHANGED <<mem, kept>>
<1> DEFINE i == op[w].ino
           p == op[w].path
<1>1. /\ p \in Path /\ op[w].value \in Value /\ i # None /\ i = tmp[p]
      /\ mem[i] = op[w].value /\ kept[i] = {op[w].value} /\ op[w].step = "rename"
  BY DEF Rename, IInv, Progress
<1>2. i \in Ino /\ \A q \in Path : q # p => tmp[q] # i
  BY <1>1 DEF IInv, Typed, Apart, MaybeIno
<1>3. /\ file' = [file EXCEPT ![p] = i] /\ names' = [names EXCEPT ![p] = @ \cup {i}]
      /\ tmp' = [tmp EXCEPT ![p] = None] /\ since' = [since EXCEPT ![p] = @ \cup {op[w].value}]
      /\ op' = [op EXCEPT ![w].step = "dirsync"] /\ UNCHANGED <<mem, kept, settled>>
  BY <1>1 DEF Rename, Goto
<1>4. Typed'
  BY <1>1, <1>2, <1>3 DEF IInv, Typed, MaybeIno, Content
<1>5. Holds(mem, i) = op[w].value /\ Whole(mem, kept, i)
  BY <1>1 DEF Holds, Whole
<1>6. Named'
  <2> SUFFICES ASSUME NEW q \in Path
               PROVE  /\ file'[q] \in names'[q]
                      /\ \A j \in names'[q] :
                           Whole(mem, kept, j) /\ Holds(mem, j) \in {settled[q]} \cup since'[q]
    BY <1>3 DEF Named
  <2>1. CASE q = p
    BY <1>1, <1>3, <1>5, <2>1 DEF IInv, Typed, Named
  <2>2. CASE q # p
    BY <1>3, <2>2 DEF IInv, Typed, Named
  <2> QED BY <2>1, <2>2
<1>7. Apart'
  BY <1>1, <1>2, <1>3 DEF IInv, Typed, Apart
<1>8. ASSUME NEW u \in Writer PROVE Progress(u)'
  <2>1. u = w
    BY DEF OneHandle
  <2>2. /\ op'[u].step = "dirsync" /\ op'[u].path = p /\ op'[u].value = op[w].value
        /\ op'[u].ino = i /\ file'[p] = i
    BY <1>1, <1>3, <2>1 DEF IInv, Typed
  <2> QED BY <1>1, <1>3, <2>2 DEF Progress
<1> QED BY <1>1, <1>3, <1>4, <1>5, <1>6, <1>7, <1>8 DEF IInv

LEMMA DirSyncKeeps ==
  ASSUME OneHandle, IInv, NEW w \in Writer, DirSync(w)
  PROVE  IInv' /\ UNCHANGED <<file, mem, kept>>
               /\ (names' = names \/ names' = [q \in Path |-> {file[q]}])
<1> DEFINE p == op[w].path
<1>1. /\ p \in Path /\ op[w].value \in Value
      /\ file[p] # None /\ mem[file[p]] = op[w].value
  BY DEF DirSync, IInv, Progress
<1>2. op' = [op EXCEPT ![w] = Idle] /\ UNCHANGED <<file, tmp, mem, kept>>
  BY DEF DirSync, Return
<1>3. ASSUME NEW u \in Writer PROVE Progress(u)'
  <2>1. u = w
    BY DEF OneHandle
  <2>2. op'[u].step = "idle"
    BY <1>2, <2>1 DEF IInv, Typed, Idle
  <2> QED BY <2>2 DEF Progress
<1>4. op' \in [Writer -> [step : {"idle", "create", "write", "fsync", "rename", "dirsync"},
                          path : Path \cup {None}, value : Value \cup {None}, ino : MaybeIno]]
  BY <1>2 DEF IInv, Typed, Idle, MaybeIno
<1>5. CASE UNCHANGED <<names, settled, since>>
  <2>1. Typed' /\ Named' /\ Apart'
    BY <1>2, <1>4, <1>5 DEF IInv, Typed, Named, Apart
  <2> QED BY <1>2, <1>3, <1>5, <2>1 DEF IInv
<1>6. CASE /\ names' = [q \in Path |-> {file[q]}]
           /\ settled' = [settled EXCEPT ![p] = op[w].value]
           /\ since' = [since EXCEPT ![p] =
                          {op[u].value : u \in {u \in Writer \ {w} : op[u].step = "dirsync"
                                                                  /\ op[u].path = p}}]
  <2>1. since' = [since EXCEPT ![p] = {}]
    <3>1. Writer \ {w} = {}
      BY DEF OneHandle
    <3> QED BY <1>6, <3>1
  <2>2. Typed'
    <3>1. names' \in [Path -> SUBSET MaybeIno]
      BY <1>6 DEF IInv, Typed
    <3>2. settled' \in [Path -> Content] /\ since' \in [Path -> SUBSET Content]
      BY <1>1, <1>6, <2>1 DEF IInv, Typed, Content
    <3> QED BY <1>2, <1>4, <3>1, <3>2 DEF IInv, Typed
  <2>3. Named'
    <3> SUFFICES ASSUME NEW q \in Path
                 PROVE  /\ file[q] \in names'[q]
                        /\ \A j \in names'[q] :
                             Whole(mem, kept, j) /\ Holds(mem, j) \in {settled'[q]} \cup since'[q]
      BY <1>2 DEF Named
    <3>1. names'[q] = {file[q]} /\ Whole(mem, kept, file[q])
          /\ Holds(mem, file[q]) \in {settled[q]} \cup since[q]
      BY <1>6 DEF IInv, Named
    <3>2. CASE q = p
      BY <1>1, <1>6, <2>1, <3>1, <3>2 DEF IInv, Typed, Holds
    <3>3. CASE q # p
      BY <1>6, <2>1, <3>1, <3>3 DEF IInv, Typed
    <3> QED BY <3>2, <3>3
  <2>4. Apart'
    BY <1>2, <1>6 DEF IInv, Apart, Named
  <2> QED BY <1>2, <1>3, <1>6, <2>2, <2>3, <2>4 DEF IInv
<1> QED BY <1>5, <1>6 DEF DirSync

\* A record goes: deleted, or moved aside at a start.
Goes(p) ==
  /\ p \in Path
  /\ file' = [file EXCEPT ![p] = None]
  /\ names' = [names EXCEPT ![p] = @ \cup {None}]
  /\ since' = [since EXCEPT ![p] = @ \cup {Absent}]
  /\ UNCHANGED <<tmp, mem, kept, op, settled>>

LEMMA GoingKeeps ==
  ASSUME IInv, NEW p, Goes(p), \A w \in Writer : op[w].step = "idle"
  PROVE  IInv'
<1>1. Typed'
  BY DEF Goes, IInv, Typed, MaybeIno, Content
<1>2. Named'
  <2> SUFFICES ASSUME NEW q \in Path
               PROVE  /\ file'[q] \in names'[q]
                      /\ \A j \in names'[q] :
                           Whole(mem, kept, j) /\ Holds(mem, j) \in {settled[q]} \cup since'[q]
    BY DEF Goes, Named
  <2>1. CASE q = p
    BY <2>1 DEF Goes, IInv, Typed, Named, Whole, Holds
  <2>2. CASE q # p
    BY <2>2 DEF Goes, IInv, Typed, Named
  <2> QED BY <2>1, <2>2
<1>3. Apart'
  BY DEF Goes, IInv, Typed, Apart
<1>4. ASSUME NEW w \in Writer PROVE Progress(w)'
  BY DEF Goes, Progress
<1> QED BY <1>1, <1>2, <1>3, <1>4 DEF IInv

LEMMA PowerLossKeeps ==
  ASSUME IInv, PowerLoss
  PROVE  /\ IInv'
         /\ \A p \in Path : /\ names'[p] = {file'[p]} /\ file'[p] \in names[p]
                            /\ Holds(mem', file'[p]) = Holds(mem, file'[p])
                            /\ Holds(mem', file'[p]) \in Content
<1>1. /\ file' \in [Path -> MaybeIno] /\ \A p \in Path : file'[p] \in names[p]
      /\ mem' \in [Ino -> Value \cup {Torn}]
      /\ \A i \in Ino : mem'[i] \in IF \E p \in Path : file'[p] = i THEN kept[i] ELSE {Torn}
      /\ kept' = [i \in Ino |-> {mem'[i]}]
      /\ names' = [p \in Path |-> {file'[p]}]
      /\ tmp' = [p \in Path |-> None]
      /\ op' = [w \in Writer |-> Idle]
      /\ settled' = [p \in Path |-> IF file'[p] = None THEN Absent ELSE mem'[file'[p]]]
      /\ since' = [p \in Path |-> {}]
  BY DEF PowerLoss
<1>2. ASSUME NEW p \in Path, file'[p] # None
      PROVE  file'[p] \in Ino /\ mem'[file'[p]] = mem[file'[p]] /\ mem'[file'[p]] \in Value
  <2>1. file'[p] \in Ino /\ file'[p] \in names[p]
    BY <1>1, <1>2 DEF MaybeIno
  <2>2. mem[file'[p]] \in Value /\ kept[file'[p]] = {mem[file'[p]]}
    BY <1>2, <2>1 DEF IInv, Named, Whole
  <2>3. mem'[file'[p]] \in kept[file'[p]]
    BY <1>1, <2>1
  <2> QED BY <2>1, <2>2, <2>3
<1>3. \A p \in Path : /\ Holds(mem', file'[p]) = Holds(mem, file'[p])
                      /\ Holds(mem', file'[p]) \in Content
                      /\ Holds(mem', file'[p]) = settled'[p]
  BY <1>1, <1>2 DEF Holds, Content
<1>4. Typed'
  <2>1. settled' \in [Path -> Content] /\ since' \in [Path -> SUBSET Content]
    BY <1>1, <1>2 DEF Content
  <2>2. names' \in [Path -> SUBSET MaybeIno] /\ tmp' \in [Path -> MaybeIno]
    BY <1>1 DEF MaybeIno
  <2>3. kept' \in [Ino -> SUBSET (Value \cup {Torn})]
    BY <1>1
  <2>4. op' \in [Writer -> [step : {"idle", "create", "write", "fsync", "rename", "dirsync"},
                            path : Path \cup {None}, value : Value \cup {None}, ino : MaybeIno]]
    BY <1>1 DEF Idle, MaybeIno
  <2> QED BY <1>1, <2>1, <2>2, <2>3, <2>4 DEF Typed
<1>5. Named'
  <2> SUFFICES ASSUME NEW q \in Path PROVE Whole(mem', kept', file'[q])
    BY <1>1, <1>3 DEF Named
  <2> QED BY <1>1, <1>2 DEF Whole
<1>6. Apart'
  BY <1>1 DEF Apart
<1>7. \A w \in Writer : Progress(w)'
  BY <1>1 DEF Progress, Idle
<1> QED BY <1>1, <1>3, <1>4, <1>5, <1>6, <1>7 DEF IInv

LEMMA StepIInv ==
  ASSUME OneHandle, IInv, [Next]_vars
  PROVE  IInv'
<1>1. ASSUME NEW w \in Writer, NEW p \in Path, NEW v \in Value, StartWrite(w, p, v) PROVE IInv'
  <2>1. Typed'
    BY <1>1 DEF StartWrite, IInv, Typed, MaybeIno
  <2>2. Named' /\ Apart'
    BY <1>1 DEF StartWrite, IInv, Named, Apart
  <2>3. ASSUME NEW u \in Writer PROVE Progress(u)'
    <3>1. u = w
      BY DEF OneHandle
    <3>2. op'[u].step = "create" /\ op'[u].path = p /\ op'[u].value = v
      BY <1>1, <3>1 DEF StartWrite, IInv, Typed
    <3> QED BY <3>2 DEF Progress
  <2> QED BY <2>1, <2>2, <2>3 DEF IInv
<1>2. ASSUME NEW w \in Writer, Fail(w) PROVE IInv'
  <2>1. Typed'
    BY <1>2 DEF Fail, Return, Idle, IInv, Typed, MaybeIno
  <2>2. Named' /\ Apart'
    BY <1>2 DEF Fail, IInv, Named, Apart
  <2>3. ASSUME NEW u \in Writer PROVE Progress(u)'
    <3>1. u = w
      BY DEF OneHandle
    <3>2. op'[u].step = "idle"
      BY <1>2, <3>1 DEF Fail, Return, Idle, IInv, Typed
    <3> QED BY <3>2 DEF Progress
  <2> QED BY <2>1, <2>2, <2>3 DEF IInv
<1>3. ASSUME NEW w \in Writer, Create(w) \/ Write(w) \/ Fsync(w) \/ Rename(w) \/ DirSync(w)
      PROVE  IInv'
  BY <1>3, CreateKeeps, WriteKeeps, RenameKeeps, DirSyncKeeps
<1>4. ASSUME NEW w \in Writer, NEW p \in Path, Delete(w, p) PROVE IInv'
  <2>1. Goes(p) /\ \A u \in Writer : op[u].step = "idle"
    BY <1>4 DEF Delete, Goes, OneHandle
  <2> QED BY <2>1, GoingKeeps
<1>5. ASSUME NEW p \in Path, Load(p) PROVE IInv'
  <2>1. Goes(p) /\ \A u \in Writer : op[u].step = "idle"
    BY <1>5 DEF Load, Goes
  <2> QED BY <2>1, GoingKeeps
<1>6. CASE PowerLoss
  BY <1>6, PowerLossKeeps
<1>7. CASE UNCHANGED vars
  BY <1>7 DEF vars, IInv, Typed, Named, Apart, Progress
<1> QED BY <1>1, <1>2, <1>3, <1>4, <1>5, <1>6, <1>7 DEF Next
-----------------------------------------------------------------------------
\* What readers find, and what a power loss may leave.
LEMMA Seen ==
  ASSUME IInv, NEW p \in Path
  PROVE  Visible(p) = Holds(mem, file[p]) /\ Survivors(p) = {Holds(mem, i) : i \in names[p]}
<1>1. \A i \in names[p] : i # None => kept[i] = {mem[i]}
  BY DEF IInv, Named, Whole
<1>2. Survivors(p) = {Holds(mem, i) : i \in names[p]}
  BY <1>1 DEF Survivors, Holds
<1> QED BY <1>2 DEF Visible, Holds

LEMMA SeenNext ==
  ASSUME IInv', NEW p \in Path
  PROVE  /\ Visible(p)' = Holds(mem', file'[p])
         /\ Survivors(p)' = {Holds(mem', i) : i \in names'[p]}
<1>1. \A i \in names'[p] : i # None => kept'[i] = {mem'[i]}
  BY DEF IInv, Named, Whole
<1>2. Survivors(p)' = {Holds(mem', i) : i \in names'[p]}
  BY <1>1 DEF Survivors, Holds
<1> QED BY <1>2 DEF Visible, Holds

(***************************************************************************)
(* A reader, and a power loss, find the old record or the new one: nothing *)
(* half-written, and nothing older than what was made durable.             *)
(***************************************************************************)
THEOREM NeverTorn ==
  ASSUME OneHandle
  PROVE  Spec => []OldOrNew
<1>1. IInv => OldOrNew
  <2> SUFFICES ASSUME IInv, NEW p \in Path
               PROVE  Survivors(p) \cup {Visible(p)} \subseteq {settled[p]} \cup since[p]
    BY DEF OldOrNew
  <2> QED BY Seen DEF IInv, Named
<1>2. IInv /\ [Next]_vars => IInv'
  BY StepIInv
<1> QED BY <1>1, <1>2, InitIInv, PTL DEF Spec

\* The two variables of the abstract store.
rec == [p \in Path |-> Visible(p)]
may == [p \in Path |-> Survivors(p)]

\* A record changes as a whole.
LEMMA Changes ==
  ASSUME IInv, IInv', NEW p \in Path, NEW i,
         file' = [file EXCEPT ![p] = i], names' = [names EXCEPT ![p] = @ \cup {i}],
         UNCHANGED <<mem, kept>>
  PROVE  Atomic!Change(p, Holds(mem, i))
<1>1. \A q \in Path : /\ file'[q] = IF q = p THEN i ELSE file[q]
                      /\ names'[q] = IF q = p THEN names[p] \cup {i} ELSE names[q]
  BY DEF IInv, Typed
<1>2. \A q \in Path : Visible(q)' = IF q = p THEN Holds(mem, i) ELSE Visible(q)
  BY <1>1, Seen, SeenNext
<1>3. ASSUME NEW q \in Path
      PROVE  Survivors(q)' = IF q = p THEN Survivors(q) \cup {Holds(mem, i)} ELSE Survivors(q)
  <2>1. Survivors(q)' = {Holds(mem, j) : j \in names'[q]}
    BY SeenNext
  <2>2. Survivors(q) = {Holds(mem, j) : j \in names[q]}
    BY Seen
  <2> QED BY <1>1, <2>1, <2>2
<1> QED BY <1>2, <1>3 DEF Atomic!Change

\* Nothing a reader or a power loss would find changes.
LEMMA Stutters ==
  ASSUME IInv, IInv', UNCHANGED <<file, names>>,
         \A q \in Path : \A j \in names[q] : Holds(mem', j) = Holds(mem, j)
  PROVE  UNCHANGED <<rec, may>>
<1>1. ASSUME NEW q \in Path PROVE Visible(q)' = Visible(q) /\ Survivors(q)' = Survivors(q)
  <2>1. Visible(q)' = Visible(q)
    BY Seen, SeenNext DEF IInv, Named
  <2>2. Survivors(q)' = {Holds(mem', j) : j \in names[q]}
    BY SeenNext
  <2>3. Survivors(q) = {Holds(mem, j) : j \in names[q]}
    BY Seen
  <2>4. {Holds(mem', j) : j \in names[q]} = {Holds(mem, j) : j \in names[q]}
    OBVIOUS
  <2> QED BY <2>1, <2>2, <2>3, <2>4
<1> QED BY <1>1 DEF rec, may

LEMMA StepsAtomically ==
  ASSUME OneHandle, IInv, IInv', [Next]_vars
  PROVE  Atomic!Next \/ UNCHANGED <<rec, may>>
<1>1. CASE UNCHANGED <<file, names, mem, kept>>
  BY <1>1, Stutters
<1>2. ASSUME NEW w \in Writer, Create(w) \/ Write(w) \/ Fsync(w) PROVE UNCHANGED <<rec, may>>
  <2>1. UNCHANGED <<file, names>>
    BY <1>2 DEF Create, Write, Fsync
  <2> QED BY <1>2, <2>1, CreateKeeps, WriteKeeps, Stutters
<1>3. ASSUME NEW w \in Writer, Rename(w) PROVE Atomic!Next
  <2>1. Atomic!Change(op[w].path, op[w].value) /\ op[w].path \in Path /\ op[w].value \in Value
    BY <1>3, RenameKeeps, Changes
  <2> QED BY <2>1 DEF Atomic!Next, Atomic!Content
<1>4. ASSUME NEW w \in Writer, DirSync(w) PROVE Atomic!Next \/ UNCHANGED <<rec, may>>
  <2>1. UNCHANGED <<file, mem, kept>> /\ (names' = names \/ names' = [q \in Path |-> {file[q]}])
    BY <1>4, DirSyncKeeps
  <2>2. CASE names' = names
    BY <1>1, <2>1, <2>2
  <2>3. CASE names' = [q \in Path |-> {file[q]}]
    <3>1. ASSUME NEW q \in Path PROVE Visible(q)' = Visible(q) /\ Survivors(q)' = {Visible(q)}
      <4>1. Visible(q)' = Holds(mem, file[q]) /\ Visible(q) = Holds(mem, file[q])
        BY <2>1, Seen, SeenNext
      <4>2. Survivors(q)' = {Holds(mem, j) : j \in {file[q]}}
        BY <2>1, <2>3, SeenNext
      <4> QED BY <4>1, <4>2
    <3> QED BY <3>1 DEF Atomic!Next, Atomic!Sync
  <2> QED BY <2>1, <2>2, <2>3
<1>5. ASSUME NEW w \in Writer, NEW p \in Path, Delete(w, p) PROVE Atomic!Next
  <2>1. Atomic!Change(p, Holds(mem, None))
    BY <1>5, Changes DEF Delete
  <2> QED BY <2>1 DEF Atomic!Next, Atomic!Content, Holds
<1>6. ASSUME NEW p \in Path, Load(p) PROVE Atomic!Next
  <2>1. Atomic!Change(p, Holds(mem, None))
    BY <1>6, Changes DEF Load
  <2> QED BY <2>1 DEF Atomic!Next, Atomic!Content, Holds
<1>7. CASE PowerLoss
  <2>1. \A p \in Path : /\ names'[p] = {file'[p]} /\ file'[p] \in names[p]
                        /\ Holds(mem', file'[p]) = Holds(mem, file'[p])
                        /\ Holds(mem', file'[p]) \in Content
    BY <1>7, PowerLossKeeps
  <2>2. ASSUME NEW p \in Path
        PROVE  /\ Visible(p)' \in Content /\ Visible(p)' \in Survivors(p)
               /\ Survivors(p)' = {Visible(p)'}
    <3>1. Visible(p)' = Holds(mem', file'[p])
      BY SeenNext
    <3>2. Survivors(p)' = {Holds(mem', j) : j \in {file'[p]}}
      BY <2>1, SeenNext
    <3>3. Survivors(p) = {Holds(mem, j) : j \in names[p]}
      BY Seen
    <3> QED BY <2>1, <3>1, <3>2, <3>3
  <2>3. Atomic!PowerLoss
    BY <2>2 DEF Atomic!PowerLoss, Atomic!Content, Content
  <2> QED BY <2>3 DEF Atomic!Next
<1> QED BY <1>1, <1>2, <1>3, <1>4, <1>5, <1>6, <1>7
     DEF Next, StartWrite, Fail, vars

(***************************************************************************)
(* The directory implements the store whose records change in one step:    *)
(* creating, writing, fsyncing and failing change nothing anybody finds.   *)
(***************************************************************************)
THEOREM ActsAtomically ==
  ASSUME OneHandle
  PROVE  Spec => RecordsAreAtomic
<1>1. Init => Atomic!Init
  <2> SUFFICES ASSUME Init, NEW p \in Path PROVE Visible(p) = Absent /\ Survivors(p) = {Absent}
    BY DEF Atomic!Init
  <2> QED BY DEF Init, Visible, Survivors
<1>2. IInv /\ [Next]_vars => IInv'
  BY StepIInv
<1>3. IInv /\ IInv' /\ [Next]_vars => [Atomic!Next]_<<rec, may>>
  BY StepsAtomically
<1> QED BY <1>1, <1>2, <1>3, InitIInv, PTL DEF Spec, RecordsAreAtomic, Atomic!Spec, rec, may
=============================================================================
