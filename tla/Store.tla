------------------------------- MODULE Store -------------------------------
(***************************************************************************)
(* Files under /persist: the open-file table of kernel/src/vfs/mod.rs,     *)
(* vfs/persistfs.rs, the metadata store of storage/meta.rs and the sector  *)
(* device of arch/x86_64/virtio_blk.rs.                                    *)
(*                                                                         *)
(* Sector 0 is the superblock, sectors 1 .. NBlocks each hold one record.  *)
(* A file is one record, its contents a sequence.  A put writes the        *)
(* superblock, then the record; every sector is written as the driver does *)
(* it, first copied to the one static DATA_BUF, then requested.  A scan    *)
(* of the sectors (find_entry, first_free_block) is one step.              *)
(*                                                                         *)
(* Tasks that run here from a system call have interrupts off and one CPU, *)
(* so they are not preempted: Preemptible is the set of the others (the    *)
(* desktop's task, which records the boot state).  A crash loses memory and the *)
(* steps not taken, never a sector.  through and sole are history.         *)
(***************************************************************************)
EXTENDS Integers, SequencesExt

CONSTANTS
    Keys, Data,       \* paths under /persist; the bytes written
    Tasks,            \* tasks that use the store
    Preemptible,      \* those of them that run with interrupts on
    NBlocks,          \* record sectors, BLOCK_COUNT - 1
    NFds,             \* MAX_OPEN_FILES
    MaxLen,           \* MAX_VALUE_LEN, 425 bytes
    MaxSeq,           \* bound: the last sequence number given out
    RecordFaults,     \* a request for a record sector may fail
    ReadFaults,       \* a read request may fail
    NoTask, NoFile    \* model values

Values == SeqOf(Data, MaxLen)

ASSUME StoreAssumption ==
    /\ Preemptible \subseteq Tasks
    /\ NoTask \notin Tasks /\ NoTask \notin [key : Keys, val : Values]
    /\ NBlocks \in Nat \ {0} /\ NFds \in Nat \ {0}
    /\ MaxLen \in Nat \ {0} /\ MaxSeq \in Nat
    /\ RecordFaults \in BOOLEAN /\ ReadFaults \in BOOLEAN

VARIABLES
    disk,       \* the sectors, 0 .. NBlocks
    dataBuf,    \* DATA_BUF: the sector last copied in by a write or a read
    boot,       \* "off", "format" or "on"
    fmt,        \* the sector format_store is at
    nextSeq,    \* META.next_seq
    meta,       \* the task that holds META, or NoTask
    files,      \* the open-file table
    task,       \* where each task is in a call
    through,    \* what was read and written through each descriptor
    sole        \* nobody but this descriptor wrote its file since it was opened

ram == <<nextSeq, meta, files, task, through, sole>>
vars == <<disk, dataBuf, boot, fmt, ram>>

Blocks == 1 .. NBlocks
Fds == 0 .. NFds - 1
Chunks == Values \ {<<>>}

-----------------------------------------------------------------------------
(* Sectors. *)

Blank == [kind |-> "blank"]
Super(n) == [kind |-> "super", seq |-> n]
Record(k, n, v) == [kind |-> "record", key |-> k, seq |-> n, val |-> v]
Sectors == {Blank} \cup {Super(n) : n \in 1 .. MaxSeq + 1}
           \cup {Record(k, n, v) : k \in Keys, n \in 1 .. MaxSeq, v \in Values}

IsActive(b) == disk[b].kind = "record"
Matches(k) == {b \in Blocks : IsActive(b) /\ disk[b].key = k}

(* find_entry: the match of the highest sequence number, the first of those. *)
Best(k) ==
    CHOOSE b \in Matches(k) :
        \A c \in Matches(k) \ {b} :
            disk[c].seq < disk[b].seq \/ (disk[c].seq = disk[b].seq /\ b < c)
Stored(k) == Matches(k) # {}
Contents(k) == disk[Best(k)].val

FreeBlocks == {b \in Blocks : ~IsActive(b)}
MutFirstFree == 1    \* faulty: the first block, used or not
FirstFree == CHOOSE b \in FreeBlocks : \A c \in FreeBlocks : b <= c

(* What find_entry reports: a read that fails ends the scan with None. *)
Found(k) == (IF ReadFaults THEN {FALSE} ELSE {}) \cup {Stored(k)}

-----------------------------------------------------------------------------
Idle == [pc |-> "idle", op |-> "none", key |-> NoFile, fd |-> 0, val |-> <<>>,
         chunk |-> <<>>, block |-> 0, seq |-> 0, res |-> "none"]

Init ==
    /\ disk = [b \in 0 .. NBlocks |-> Blank]
    /\ dataBuf = Blank
    /\ boot = "off" /\ fmt = 0 /\ nextSeq = 0
    /\ meta = NoTask
    /\ files = [f \in Fds |-> NoFile]
    /\ task = [t \in Tasks |-> Idle]
    /\ through = [f \in Fds |-> <<>>]
    /\ sole = [f \in Fds |-> FALSE]

(* A task not preemptible runs its whole call before anyone else moves. *)
MayRun(t) == \A u \in Tasks \ (Preemptible \cup {t}) : task[u].pc = "idle"

At(t, pc) == boot = "on" /\ MayRun(t) /\ task[t].pc = pc

Goto(t, pc) == task' = [task EXCEPT ![t].pc = pc]
Return(t, res) == task' = [task EXCEPT ![t] = [Idle EXCEPT !.res = res]]

-----------------------------------------------------------------------------
(* meta::init at boot: a superblock without the magic formats the store,   *)
(* sector 0 first and the superblock last.                                 *)

Boot ==
    /\ boot = "off"
    /\ IF disk[0].kind = "super"
       THEN boot' = "on" /\ nextSeq' = disk[0].seq
       ELSE boot' = "format" /\ nextSeq' = 1
    /\ fmt' = 0
    /\ dataBuf' = disk[0]
    /\ UNCHANGED <<disk, meta, files, task, through, sole>>

Format ==
    /\ boot = "format"
    /\ IF fmt <= NBlocks
       THEN disk' = [disk EXCEPT ![fmt] = Blank] /\ fmt' = fmt + 1 /\ boot' = boot
       ELSE disk' = [disk EXCEPT ![0] = Super(nextSeq)] /\ fmt' = 0 /\ boot' = "on"
    /\ dataBuf' = IF fmt <= NBlocks THEN Blank ELSE Super(nextSeq)
    /\ UNCHANGED ram

(* Power is lost, or the machine is reset: memory is gone. *)
Crash ==
    /\ boot # "off"
    /\ boot' = "off" /\ fmt' = 0 /\ nextSeq' = 0 /\ dataBuf' = Blank
    /\ meta' = NoTask
    /\ files' = [f \in Fds |-> NoFile]
    /\ task' = [t \in Tasks |-> Idle]
    /\ through' = [f \in Fds |-> <<>>]
    /\ sole' = [f \in Fds |-> FALSE]
    /\ UNCHANGED disk

-----------------------------------------------------------------------------
(* meta::put: under META the target is chosen, a sequence number is taken  *)
(* and the superblock is written; the record is written after META is      *)
(* released.  MaxSeq bounds the numbers given out.                         *)

MutTarget(found, k) ==    \* faulty: a record that exists is not replaced
    IF FreeBlocks # {} THEN FirstFree ELSE Best(k)
Target(found, k) == IF found THEN Best(k) ELSE FirstFree

PutChoose(t) ==
    /\ At(t, "put") /\ meta = NoTask
    /\ \E found \in Found(task[t].key) :
         IF ~found /\ FreeBlocks = {}
         THEN Return(t, "failed") /\ UNCHANGED <<nextSeq, meta>>
         ELSE /\ nextSeq <= MaxSeq
              /\ task' = [task EXCEPT ![t].block = Target(found, task[t].key),
                                      ![t].seq = nextSeq, ![t].pc = "super"]
              /\ nextSeq' = nextSeq + 1
              /\ meta' = t
    /\ dataBuf' = IF FreeBlocks = {} \/ Stored(task[t].key) THEN disk[NBlocks] ELSE Blank
    /\ UNCHANGED <<disk, boot, fmt, files, through, sole>>

(* write_sector copies the caller's sector to DATA_BUF before the device's *)
(* lock is taken; the request carries whatever is there then.              *)
Fill(t, pc, sector, next) ==
    /\ At(t, pc)
    /\ dataBuf' = sector
    /\ Goto(t, next)
    /\ UNCHANGED <<disk, boot, fmt, nextSeq, meta, files, through, sole>>

PutFillSuper(t) == Fill(t, "super", Super(nextSeq), "superReq")
PutFillRecord(t) ==
    Fill(t, "record", Record(task[t].key, task[t].seq, task[t].val), "recordReq")

(* The superblock's write is not looked at; META is released after it. *)
PutWriteSuper(t) ==
    /\ At(t, "superReq")
    /\ disk' = [disk EXCEPT ![0] = dataBuf]
    /\ meta' = NoTask
    /\ Goto(t, "record")
    /\ UNCHANGED <<dataBuf, boot, fmt, nextSeq, files, through, sole>>

(* A request that failed may have stored its sector all the same. *)
PutWriteRecord(t) ==
    /\ At(t, "recordReq")
    /\ \E stored \in BOOLEAN, ok \in BOOLEAN :
         /\ (~stored \/ ~ok) => RecordFaults
         /\ ok => stored
         /\ disk' = IF stored THEN [disk EXCEPT ![task[t].block] = dataBuf] ELSE disk
         /\ IF ok
            THEN task' = [task EXCEPT ![t].pc = task[t].op, ![t].res = "ok"]
            ELSE Return(t, "failed")
    /\ UNCHANGED <<dataBuf, boot, fmt, nextSeq, meta, files, through, sole>>

-----------------------------------------------------------------------------
(* The calls.  Each ends in persistfs, which asks the store. *)

(* vfs::create: an empty file is put when the lookup says NotFound; then   *)
(* the file is opened.  res, the answer to the last put, stays until the   *)
(* next one.                                                               *)
Create(t, k) ==
    /\ At(t, "idle")
    /\ \E found \in Found(k) :
         task' = [task EXCEPT ![t] = [Idle EXCEPT !.key = k, !.op = "open",
                                        !.pc = IF found THEN "open" ELSE "put",
                                        !.res = IF found THEN task[t].res ELSE "none"]]
    /\ dataBuf' = disk[NBlocks]
    /\ UNCHANGED <<disk, boot, fmt, nextSeq, meta, files, through, sole>>

(* vfs::open: the file is looked up (again), then takes the first free slot. *)
FreeFds == {f \in Fds : files[f] = NoFile}
Open(t) ==
    /\ At(t, "open")
    /\ \E found \in Found(task[t].key) :
         IF found /\ FreeFds # {}
         THEN LET f == CHOOSE g \in FreeFds : \A h \in FreeFds : g <= h
              IN  /\ files' = [files EXCEPT ![f] = [key |-> task[t].key, off |-> 0]]
                  /\ through' = [through EXCEPT ![f] = <<>>]
                  /\ sole' = [sole EXCEPT ![f] = TRUE]
                  /\ Return(t, task[t].res)
         ELSE Return(t, task[t].res) /\ UNCHANGED <<files, through, sole>>
    /\ dataBuf' = disk[NBlocks]
    /\ UNCHANGED <<disk, boot, fmt, nextSeq, meta>>

OpenCall(t, k) ==
    /\ At(t, "idle")
    /\ task' = [task EXCEPT ![t] = [Idle EXCEPT !.key = k, !.op = "open", !.pc = "open",
                                                      !.res = task[t].res]]
    /\ UNCHANGED <<disk, dataBuf, boot, fmt, nextSeq, meta, files, through, sole>>

Close(t, f) ==
    /\ At(t, "idle")
    /\ files[f] # NoFile
    /\ files' = [files EXCEPT ![f] = NoFile]
    /\ through' = [through EXCEPT ![f] = <<>>]
    /\ sole' = [sole EXCEPT ![f] = FALSE]
    /\ UNCHANGED <<disk, dataBuf, boot, fmt, nextSeq, meta, task>>

(* persistfs::write: at offset 0 the data becomes the file; elsewhere it   *)
(* is laid over what is there, up to the record's limit.                   *)
MutAppended(old, off, chunk) == old \o chunk    \* faulty: always at the end
MutReplaced(old, off, chunk) == chunk    \* faulty: the rest is dropped
Patched(old, off, chunk) ==
    SubSeq(old, 1, off) \o chunk \o SubSeq(old, off + Len(chunk) + 1, Len(old))

Write(t, f, chunk) ==
    /\ At(t, "idle")
    /\ files[f] # NoFile
    /\ LET k == files[f].key
           off == files[f].off
           put(val) ==
             /\ task' = [task EXCEPT ![t] = [Idle EXCEPT !.pc = "put", !.op = "written",
                           !.key = k, !.fd = f, !.val = val, !.chunk = chunk]]
             /\ sole' = [g \in Fds |-> IF g # f /\ files[g] # NoFile /\ files[g].key = k
                                       THEN FALSE ELSE sole[g]]
       IN  IF off = 0
           THEN put(chunk) /\ UNCHANGED dataBuf
           ELSE \E found \in Found(k) :
                  /\ IF found /\ off <= Len(Contents(k)) /\ off + Len(chunk) <= MaxLen
                     THEN put(Patched(Contents(k), off, chunk))
                     ELSE UNCHANGED <<task, sole>>
                  /\ dataBuf' = IF found THEN disk[Best(k)] ELSE disk[NBlocks]
    /\ UNCHANGED <<disk, boot, fmt, nextSeq, meta, files, through>>

(* vfs::write again, once the put is done: the descriptor moves on. *)
Written(t) ==
    /\ At(t, "written")
    /\ LET f == task[t].fd
           n == Len(task[t].chunk)
       IN  IF files[f] # NoFile
           THEN /\ files' = [files EXCEPT ![f].off = @ + n]
                /\ through' = [through EXCEPT ![f] = @ \o task[t].chunk]
           ELSE UNCHANGED <<files, through>>
    /\ Return(t, task[t].res)
    /\ UNCHANGED <<disk, dataBuf, boot, fmt, nextSeq, meta, sole>>

(* vfs::read and persistfs::read: a get, and the descriptor moves on.  The  *)
(* caller's buffer holds the file.                                         *)
Read(t, f) ==
    /\ At(t, "idle")
    /\ files[f] # NoFile
    /\ LET k == files[f].key
           off == files[f].off
       IN  \E found \in Found(k) :
             /\ IF found /\ off < Len(Contents(k))
                THEN /\ files' = [files EXCEPT ![f].off = Len(Contents(k))]
                     /\ through' = [through EXCEPT ![f] =
                                      @ \o SubSeq(Contents(k), off + 1, Len(Contents(k)))]
                ELSE UNCHANGED <<files, through>>
             /\ dataBuf' = IF found THEN disk[Best(k)] ELSE disk[NBlocks]
    /\ UNCHANGED <<disk, boot, fmt, nextSeq, meta, task, sole>>

-----------------------------------------------------------------------------
PutStep(t) ==
    \/ PutChoose(t) \/ PutFillSuper(t) \/ PutWriteSuper(t)
    \/ PutFillRecord(t) \/ PutWriteRecord(t)

Call(t) ==
    \/ \E k \in Keys : Create(t, k) \/ OpenCall(t, k)
    \/ \E f \in Fds : Close(t, f) \/ Read(t, f)
    \/ \E f \in Fds, c \in Chunks : Write(t, f, c)

Next ==
    \/ Boot \/ Format \/ Crash
    \/ \E t \in Tasks : Call(t) \/ Open(t) \/ Written(t) \/ PutStep(t)

Spec == Init /\ [][Next]_vars

-----------------------------------------------------------------------------
(* Every variable is of its kind. *)
TypeOK ==
    /\ disk \in [0 .. NBlocks -> Sectors] /\ dataBuf \in Sectors
    /\ boot \in {"off", "format", "on"} /\ fmt \in 0 .. NBlocks + 1
    /\ nextSeq \in 0 .. MaxSeq + 1
    /\ meta \in Tasks \cup {NoTask}
    /\ \A f \in Fds : files[f] = NoFile \/ files[f] \in [key : Keys, off : 0 .. MaxLen]
    /\ through \in [Fds -> Values] /\ sole \in [Fds -> BOOLEAN]
    /\ \A t \in Tasks : task[t].block \in 0 .. NBlocks /\ task[t].val \in Values

(* A path has at most one record: put finds the record it replaces, so no  *)
(* older copy can come back once sequence numbers are compared.            *)
OneRecordPerKey == boot = "on" => \A k \in Keys : Cardinality(Matches(k)) <= 1

(* The superblock on disk is ahead of every record on disk, at every       *)
(* instant at which power may be lost: after a restart no record carries a *)
(* number that is still to be given out.                                   *)
RestartOutranks ==
    disk[0].kind = "super" =>
        \A b \in Blocks : IsActive(b) => disk[b].seq < disk[0].seq

(* Whatever point the power is lost at, the disk names one record for each *)
(* path and the next put outranks it (put, find_entry, init).              *)
RecordsSound == OneRecordPerKey /\ RestartOutranks

(* While nobody else writes its file, a descriptor's offset counts exactly *)
(* the bytes that went through it, and those are the file's first bytes:   *)
(* nothing a failed write, a full store or a second descriptor does moves  *)
(* one without the other.                                                  *)
OffsetsFollowContents ==
    boot = "on" => \A f \in Fds :
        files[f] # NoFile /\ sole[f]
            /\ (\A t \in Tasks : task[t].pc # "written" \/ task[t].fd # f) =>
        /\ Stored(files[f].key)
        /\ files[f].off = Len(through[f])
        /\ SubSeq(Contents(files[f].key), 1, files[f].off) = through[f]

(* Seen through find_entry the sectors are a map in which a put takes      *)
(* effect at once or never, also when power is lost between the            *)
(* superblock's write and the record's.                                    *)
PutPcs == {"put", "super", "superReq", "record", "recordReq"}
AbstractValue == [k \in Keys |-> IF Stored(k) THEN Contents(k) ELSE NoFile]
AbstractPut ==
    [t \in Tasks |-> IF task[t].pc \in PutPcs
                     THEN [key |-> task[t].key, val |-> task[t].val] ELSE NoTask]
Map == INSTANCE Records
    WITH Absent <- NoFile, Nothing <- NoTask, value <- AbstractValue,
         asked <- AbstractPut, answer <- [t \in Tasks |-> task[t].res]
ImplementsRecords == Map!Spec

(* The comment in virtio_blk.rs, "DATA_BUF now holds buf's content": the   *)
(* request for a record's sector carries that record.                      *)
RequestCarriesRecord ==
    \A t \in Tasks : task[t].pc = "recordReq" =>
        dataBuf = Record(task[t].key, task[t].seq, task[t].val)

(* The comment on vfs::create, "Create a file if it does not already       *)
(* exist": a create of a file that is there puts nothing over it.          *)
CreateKeepsContents ==
    [][\A t \in Tasks : task[t].op = "open" /\ task[t].pc = "recordReq" =>
         \A k \in Keys : Stored(k) => Stored(k)' /\ Contents(k)' = Contents(k)]_vars
=============================================================================
