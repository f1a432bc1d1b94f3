---------------------------- MODULE Store_proofs ----------------------------
(***************************************************************************)
(* Theorems about the files under /persist, for every number of tasks,     *)
(* paths, descriptors and sectors and every length of a file: whatever     *)
(* point the power is lost at, the disk is a map from paths to contents.   *)
(***************************************************************************)
EXTENDS Store, FiniteSetTheorems, SequenceTheorems, TLAPS

-----------------------------------------------------------------------------
(* Least and greatest elements.                                            *)

(* Every set of naturals that is not empty has a least element.  The       *)
(* intervals below its elements are ordered by strict inclusion, which is  *)
(* well-founded, as the elements are by <.                                 *)
LEMMA LeastNatural ==
  ASSUME NEW S, S \subseteq Nat, S # {}
  PROVE  \E x \in S : \A y \in S : x <= y
<1> DEFINE Below == {0 .. x : x \in S}
<1>1. Below # {}
  OBVIOUS
<1>2. Below \subseteq FiniteSubsetsOf(Nat)
  <2>1. \A x \in S : IsFiniteSet(0 .. x)
    BY FS_Interval
  <2>2. \A x \in S : 0 .. x \in SUBSET Nat
    OBVIOUS
  <2> QED BY <2>1, <2>2 DEF FiniteSubsetsOf
<1>3. PICK B \in Below : \A C \in Below : <<C, B>> \notin StrictSubsetOrdering(Nat)
  <2> HIDE DEF Below
  <2> QED BY <1>1, <1>2, FS_StrictSubsetOrderingWellFounded, WFMin
<1>4. PICK x \in S : B = 0 .. x
  OBVIOUS
<1>5. ASSUME NEW y \in S, y < x PROVE FALSE
  <2>1. 0 .. y \in Below
    OBVIOUS
  <2>2. 0 .. y \subseteq 0 .. x
    BY <1>5
  <2>3. x \in 0 .. x /\ x \notin 0 .. y
    BY <1>5
  <2>4. 0 .. y \in SUBSET Nat /\ 0 .. x \in SUBSET Nat
    OBVIOUS
  <2>5. <<0 .. y, 0 .. x>> \in StrictSubsetOrdering(Nat)
    BY <2>2, <2>3, <2>4 DEF StrictSubsetOrdering
  <2> QED BY <2>1, <2>5, <1>3, <1>4
<1> QED BY <1>5

(* The setting in which that is so: a task that may be preempted shares    *)
(* the store with no one, and no request for a read fails.                 *)
Serial == \A t \in Preemptible : Tasks = {t}
Setting == Serial /\ ReadFaults = FALSE

LEMMA StoreFacts ==
  /\ NBlocks \in Nat \ {0} /\ NFds \in Nat \ {0} /\ MaxLen \in Nat \ {0} /\ MaxSeq \in Nat
  /\ NoTask \notin Tasks /\ NoTask \notin [key : Keys, val : Values]
  /\ Blocks \subseteq 1 .. NBlocks /\ Blocks \subseteq 0 .. NBlocks /\ 0 \notin Blocks
  /\ 0 \in 0 .. NBlocks /\ NBlocks \in 0 .. NBlocks /\ 0 \in Fds
BY StoreAssumption DEF Blocks, Fds

(* The other tasks are idle when one of them takes a step.                 *)
LEMMA OthersIdle ==
  ASSUME Serial, NEW t \in Tasks, MayRun(t)
  PROVE  \A u \in Tasks \ {t} : task[u].pc = "idle"
BY DEF Serial, MayRun

-----------------------------------------------------------------------------
(* Sectors.                                                                *)
LEMMA SectorFields ==
  /\ Blank.kind = "blank"
  /\ \A n : Super(n).kind = "super" /\ Super(n).seq = n
  /\ \A k, n, v : /\ Record(k, n, v).kind = "record" /\ Record(k, n, v).key = k
                  /\ Record(k, n, v).seq = n /\ Record(k, n, v).val = v
BY DEF Blank, Super, Record

LEMMA SectorKinds ==
  ASSUME NEW s \in Sectors
  PROVE  /\ s.kind \in {"blank", "super", "record"}
         /\ s.kind = "super" => s.seq \in 1 .. MaxSeq + 1
         /\ s.kind = "record" => s.key \in Keys /\ s.seq \in 1 .. MaxSeq /\ s.val \in Values
<1>1. CASE s = Blank
  BY <1>1, SectorFields
<1>2. CASE \E n \in 1 .. MaxSeq + 1 : s = Super(n)
  BY <1>2, SectorFields
<1>3. CASE \E k \in Keys, n \in 1 .. MaxSeq, v \in Values : s = Record(k, n, v)
  BY <1>3, SectorFields
<1> QED BY <1>1, <1>2, <1>3 DEF Sectors

LEMMA SectorTypes ==
  /\ Blank \in Sectors
  /\ \A n \in 1 .. MaxSeq + 1 : Super(n) \in Sectors
  /\ \A k \in Keys, n \in 1 .. MaxSeq, v \in Values : Record(k, n, v) \in Sectors
BY DEF Sectors

-----------------------------------------------------------------------------
(* Contents of files.                                                      *)
LEMMA ValuesAre ==
  ASSUME NEW v
  PROVE  v \in Values <=> v \in Seq(Data) /\ Len(v) <= MaxLen
<1>1. ASSUME v \in Values PROVE v \in Seq(Data) /\ Len(v) <= MaxLen
  <2>1. PICK m \in 0 .. MaxLen : v \in [1 .. m -> Data]
    BY <1>1 DEF Values, SeqOf
  <2>2. v \in Seq(Data) /\ Len(v) = m
    BY <2>1, StoreFacts, SeqDef
  <2> QED BY <2>1, <2>2, StoreFacts
<1>2. ASSUME v \in Seq(Data), Len(v) <= MaxLen PROVE v \in Values
  <2>1. Len(v) \in 0 .. MaxLen /\ v \in [1 .. Len(v) -> Data]
    BY <1>2, StoreFacts, LenProperties
  <2> QED BY <2>1 DEF Values, SeqOf
<1> QED BY <1>1, <1>2

LEMMA EmptyValue == <<>> \in Values /\ Len(<<>>) = 0
<1>1. <<>> \in Seq(Data) /\ Len(<<>>) = 0
  BY EmptySeq
<1>2. Len(<<>>) <= MaxLen
  BY <1>1, StoreFacts
<1>3. ASSUME NEW v, v \in Seq(Data), Len(v) <= MaxLen PROVE v \in Values
  BY <1>3, ValuesAre
<1> QED BY <1>1, <1>2, <1>3, Zenon

(* v begins with p.                                                        *)
Begins(p, v) == Len(p) <= Len(v) /\ \A i \in 1 .. Len(p) : v[i] = p[i]

LEMMA BeginsLess ==
  ASSUME NEW p \in Seq(Data), NEW c \in Seq(Data), NEW v \in Seq(Data), Begins(p \o c, v)
  PROVE  Begins(p, v)
<1>1. /\ Len(p) \in Nat /\ Len(c) \in Nat /\ Len(v) \in Nat /\ Len(p \o c) = Len(p) + Len(c)
      /\ \A i \in 1 .. Len(p) : (p \o c)[i] = p[i]
  BY ConcatProperties, LenProperties
<1> QED BY <1>1 DEF Begins

LEMMA BeginsSubSeq ==
  ASSUME NEW p \in Seq(Data), NEW v \in Seq(Data), Begins(p, v)
  PROVE  SubSeq(v, 1, Len(p)) = p
<1>1. Len(p) \in Nat /\ Len(v) \in Nat /\ Len(p) <= Len(v)
  BY LenProperties DEF Begins
<1>2. /\ SubSeq(v, 1, Len(p)) \in Seq(Data) /\ Len(SubSeq(v, 1, Len(p))) = Len(p)
      /\ \A i \in 1 .. Len(p) : SubSeq(v, 1, Len(p))[i] = v[i]
  BY <1>1, SubSeqProperties
<1> QED BY <1>1, <1>2, SeqEqual DEF Begins

(* What is left of v after the length of p, put behind p.                  *)
LEMMA BeginsRest ==
  ASSUME NEW p \in Seq(Data), NEW v \in Seq(Data), Len(p) < Len(v)
  PROVE  /\ p \o SubSeq(v, Len(p) + 1, Len(v)) \in Seq(Data)
         /\ Len(p \o SubSeq(v, Len(p) + 1, Len(v))) = Len(v)
         /\ Begins(p, v) => Begins(p \o SubSeq(v, Len(p) + 1, Len(v)), v)
<1> DEFINE r == SubSeq(v, Len(p) + 1, Len(v))
<1>1. Len(p) \in Nat /\ Len(v) \in Nat /\ Len(p) < Len(v)
  BY LenProperties
<1>2. /\ r \in Seq(Data) /\ Len(r) = Len(v) - Len(p)
      /\ \A i \in 1 .. Len(v) - Len(p) : r[i] = v[Len(p) + i]
  BY <1>1, SubSeqProperties
<1> HIDE DEF r
<1>3. /\ p \o r \in Seq(Data) /\ Len(p \o r) = Len(v)
      /\ \A i \in 1 .. Len(v) : (p \o r)[i] = IF i <= Len(p) THEN p[i] ELSE r[i - Len(p)]
  BY <1>1, <1>2, ConcatProperties
<1>4. ASSUME Begins(p, v), NEW i \in 1 .. Len(v) PROVE (p \o r)[i] = v[i]
  <2>1. CASE i <= Len(p)
    <3>1. i \in 1 .. Len(p)
      BY <1>1, <1>4, <2>1
    <3> QED BY <1>3, <1>4, <2>1, <3>1 DEF Begins
  <2>2. CASE ~ i <= Len(p)
    <3>1. i - Len(p) \in 1 .. Len(v) - Len(p) /\ Len(p) + (i - Len(p)) = i
      BY <1>1, <1>4, <2>2
    <3>2. r[i - Len(p)] = v[i]
      BY <1>2, <3>1
    <3> QED BY <1>3, <1>4, <2>2, <3>2
  <2> QED BY <2>1, <2>2
<1> QED BY <1>1, <1>3, <1>4 DEF Begins, r

(* persistfs::write over the middle of a file.                             *)
LEMMA PatchedIs ==
  ASSUME NEW old \in Values, NEW c \in Values, NEW off \in Nat,
         off <= Len(old), off + Len(c) <= MaxLen
  PROVE  /\ Patched(old, off, c) \in Values
         /\ \A p \in Seq(Data) : Len(p) = off /\ Begins(p, old)
                                   => Begins(p \o c, Patched(old, off, c))
         /\ off + Len(c) <= Len(Patched(old, off, c))
<1> DEFINE a == SubSeq(old, 1, off)
           z == SubSeq(old, off + Len(c) + 1, Len(old))
<1>1. /\ old \in Seq(Data) /\ c \in Seq(Data) /\ Len(old) \in Nat /\ Len(c) \in Nat
      /\ Len(old) <= MaxLen /\ MaxLen \in Nat
  BY ValuesAre, LenProperties, StoreFacts
<1>2. a \in Seq(Data) /\ Len(a) = off /\ \A i \in 1 .. off : a[i] = old[i]
  BY <1>1, SubSeqProperties
<1>3. z \in Seq(Data) /\ Len(z) \in Nat /\ off + Len(c) + Len(z) <= MaxLen
  <2>1. \A i \in off + Len(c) + 1 .. Len(old) : old[i] \in Data
    BY <1>1, LenProperties
  <2>2. off + Len(c) + 1 \in Int /\ Len(old) \in Int
    BY <1>1
  <2>3. /\ z \in Seq(Data)
        /\ Len(z) = IF off + Len(c) + 1 <= Len(old) THEN Len(old) - (off + Len(c) + 1) + 1 ELSE 0
    BY <2>1, <2>2, SubSeqProperties
  <2> HIDE DEF z
  <2>4. Len(z) = 0 \/ Len(z) = Len(old) - (off + Len(c))
    BY <1>1, <2>3
  <2>5. Len(z) \in Nat
    BY <2>3, LenProperties
  <2>6. off + Len(c) + Len(z) <= MaxLen
    BY <1>1, <2>4
  <2> QED BY <2>3, <2>5, <2>6
<1> HIDE DEF a, z
<1>4. /\ a \o c \in Seq(Data) /\ Len(a \o c) = off + Len(c)
      /\ \A i \in 1 .. off + Len(c) : (a \o c)[i] = IF i <= off THEN a[i] ELSE c[i - off]
  BY <1>1, <1>2, ConcatProperties
<1>5. /\ (a \o c) \o z \in Seq(Data) /\ Len((a \o c) \o z) = off + Len(c) + Len(z)
      /\ \A i \in 1 .. off + Len(c) : ((a \o c) \o z)[i] = (a \o c)[i]
  <2> DEFINE m == a \o c
  <2>1. m \in Seq(Data) /\ Len(m) = off + Len(c)
    BY <1>4
  <2> HIDE DEF m
  <2>2. /\ m \o z \in Seq(Data) /\ Len(m \o z) = Len(m) + Len(z)
        /\ \A i \in 1 .. Len(m) + Len(z) :
             (m \o z)[i] = IF i <= Len(m) THEN m[i] ELSE z[i - Len(m)]
    <3>1. m \in Seq(Data) /\ z \in Seq(Data)
      BY <1>3, <2>1
    <3> QED BY <3>1, ConcatProperties
  <2>3. \A i \in 1 .. Len(m) : (m \o z)[i] = m[i]
    BY <1>1, <1>3, <2>1, <2>2
  <2> QED BY <2>1, <2>2, <2>3 DEF m
<1>6. Patched(old, off, c) = (a \o c) \o z
  BY DEF Patched, a, z
<1>7. ASSUME NEW p \in Seq(Data), Len(p) = off, Begins(p, old)
      PROVE  Begins(p \o c, Patched(old, off, c))
  <2>1. /\ Len(p \o c) = off + Len(c)
        /\ \A i \in 1 .. off + Len(c) : (p \o c)[i] = IF i <= off THEN p[i] ELSE c[i - off]
    BY <1>1, <1>7, ConcatProperties
  <2>2. \A i \in 1 .. off : p[i] = a[i]
    BY <1>2, <1>7 DEF Begins
  <2>3. \A i \in 1 .. off + Len(c) : (p \o c)[i] = (a \o c)[i]
    BY <1>1, <1>4, <2>1, <2>2
  <2> QED BY <1>1, <1>3, <1>5, <1>6, <2>1, <2>3 DEF Begins
<1>8. Patched(old, off, c) \in Values
  BY <1>3, <1>5, <1>6, ValuesAre
<1> QED BY <1>1, <1>3, <1>5, <1>6, <1>7, <1>8

-----------------------------------------------------------------------------
(* The inductive invariant.                                                *)
PCs == PutPcs \cup {"idle", "open", "written"}
TaskType == [pc : PCs, op : {"none", "open", "written"}, key : Keys \cup {NoFile}, fd : Fds,
             val : Values, chunk : Values, block : 0 .. NBlocks, seq : 0 .. MaxSeq,
             res : {"none", "ok", "failed"}]
FileType == [key : Keys, off : 0 .. MaxLen]

Types ==
  /\ disk \in [0 .. NBlocks -> Sectors] /\ dataBuf \in Sectors
  /\ boot \in {"off", "format", "on"} /\ fmt \in 0 .. NBlocks + 1
  /\ nextSeq \in 0 .. MaxSeq + 1
  /\ meta \in Tasks \cup {NoTask}
  /\ files \in [Fds -> FileType \cup {NoFile}]
  /\ task \in [Tasks -> TaskType]
  /\ through \in [Fds -> Values] /\ sole \in [Fds -> BOOLEAN]

(* The sectors, whether or not the machine is up.  A store without a       *)
(* superblock has never had a record: format_store writes it last.         *)
OneRecord == \A b, c \in Blocks : IsActive(b) /\ IsActive(c) /\ disk[b].key = disk[c].key => b = c
Unformatted == disk[0].kind # "super" => \A b \in Blocks : ~ IsActive(b)
DiskSound == OneRecord /\ RestartOutranks /\ Unformatted

(* Memory is empty until the store is up, and then counts on from the disk.*)
UpOrEmpty ==
  /\ boot # "on" => /\ \A f \in Fds : files[f] = NoFile
                    /\ \A t \in Tasks : task[t] = Idle
  /\ boot = "format" => disk[0].kind # "super" /\ nextSeq = 1
  /\ boot = "on" => disk[0].kind = "super" /\ disk[0].seq <= nextSeq

(* A put on its way has the sector, the number and the buffer it needs.    *)
(* That the number is below the superblock's is what a crash between the   *)
(* two writes relies on.                                                   *)
PutThread(t) ==
  LET me == task[t]
  IN  /\ me.pc # "idle" => me.key \in Keys
      /\ me.pc \in PutPcs => me.op \in {"open", "written"}
      /\ me.pc \in PutPcs \ {"put"} =>
           /\ me.block \in Blocks /\ me.seq \in 1 .. MaxSeq
           /\ \A b \in Blocks : IsActive(b) => (disk[b].key = me.key <=> b = me.block)
      /\ me.pc \in {"super", "superReq"} => me.seq < nextSeq
      /\ me.pc = "superReq" => dataBuf = Super(nextSeq)
      /\ me.pc \in {"record", "recordReq"} => me.seq < disk[0].seq
      /\ me.pc = "recordReq" => dataBuf = Record(me.key, me.seq, me.val)

(* A put of create is for a path without a file; one of write carries what *)
(* went through its descriptor with the chunk behind it, and no other      *)
(* descriptor of the path still counts as the only one.                    *)
CallThread(t) ==
  LET me == task[t]
      f == task[t].fd
  IN  /\ me.pc \in PutPcs /\ me.op = "open" => ~ Stored(me.key)
      /\ (me.pc \in PutPcs /\ me.op = "written") \/ me.pc = "written" =>
           /\ files[f] # NoFile /\ files[f].key = me.key
           /\ files[f].off + Len(me.chunk) <= MaxLen
           /\ sole[f] => Begins(through[f] \o me.chunk, me.val)
           /\ \A g \in Fds \ {f} : files[g] # NoFile /\ files[g].key = me.key => ~ sole[g]
      /\ me.pc = "written" => Stored(me.key) /\ Contents(me.key) = me.val

(* A descriptor's offset counts what went through it; the file begins with *)
(* that unless someone else wrote it or its own write is about to be       *)
(* counted.                                                                *)
Counting(f) == \E t \in Tasks : task[t].pc = "written" /\ task[t].fd = f
FileTrue(f) ==
  files[f] # NoFile =>
    /\ Stored(files[f].key)
    /\ Len(through[f]) = files[f].off
    /\ sole[f] /\ ~ Counting(f) => Begins(through[f], Contents(files[f].key))

Threads == \A t \in Tasks : PutThread(t) /\ CallThread(t)
FilesTrue == \A f \in Fds : FileTrue(f)

IInv == Types /\ DiskSound /\ UpOrEmpty /\ Threads /\ FilesTrue

-----------------------------------------------------------------------------
(* What a disk D says of a path, so that the disks before and after a step *)
(* can be compared.                                                        *)
HoldsIn(D, k) == {b \in Blocks : D[b].kind = "record" /\ D[b].key = k}
ValueIn(D, k) ==
  D[CHOOSE b \in HoldsIn(D, k) :
      \A c \in HoldsIn(D, k) \ {b} :
         D[c].seq < D[b].seq \/ (D[c].seq = D[b].seq /\ b < c)].val
OneIn(D) ==
  \A b, c \in Blocks :
     D[b].kind = "record" /\ D[c].kind = "record" /\ D[b].key = D[c].key => b = c

LEMMA DiskView ==
  ASSUME NEW k
  PROVE  /\ Matches(k) = HoldsIn(disk, k)
         /\ Stored(k) <=> HoldsIn(disk, k) # {}
         /\ Stored(k)' <=> HoldsIn(disk', k) # {}
         /\ Contents(k) = ValueIn(disk, k)
         /\ Contents(k)' = ValueIn(disk', k)
         /\ OneRecord <=> OneIn(disk)
         /\ OneRecord' <=> OneIn(disk')
<1>1. Matches(k) = HoldsIn(disk, k) /\ Matches(k)' = HoldsIn(disk', k)
  BY DEF Matches, IsActive, HoldsIn
<1>2. Contents(k) = ValueIn(disk, k) /\ Contents(k)' = ValueIn(disk', k)
  BY DEF Contents, Best, ValueIn, Matches, IsActive, HoldsIn
<1>3. (OneRecord <=> OneIn(disk)) /\ (OneRecord' <=> OneIn(disk'))
  BY DEF OneRecord, OneIn, IsActive
<1> QED BY <1>1, <1>2, <1>3 DEF Stored

LEMMA TheRecord ==
  ASSUME NEW D, OneIn(D), NEW k, NEW b \in HoldsIn(D, k)
  PROVE  HoldsIn(D, k) = {b} /\ ValueIn(D, k) = D[b].val
<1>1. HoldsIn(D, k) = {b}
  BY DEF HoldsIn, OneIn
<1> QED BY <1>1 DEF ValueIn

LEMMA SameRecords ==
  ASSUME NEW D, NEW E, OneIn(D), \A b \in Blocks : E[b] = D[b]
  PROVE  /\ OneIn(E)
         /\ \A k : /\ HoldsIn(E, k) = HoldsIn(D, k)
                   /\ HoldsIn(D, k) # {} => ValueIn(E, k) = ValueIn(D, k)
<1>1. OneIn(E)
  BY DEF OneIn
<1>2. ASSUME NEW k PROVE HoldsIn(E, k) = HoldsIn(D, k)
  BY DEF HoldsIn
<1>3. ASSUME NEW k, NEW b \in HoldsIn(D, k) PROVE ValueIn(E, k) = ValueIn(D, k)
  <2>1. ValueIn(D, k) = D[b].val /\ ValueIn(E, k) = E[b].val
    BY <1>1, <1>2, TheRecord
  <2> QED BY <2>1 DEF HoldsIn
<1> QED BY <1>1, <1>2, <1>3

(* The sector of a record is written.                                      *)
LEMMA RecordWritten ==
  ASSUME NEW D, NEW E, OneIn(D), NEW k, NEW n, NEW v, NEW b \in Blocks,
         \A c \in Blocks : D[c].kind = "record" => (D[c].key = k <=> c = b),
         E[b] = Record(k, n, v), \A c \in Blocks \ {b} : E[c] = D[c]
  PROVE  /\ OneIn(E)
         /\ HoldsIn(E, k) = {b} /\ ValueIn(E, k) = v
         /\ \A j : j # k => /\ HoldsIn(E, j) = HoldsIn(D, j)
                            /\ HoldsIn(D, j) # {} => ValueIn(E, j) = ValueIn(D, j)
<1>1. E[b].kind = "record" /\ E[b].key = k /\ E[b].val = v
  BY SectorFields
<1>2. OneIn(E)
  <2> SUFFICES ASSUME NEW c \in Blocks, NEW d \in Blocks, E[c].kind = "record",
                      E[d].kind = "record", E[c].key = E[d].key
               PROVE  c = d
    BY DEF OneIn
  <2>1. CASE c = b \/ d = b
    BY <1>1, <2>1
  <2>2. CASE c # b /\ d # b
    BY <2>2 DEF OneIn
  <2> QED BY <2>1, <2>2
<1>3. b \in HoldsIn(E, k)
  BY <1>1 DEF HoldsIn
<1>4. HoldsIn(E, k) = {b} /\ ValueIn(E, k) = v
  BY <1>1, <1>2, <1>3, TheRecord
<1>5. ASSUME NEW j, j # k
      PROVE  /\ HoldsIn(E, j) = HoldsIn(D, j)
             /\ HoldsIn(D, j) # {} => ValueIn(E, j) = ValueIn(D, j)
  <2>1. HoldsIn(E, j) = HoldsIn(D, j) /\ b \notin HoldsIn(D, j)
    BY <1>1, <1>5 DEF HoldsIn
  <2>2. ASSUME NEW c \in HoldsIn(D, j) PROVE ValueIn(E, j) = ValueIn(D, j)
    <3>1. ValueIn(D, j) = D[c].val /\ ValueIn(E, j) = E[c].val
      BY <1>2, <2>1, TheRecord
    <3>2. c \in Blocks \ {b}
      BY <2>1 DEF HoldsIn
    <3> QED BY <3>1, <3>2
  <2> QED BY <2>1, <2>2
<1> QED BY <1>2, <1>4, <1>5

(* A record's contents are a file.                                         *)
LEMMA StoredValue ==
  ASSUME Types, OneRecord, NEW k, Stored(k)
  PROVE  /\ Contents(k) \in Values /\ Best(k) \in Blocks
         /\ Matches(k) = {Best(k)} /\ IsActive(Best(k)) /\ disk[Best(k)].key = k
<1>1. PICK b : b \in Matches(k)
  BY DEF Stored
<1>2. Matches(k) = {b} /\ ValueIn(disk, k) = disk[b].val
  BY <1>1, DiskView, TheRecord
<1>3. Best(k) = b
  BY <1>2 DEF Best
<1>4. b \in Blocks /\ disk[b].kind = "record" /\ disk[b].key = k /\ disk[b] \in Sectors
  BY <1>1, StoreFacts DEF Matches, IsActive, Types
<1> QED BY <1>2, <1>3, <1>4, DiskView, SectorKinds DEF IsActive

-----------------------------------------------------------------------------
(* What steps have in common.                                              *)
LEMMA NoneCounting ==
  ASSUME Serial, NEW t \in Tasks, MayRun(t), task[t].pc # "written"
  PROVE  \A f : ~ Counting(f)
BY OthersIdle DEF Counting

LEMMA ThreadsKept ==
  ASSUME Serial, NEW t \in Tasks, MayRun(t),
         \A u \in Tasks \ {t} : task'[u] = task[u],
         PutThread(t)', CallThread(t)'
  PROVE  Threads'
<1>1. ASSUME NEW u \in Tasks \ {t} PROVE PutThread(u)' /\ CallThread(u)'
  <2>1. task'[u].pc = "idle"
    BY OthersIdle
  <2> QED BY <2>1 DEF PutThread, CallThread, PutPcs
<1> QED BY <1>1 DEF Threads

(* A step that touches no record and no descriptor, but may find that one  *)
(* is not the only one.                                                    *)
LEMMA FilesKept ==
  ASSUME Serial, IInv, NEW t \in Tasks, MayRun(t), task[t].pc # "written",
         \A b \in Blocks : disk'[b] = disk[b],
         files' = files, through' = through, \A f \in Fds : sole'[f] => sole[f]
  PROVE  FilesTrue' /\ OneRecord'
<1>1. OneIn(disk) /\ OneIn(disk')
  BY DiskView, SameRecords DEF IInv, DiskSound
<1>2. ASSUME NEW f \in Fds PROVE FileTrue(f)'
  <2>1. CASE files[f] = NoFile
    BY <2>1 DEF FileTrue
  <2>2. CASE files[f] # NoFile
    <3> DEFINE k == files[f].key
    <3>1. Stored(k) /\ Len(through[f]) = files[f].off /\ (sole[f] => Begins(through[f], Contents(k)))
      BY <2>2, NoneCounting DEF IInv, FilesTrue, FileTrue
    <3>2. HoldsIn(disk, k) # {} /\ HoldsIn(disk', k) # {} /\ ValueIn(disk', k) = ValueIn(disk, k)
      BY <1>1, <3>1, DiskView, SameRecords
    <3>3. Stored(k)' /\ Contents(k)' = Contents(k)
      BY <3>2, DiskView
    <3> QED BY <2>2, <3>1, <3>3 DEF FileTrue
  <2> QED BY <2>1, <2>2
<1> QED BY <1>1, <1>2, DiskView DEF FilesTrue

LEMMA IdleFacts ==
  /\ Idle \in TaskType
  /\ Idle.pc = "idle" /\ Idle.op = "none" /\ Idle.val = <<>> /\ Idle.res = "none"
  /\ Idle.block = 0 /\ Idle.seq = 0
BY EmptyValue, StoreFacts DEF Idle, TaskType, PCs, PutPcs

LEMMA SameDisk ==
  ASSUME disk' = disk
  PROVE  /\ DiskSound => DiskSound'
         /\ \A k : (Stored(k)' <=> Stored(k)) /\ Contents(k)' = Contents(k)
BY DEF DiskSound, OneRecord, RestartOutranks, Unformatted, IsActive, Stored, Contents,
       Best, Matches

(* No read fails, so a look-up answers what is on the disk.                *)
LEMMA FoundIs ==
  ASSUME Setting, NEW k
  PROVE  Found(k) = {Stored(k)}
BY DEF Setting, Found

(* A step of a call that does not write the disk.                          *)
LEMMA CallStep ==
  ASSUME Setting, IInv, NEW t \in Tasks, boot = "on", MayRun(t),
         disk' = disk, boot' = boot, fmt' = fmt, meta' \in Tasks \cup {NoTask},
         dataBuf' \in Sectors,
         nextSeq' = nextSeq \/ (nextSeq <= MaxSeq /\ nextSeq' = nextSeq + 1),
         NEW me \in TaskType, task' = [task EXCEPT ![t] = me],
         files' \in [Fds -> FileType \cup {NoFile}],
         through' \in [Fds -> Values], sole' \in [Fds -> BOOLEAN],
         PutThread(t)', CallThread(t)', FilesTrue'
  PROVE  IInv'
<1>1. Types'
  <2>1. nextSeq' \in 0 .. MaxSeq + 1
    BY StoreFacts DEF IInv, Types
  <2> QED BY <2>1 DEF IInv, Types
<1>2. Threads'
  <2>1. \A u \in Tasks \ {t} : task'[u] = task[u]
    BY DEF IInv, Types
  <2> QED BY <2>1, ThreadsKept DEF Setting
<1>3. DiskSound'
  BY SameDisk DEF IInv
<1>4. UpOrEmpty'
  <2>1. disk[0].kind = "super" /\ disk[0].seq <= nextSeq
    BY DEF IInv, UpOrEmpty
  <2>2. disk[0].seq \in Nat /\ nextSeq \in Nat /\ nextSeq <= nextSeq'
    BY <2>1, SectorKinds, StoreFacts DEF IInv, Types
  <2> QED BY <2>1, <2>2 DEF UpOrEmpty
<1> QED BY <1>1, <1>2, <1>3, <1>4 DEF IInv

LEMMA AtFacts ==
  ASSUME IInv, NEW t \in Tasks, NEW pc, At(t, pc)
  PROVE  /\ boot = "on" /\ MayRun(t) /\ task[t].pc = pc /\ task[t] \in TaskType
         /\ PutThread(t) /\ CallThread(t) /\ nextSeq \in 0 .. MaxSeq + 1
         /\ disk \in [0 .. NBlocks -> Sectors] /\ disk[NBlocks] \in Sectors
         /\ dataBuf \in Sectors /\ task \in [Tasks -> TaskType] /\ OneRecord
         /\ meta \in Tasks \cup {NoTask}
         /\ files \in [Fds -> FileType \cup {NoFile}]
         /\ through \in [Fds -> Values] /\ sole \in [Fds -> BOOLEAN]
BY StoreFacts DEF At, IInv, Threads, Types, DiskSound

LEMMA CreateKeeps ==
  ASSUME Setting, IInv, NEW t \in Tasks, NEW k \in Keys, Create(t, k)
  PROVE  IInv'
<1> DEFINE me == [Idle EXCEPT !.key = k, !.op = "open",
                              !.pc = IF Stored(k) THEN "open" ELSE "put",
                              !.res = IF Stored(k) THEN task[t].res ELSE "none"]
<1>1. At(t, "idle")
  BY DEF Create
<1>2. task' = [task EXCEPT ![t] = me]
  <2>1. PICK found \in Found(k) :
          task' = [task EXCEPT ![t] = [Idle EXCEPT !.key = k, !.op = "open",
                                         !.pc = IF found THEN "open" ELSE "put",
                                         !.res = IF found THEN task[t].res ELSE "none"]]
    BY DEF Create
  <2>2. found = Stored(k)
    BY FoundIs
  <2> QED BY <2>1, <2>2, Zenon
<1>3. me \in TaskType
  BY <1>1, AtFacts, IdleFacts DEF TaskType, PCs, PutPcs
<1>4. /\ task'[t].pc = IF Stored(k) THEN "open" ELSE "put"
      /\ task'[t].key = k /\ task'[t].op = "open"
  BY <1>1, <1>2, AtFacts DEF Idle
<1>5. Stored(k)' <=> Stored(k)
  BY SameDisk DEF Create
<1>6. PutThread(t)' /\ CallThread(t)'
  BY <1>4, <1>5 DEF PutThread, CallThread, PutPcs
<1>7. FilesTrue'
  BY <1>1, AtFacts, FilesKept DEF Create, Setting
<1> HIDE DEF me
<1>9. /\ boot = "on" /\ MayRun(t) /\ disk' = disk /\ boot' = boot /\ fmt' = fmt
      /\ nextSeq' = nextSeq /\ meta' \in Tasks \cup {NoTask} /\ dataBuf' \in Sectors
      /\ files' \in [Fds -> FileType \cup {NoFile}] /\ through' \in [Fds -> Values]
      /\ sole' \in [Fds -> BOOLEAN]
  BY <1>1, AtFacts DEF Create
<1> QED BY <1>1, <1>2, <1>3, <1>6, <1>7, <1>9, CallStep

LEMMA OpenCallKeeps ==
  ASSUME Setting, IInv, NEW t \in Tasks, NEW k \in Keys, OpenCall(t, k)
  PROVE  IInv'
<1> DEFINE me == [Idle EXCEPT !.key = k, !.op = "open", !.pc = "open", !.res = task[t].res]
<1>1. At(t, "idle") /\ task' = [task EXCEPT ![t] = me]
  BY DEF OpenCall
<1>2. me \in TaskType
  BY <1>1, AtFacts, IdleFacts DEF TaskType, PCs, PutPcs
<1>3. task'[t].pc = "open" /\ task'[t].key = k /\ task'[t].op = "open"
  BY <1>1, AtFacts DEF Idle
<1>4. PutThread(t)' /\ CallThread(t)'
  BY <1>3 DEF PutThread, CallThread, PutPcs
<1>5. FilesTrue'
  BY <1>1, AtFacts, FilesKept DEF OpenCall, Setting
<1> HIDE DEF me
<1>9. /\ boot = "on" /\ MayRun(t) /\ disk' = disk /\ boot' = boot /\ fmt' = fmt
      /\ nextSeq' = nextSeq /\ meta' \in Tasks \cup {NoTask} /\ dataBuf' \in Sectors
      /\ files' \in [Fds -> FileType \cup {NoFile}] /\ through' \in [Fds -> Values]
      /\ sole' \in [Fds -> BOOLEAN]
  BY <1>1, AtFacts DEF OpenCall
<1> QED BY <1>1, <1>2, <1>4, <1>5, <1>9, CallStep

LEMMA CloseKeeps ==
  ASSUME Setting, IInv, NEW t \in Tasks, NEW f \in Fds, Close(t, f)
  PROVE  IInv'
<1>1. At(t, "idle") /\ task' = [task EXCEPT ![t] = task[t]] /\ task[t] \in TaskType
  BY AtFacts DEF Close
<1>2. task'[t].pc = "idle"
  BY <1>1, AtFacts DEF Close
<1>3. PutThread(t)' /\ CallThread(t)'
  BY <1>2 DEF PutThread, CallThread, PutPcs
<1>4. /\ files' = [files EXCEPT ![f] = NoFile] /\ through' = [through EXCEPT ![f] = <<>>]
      /\ sole' = [sole EXCEPT ![f] = FALSE]
  BY DEF Close
<1>5. FilesTrue'
  <2> SUFFICES ASSUME NEW g \in Fds PROVE FileTrue(g)'
    BY DEF FilesTrue
  <2>1. CASE g = f
    BY <1>1, <1>4, <2>1, AtFacts DEF FileTrue
  <2>2. CASE g # f
    <3>1. files'[g] = files[g] /\ through'[g] = through[g] /\ sole'[g] = sole[g]
      BY <1>1, <1>4, <2>2, AtFacts
    <3>2. FileTrue(g) /\ ~ Counting(g)
      BY <1>1, AtFacts, NoneCounting DEF Setting, IInv, FilesTrue
    <3>3. \A k : (Stored(k)' <=> Stored(k)) /\ Contents(k)' = Contents(k)
      BY SameDisk DEF Close
    <3> QED BY <3>1, <3>2, <3>3 DEF FileTrue
  <2> QED BY <2>1, <2>2
<1>6. files' \in [Fds -> FileType \cup {NoFile}] /\ through' \in [Fds -> Values]
      /\ sole' \in [Fds -> BOOLEAN]
  BY <1>1, <1>4, AtFacts, EmptyValue
<1>9. /\ boot = "on" /\ MayRun(t) /\ disk' = disk /\ boot' = boot /\ fmt' = fmt
      /\ nextSeq' = nextSeq /\ meta' \in Tasks \cup {NoTask} /\ dataBuf' \in Sectors
  BY <1>1, AtFacts DEF Close
<1> QED BY <1>1, <1>3, <1>5, <1>6, <1>9, CallStep

-----------------------------------------------------------------------------
LEMMA FileSame ==
  ASSUME disk' = disk, NEW g \in Fds, FileTrue(g), ~ Counting(g), files'[g] = files[g],
         through'[g] = through[g], sole'[g] => sole[g]
  PROVE  FileTrue(g)'
BY SameDisk DEF FileTrue

LEMMA ReturnFacts ==
  ASSUME IInv, NEW t \in Tasks, NEW res \in {"none", "ok", "failed"}, Return(t, res)
  PROVE  /\ [Idle EXCEPT !.res = res] \in TaskType
         /\ task' = [task EXCEPT ![t] = [Idle EXCEPT !.res = res]]
         /\ PutThread(t)' /\ CallThread(t)'
<1>1. [Idle EXCEPT !.res = res] \in TaskType
  BY IdleFacts DEF TaskType
<1>2. task'[t].pc = "idle"
  BY IdleFacts DEF Return, IInv, Types, TaskType
<1> QED BY <1>1, <1>2 DEF Return, PutThread, CallThread, PutPcs

LEMMA OpenKeeps ==
  ASSUME Setting, IInv, NEW t \in Tasks, Open(t)
  PROVE  IInv'
<1> DEFINE k == task[t].key
<1>0. PICK f : f = CHOOSE g \in FreeFds : \A h \in FreeFds : g <= h
  OBVIOUS
<1>1. At(t, "open") /\ Return(t, task[t].res) /\ disk' = disk
  BY DEF Open
<1>2. task[t].res \in {"none", "ok", "failed"} /\ k \in Keys
  BY <1>1, AtFacts DEF TaskType, PutThread
<1>3. \A g \in Fds : FileTrue(g) /\ ~ Counting(g)
  BY <1>1, AtFacts, NoneCounting DEF Setting, IInv, FilesTrue
<1>4. /\ files' \in [Fds -> FileType \cup {NoFile}] /\ through' \in [Fds -> Values]
      /\ sole' \in [Fds -> BOOLEAN] /\ FilesTrue'
  <2>1. CASE UNCHANGED <<files, through, sole>>
    <3>1. FilesTrue'
      BY <1>1, <1>3, <2>1, FileSame DEF FilesTrue
    <3> QED BY <1>1, <2>1, <3>1, AtFacts
  <2>2. CASE /\ Stored(k) /\ FreeFds # {}
             /\ files' = [files EXCEPT ![f] = [key |-> k, off |-> 0]]
             /\ through' = [through EXCEPT ![f] = <<>>]
             /\ sole' = [sole EXCEPT ![f] = TRUE]
    <3>1. f \in Fds
      <4>1. FreeFds \subseteq Nat /\ FreeFds \subseteq Fds
        BY DEF FreeFds, Fds
      <4>2. \E g \in FreeFds : \A h \in FreeFds : g <= h
        BY <2>2, <4>1, LeastNatural
      <4> QED BY <1>0, <4>1, <4>2
    <3>2. [key |-> k, off |-> 0] \in FileType
      BY <1>2, StoreFacts DEF FileType
    <3>3. FileTrue(f)'
      <4>1. PICK j : j = k
        OBVIOUS
      <4>2. Stored(j) /\ Contents(j) \in Seq(Data)
        <5>1. Stored(j)
          BY <2>2, <4>1
        <5> QED BY <5>1, StoredValue, ValuesAre DEF IInv, DiskSound
      <4>3. Stored(j)' /\ Contents(j)' = Contents(j)
        BY <1>1, <4>2, SameDisk
      <4>4. Begins(<<>>, Contents(j))
        BY <4>2, EmptyValue, LenProperties DEF Begins
      <4>5. /\ files'[f] = [key |-> j, off |-> 0] /\ through'[f] = <<>> /\ sole'[f] = TRUE
        BY <1>1, <2>2, <3>1, <4>1, AtFacts
      <4>6. files'[f].key = j /\ files'[f].off = 0 /\ Len(<<>>) = 0
        BY <4>5, EmptyValue
      <4> QED BY <4>3, <4>4, <4>5, <4>6 DEF FileTrue
    <3>4. ASSUME NEW g \in Fds \ {f} PROVE FileTrue(g)'
      <4>1. files'[g] = files[g] /\ through'[g] = through[g] /\ sole'[g] = sole[g]
        BY <1>1, <2>2, <3>1, <3>4, AtFacts
      <4> QED BY <1>1, <1>3, <4>1, FileSame
    <3>5. FilesTrue'
      BY <3>3, <3>4 DEF FilesTrue
    <3>6. files \in [Fds -> FileType \cup {NoFile}] /\ through \in [Fds -> Values]
          /\ sole \in [Fds -> BOOLEAN]
      BY <1>1, AtFacts
    <3> QED BY <2>2, <3>2, <3>5, <3>6, EmptyValue
  <2>3. PICK found \in Found(k) :
          IF found /\ FreeFds # {}
          THEN /\ files' = [files EXCEPT ![f] = [key |-> k, off |-> 0]]
               /\ through' = [through EXCEPT ![f] = <<>>]
               /\ sole' = [sole EXCEPT ![f] = TRUE]
          ELSE UNCHANGED <<files, through, sole>>
    BY <1>0 DEF Open
  <2>4. found = Stored(k)
    BY FoundIs
  <2> HIDE DEF k
  <2> QED BY <2>1, <2>2, <2>3, <2>4, Zenon
<1>9. /\ boot = "on" /\ MayRun(t) /\ disk' = disk /\ boot' = boot /\ fmt' = fmt
      /\ nextSeq' = nextSeq /\ meta' \in Tasks \cup {NoTask} /\ dataBuf' \in Sectors
  BY <1>1, AtFacts DEF Open
<1> QED BY <1>1, <1>2, <1>4, <1>9, ReturnFacts, CallStep

LEMMA ReadKeeps ==
  ASSUME Setting, IInv, NEW t \in Tasks, NEW f \in Fds, Read(t, f)
  PROVE  IInv'
<1>0. PICK k, off, v : k = files[f].key /\ off = files[f].off /\ v = Contents(k)
  OBVIOUS
<1> DEFINE rest == SubSeq(v, off + 1, Len(v))
<1>1. /\ At(t, "idle") /\ task' = [task EXCEPT ![t] = task[t]] /\ task[t] \in TaskType
      /\ disk' = disk /\ sole' = sole /\ files[f] # NoFile
  BY AtFacts DEF Read
<1>2. task'[t].pc = "idle"
  BY <1>1, AtFacts DEF Read
<1>3. PutThread(t)' /\ CallThread(t)'
  BY <1>2 DEF PutThread, CallThread, PutPcs
<1>4. \A g \in Fds : FileTrue(g) /\ ~ Counting(g)
  BY <1>1, AtFacts, NoneCounting DEF Setting, IInv, FilesTrue
<1>5. /\ Stored(k) /\ Len(through[f]) = off
      /\ sole[f] => Begins(through[f], v)
      /\ k \in Keys /\ files[f] = [key |-> k, off |-> off]
      /\ v \in Values /\ through[f] \in Values
  BY <1>0, <1>1, <1>4, AtFacts, StoredValue DEF FileTrue, FileType, IInv
<1>6. PICK found \in Found(k) :
        /\ IF found /\ off < Len(v)
           THEN /\ files' = [files EXCEPT ![f].off = Len(v)]
                /\ through' = [through EXCEPT ![f] = @ \o rest]
           ELSE UNCHANGED <<files, through>>
        /\ dataBuf' = IF found THEN disk[Best(k)] ELSE disk[NBlocks]
  BY <1>0 DEF Read
<1>7. found = TRUE
  BY <1>5, FoundIs
<1>8. /\ files' \in [Fds -> FileType \cup {NoFile}] /\ through' \in [Fds -> Values]
      /\ FilesTrue'
  <2>1. CASE UNCHANGED <<files, through>>
    <3>1. FilesTrue'
      BY <1>1, <1>4, <2>1, FileSame DEF FilesTrue
    <3> QED BY <1>1, <2>1, <3>1, AtFacts
  <2>2. CASE off < Len(v)
    <3>1. files' = [files EXCEPT ![f].off = Len(v)] /\ through' = [through EXCEPT ![f] = @ \o rest]
      BY <1>6, <1>7, <2>2
    <3>2. v \in Seq(Data) /\ Len(v) \in 0 .. MaxLen /\ through[f] \in Seq(Data)
      BY <1>5, ValuesAre, LenProperties, StoreFacts
    <3>3. /\ through[f] \o rest \in Seq(Data) /\ Len(through[f] \o rest) = Len(v)
          /\ sole[f] => Begins(through[f] \o rest, v)
      BY <1>5, <2>2, <3>2, BeginsRest
    <3> HIDE DEF rest
    <3>4. /\ files'[f] = [key |-> k, off |-> Len(v)]
          /\ through'[f] = through[f] \o rest /\ sole'[f] = sole[f]
      BY <1>1, <1>5, <3>1, AtFacts
    <3>5. files'[f] \in FileType /\ through'[f] \in Values
      <4>1. Len(through[f] \o rest) <= MaxLen
        BY <3>2, <3>3, StoreFacts
      <4>2. files'[f] \in FileType
        BY <1>5, <3>2, <3>4 DEF FileType
      <4>3. through[f] \o rest \in Values
        BY <3>3, <4>1, ValuesAre
      <4> QED BY <3>4, <4>2, <4>3
    <3>6. FileTrue(f)'
      <4>1. Stored(k)' /\ Contents(k)' = v
        BY <1>0, <1>1, <1>5, SameDisk
      <4>2. files'[f].key = k /\ files'[f].off = Len(v)
        BY <3>4
      <4> QED BY <3>3, <3>4, <4>1, <4>2 DEF FileTrue
    <3>7. ASSUME NEW g \in Fds \ {f} PROVE FileTrue(g)'
      <4>1. files'[g] = files[g] /\ through'[g] = through[g] /\ sole'[g] = sole[g]
        BY <1>1, <3>1, <3>7, AtFacts
      <4> QED BY <1>1, <1>4, <4>1, FileSame
    <3> QED BY <1>1, <3>1, <3>4, <3>5, <3>6, <3>7, AtFacts DEF FilesTrue
  <2> QED BY <1>6, <2>1, <2>2
<1>9. /\ boot = "on" /\ MayRun(t) /\ disk' = disk /\ boot' = boot /\ fmt' = fmt
      /\ nextSeq' = nextSeq /\ meta' \in Tasks \cup {NoTask} /\ dataBuf' \in Sectors
      /\ sole' \in [Fds -> BOOLEAN]
  <2>1. dataBuf' \in Sectors
    BY <1>1, <1>5, <1>6, <1>7, AtFacts, StoredValue, StoreFacts DEF IInv
  <2> QED BY <1>1, <2>1, AtFacts DEF Read
<1> QED BY <1>1, <1>3, <1>8, <1>9, CallStep

LEMMA WrittenKeeps ==
  ASSUME Setting, IInv, NEW t \in Tasks, Written(t)
  PROVE  IInv'
<1>0. PICK f, c, k : f = task[t].fd /\ c = task[t].chunk /\ k = task[t].key
  OBVIOUS
<1>1. At(t, "written") /\ Return(t, task[t].res) /\ disk' = disk /\ sole' = sole
  BY DEF Written
<1>2. /\ task[t].pc = "written" /\ task[t].res \in {"none", "ok", "failed"}
      /\ f \in Fds /\ c \in Values /\ k \in Keys
  BY <1>0, <1>1, AtFacts DEF TaskType, PutThread
<1>3. /\ files[f] # NoFile /\ files[f].key = k /\ files[f].off + Len(c) <= MaxLen
      /\ sole[f] => Begins(through[f] \o c, Contents(k))
      /\ Stored(k)
  <2>1. CallThread(t)
    BY <1>1, AtFacts
  <2> QED BY <1>0, <1>2, <2>1 DEF CallThread
<1>4. PICK off : /\ off = files[f].off /\ off \in Nat /\ files[f] = [key |-> k, off |-> off]
                 /\ off + Len(c) <= MaxLen
  BY <1>1, <1>2, <1>3, AtFacts, StoreFacts DEF FileType
<1>5. FileTrue(f) /\ Len(through[f]) = off
  BY <1>2, <1>3, <1>4 DEF IInv, FilesTrue, FileTrue
<1>6. /\ files' = [files EXCEPT ![f].off = @ + Len(c)]
      /\ through' = [through EXCEPT ![f] = @ \o c]
  BY <1>0, <1>3 DEF Written
<1>7. /\ files'[f] = [key |-> k, off |-> off + Len(c)]
      /\ through'[f] = through[f] \o c /\ sole'[f] = sole[f]
  BY <1>1, <1>2, <1>4, <1>6, AtFacts
<1>8. /\ through[f] \o c \in Seq(Data) /\ Len(through[f] \o c) = off + Len(c)
      /\ Len(c) \in Nat
  <2>1. through[f] \in Seq(Data) /\ c \in Seq(Data)
    BY <1>1, <1>2, AtFacts, ValuesAre
  <2> QED BY <1>5, <2>1, ConcatProperties, LenProperties
<1>10. files'[f] \in FileType /\ through'[f] \in Values
  <2>1. off + Len(c) \in 0 .. MaxLen
    BY <1>4, <1>8, StoreFacts
  <2>2. through[f] \o c \in Values
    <3>1. Len(through[f] \o c) <= MaxLen
      BY <1>8, <2>1, StoreFacts
    <3> QED BY <1>8, <3>1, ValuesAre
  <2>3. [key |-> k, off |-> off + Len(c)] \in FileType
    BY <1>2, <2>1 DEF FileType
  <2> QED BY <1>7, <2>2, <2>3
<1>11. FilesTrue'
  <2> SUFFICES ASSUME NEW g \in Fds PROVE FileTrue(g)'
    BY DEF FilesTrue
  <2>1. CASE g = f
    <3>1. Stored(k)' /\ Contents(k)' = Contents(k)
      BY <1>1, <1>3, SameDisk
    <3>2. files'[g].key = k /\ files'[g].off = off + Len(c)
      BY <1>7, <2>1
    <3> QED BY <1>3, <1>7, <1>8, <2>1, <3>1, <3>2 DEF FileTrue
  <2>2. CASE g # f
    <3>1. files'[g] = files[g] /\ through'[g] = through[g] /\ sole'[g] = sole[g]
      BY <1>1, <1>6, <2>2, AtFacts
    <3>2. FileTrue(g)
      BY DEF IInv, FilesTrue
    <3>3. ~ Counting(g)
      BY <1>0, <1>1, <2>2, AtFacts, OthersIdle DEF Counting, Setting
    <3> QED BY <1>1, <3>1, <3>2, <3>3, FileSame
  <2> QED BY <2>1, <2>2
<1>12. files' \in [Fds -> FileType \cup {NoFile}] /\ through' \in [Fds -> Values]
       /\ sole' \in [Fds -> BOOLEAN]
  BY <1>1, <1>2, <1>6, <1>7, <1>10, AtFacts
<1>13. /\ boot = "on" /\ MayRun(t) /\ boot' = boot /\ fmt' = fmt
       /\ nextSeq' = nextSeq /\ meta' \in Tasks \cup {NoTask} /\ dataBuf' \in Sectors
  BY <1>1, AtFacts DEF Written
<1> QED BY <1>1, <1>2, <1>11, <1>12, <1>13, ReturnFacts, CallStep

(* persistfs::write asks for a put: the other descriptors of the path stop *)
(* being the only one.                                                     *)
LEMMA PutAsked ==
  ASSUME Setting, IInv, NEW t \in Tasks, At(t, "idle"), NEW f \in Fds, files[f] # NoFile,
         NEW c \in Values, NEW v \in Values, files[f].off + Len(c) <= MaxLen,
         sole[f] => Begins(through[f] \o c, v),
         task' = [task EXCEPT ![t] = [Idle EXCEPT !.pc = "put", !.op = "written",
                    !.key = files[f].key, !.fd = f, !.val = v, !.chunk = c]],
         sole' = [g \in Fds |-> IF g # f /\ files[g] # NoFile /\ files[g].key = files[f].key
                                THEN FALSE ELSE sole[g]],
         dataBuf' \in Sectors, UNCHANGED <<disk, boot, fmt, nextSeq, meta, files, through>>
  PROVE  IInv'
<1>1. PICK me : me = [Idle EXCEPT !.pc = "put", !.op = "written",
                        !.key = files[f].key, !.fd = f, !.val = v, !.chunk = c]
  OBVIOUS
<1>2. files[f].key \in Keys
  BY AtFacts DEF FileType
<1>3. me \in TaskType /\ task' = [task EXCEPT ![t] = me]
  BY <1>1, <1>2, IdleFacts DEF TaskType, PCs, PutPcs
<1>4. /\ me.pc = "put" /\ me.op = "written" /\ me.key = files[f].key /\ me.fd = f
      /\ me.val = v /\ me.chunk = c /\ task'[t] = me
  BY <1>1, <1>3, IdleFacts, AtFacts DEF Idle
<1>5. PutThread(t)'
  BY <1>2, <1>4 DEF PutThread, PutPcs
<1>6. CallThread(t)'
  BY <1>4 DEF CallThread, PutPcs
<1>7. FilesTrue'
  BY AtFacts, FilesKept DEF Setting
<1>8. sole' \in [Fds -> BOOLEAN]
  BY AtFacts
<1>9. /\ boot = "on" /\ MayRun(t) /\ disk' = disk /\ boot' = boot /\ fmt' = fmt
      /\ nextSeq' = nextSeq /\ meta' \in Tasks \cup {NoTask}
      /\ files' \in [Fds -> FileType \cup {NoFile}] /\ through' \in [Fds -> Values]
  BY AtFacts
<1> QED BY <1>3, <1>5, <1>6, <1>7, <1>8, <1>9, CallStep

LEMMA WriteKeeps ==
  ASSUME Setting, IInv, NEW t \in Tasks, NEW f \in Fds, NEW c \in Chunks, Write(t, f, c)
  PROVE  IInv'
<1>0. PICK k, off, v : k = files[f].key /\ off = files[f].off /\ v = Contents(k)
  OBVIOUS
<1>1. /\ At(t, "idle") /\ files[f] # NoFile /\ c \in Values
      /\ UNCHANGED <<disk, boot, fmt, nextSeq, meta, files, through>>
  BY DEF Write, Chunks
<1>2. FileTrue(f) /\ ~ Counting(f)
  BY <1>1, AtFacts, NoneCounting DEF Setting, IInv, FilesTrue
<1>3. /\ Stored(k) /\ Len(through[f]) = off /\ (sole[f] => Begins(through[f], v))
      /\ k \in Keys /\ off \in 0 .. MaxLen /\ v \in Values /\ through[f] \in Values
      /\ Best(k) \in Blocks
  BY <1>0, <1>1, <1>2, AtFacts, StoredValue DEF FileTrue, FileType, IInv
<1>4. /\ through[f] \in Seq(Data) /\ c \in Seq(Data) /\ Len(c) \in Nat /\ off \in Nat
      /\ Len(c) <= MaxLen
  BY <1>1, <1>3, ValuesAre, LenProperties, StoreFacts
<1>5. disk[Best(k)] \in Sectors /\ disk[NBlocks] \in Sectors
  BY <1>1, <1>3, AtFacts, StoreFacts
<1> DEFINE put(val) ==
             /\ task' = [task EXCEPT ![t] = [Idle EXCEPT !.pc = "put", !.op = "written",
                           !.key = k, !.fd = f, !.val = val, !.chunk = c]]
             /\ sole' = [g \in Fds |-> IF g # f /\ files[g] # NoFile /\ files[g].key = k
                                       THEN FALSE ELSE sole[g]]
<1>6. CASE off = 0 /\ put(c) /\ UNCHANGED dataBuf
  <2>1. through[f] = <<>> /\ through[f] \o c = c
    BY <1>3, <1>4, <1>6, EmptySeq, ConcatEmptySeq
  <2>2. Begins(c, c)
    BY <1>4 DEF Begins
  <2>3. dataBuf' \in Sectors /\ files[f].off + Len(c) <= MaxLen
    BY <1>0, <1>1, <1>4, <1>6, AtFacts
  <2>4. /\ task' = [task EXCEPT ![t] = [Idle EXCEPT !.pc = "put", !.op = "written",
                      !.key = files[f].key, !.fd = f, !.val = c, !.chunk = c]]
        /\ sole' = [g \in Fds |-> IF g # f /\ files[g] # NoFile /\ files[g].key = files[f].key
                                  THEN FALSE ELSE sole[g]]
    BY <1>0, <1>6, Zenon
  <2>5. sole[f] => Begins(through[f] \o c, c)
    BY <2>1, <2>2
  <2> QED BY <1>1, <2>3, <2>4, <2>5, PutAsked
<1>7. CASE /\ off <= Len(v) /\ off + Len(c) <= MaxLen
           /\ put(Patched(v, off, c)) /\ dataBuf' \in Sectors
  <2>1. PICK w : w = Patched(v, off, c)
    OBVIOUS
  <2>2. w \in Values /\ (sole[f] => Begins(through[f] \o c, w))
    BY <1>1, <1>3, <1>4, <1>7, <2>1, PatchedIs
  <2>3. dataBuf' \in Sectors /\ files[f].off + Len(c) <= MaxLen
    BY <1>0, <1>7
  <2>4. /\ task' = [task EXCEPT ![t] = [Idle EXCEPT !.pc = "put", !.op = "written",
                      !.key = files[f].key, !.fd = f, !.val = w, !.chunk = c]]
        /\ sole' = [g \in Fds |-> IF g # f /\ files[g] # NoFile /\ files[g].key = files[f].key
                                  THEN FALSE ELSE sole[g]]
    BY <1>0, <1>7, <2>1, Zenon
  <2> QED BY <1>1, <2>2, <2>3, <2>4, PutAsked
<1>8. CASE UNCHANGED <<task, sole>> /\ dataBuf' \in Sectors
  <2>1. task' = [task EXCEPT ![t] = task[t]] /\ task[t] \in TaskType /\ task'[t].pc = "idle"
    BY <1>1, <1>8, AtFacts
  <2>2. PutThread(t)' /\ CallThread(t)'
    BY <2>1 DEF PutThread, CallThread, PutPcs
  <2>3. FilesTrue'
    BY <1>1, <1>8, AtFacts, FilesKept DEF Setting
  <2>9. /\ boot = "on" /\ MayRun(t) /\ disk' = disk /\ boot' = boot /\ fmt' = fmt
        /\ nextSeq' = nextSeq /\ meta' \in Tasks \cup {NoTask} /\ dataBuf' \in Sectors
        /\ files' \in [Fds -> FileType \cup {NoFile}] /\ through' \in [Fds -> Values]
        /\ sole' \in [Fds -> BOOLEAN]
    BY <1>1, <1>8, AtFacts
  <2> QED BY <2>1, <2>2, <2>3, <2>9, CallStep
<1>9. \/ off = 0 /\ put(c) /\ UNCHANGED dataBuf
      \/ \E found \in Found(k) :
           /\ IF found /\ off <= Len(v) /\ off + Len(c) <= MaxLen
              THEN put(Patched(v, off, c)) ELSE UNCHANGED <<task, sole>>
           /\ dataBuf' = IF found THEN disk[Best(k)] ELSE disk[NBlocks]
  BY <1>0 DEF Write
<1> HIDE DEF put
<1>10. CASE off = 0 /\ put(c) /\ UNCHANGED dataBuf
  BY <1>6, <1>10
<1>11. ASSUME NEW found \in Found(k),
              IF found /\ off <= Len(v) /\ off + Len(c) <= MaxLen
                THEN put(Patched(v, off, c)) ELSE UNCHANGED <<task, sole>>,
              dataBuf' = IF found THEN disk[Best(k)] ELSE disk[NBlocks]
       PROVE  IInv'
  BY <1>5, <1>7, <1>8, <1>11
<1> QED BY <1>9, <1>10, <1>11

-----------------------------------------------------------------------------
(* The steps of a put.                                                     *)
LEMMA CallKept ==
  ASSUME NEW t \in Tasks, CallThread(t), task[t].pc \in PutPcs, task'[t].pc \in PutPcs,
         task'[t].op = task[t].op, task'[t].key = task[t].key, task'[t].fd = task[t].fd,
         task'[t].val = task[t].val, task'[t].chunk = task[t].chunk,
         files' = files, through' = through, sole' = sole,
         Stored(task[t].key) \/ \A k : k = task[t].key => ~ Stored(k)'
  PROVE  CallThread(t)'
<1>1. PICK k, f, c, v : /\ k = task[t].key /\ f = task[t].fd
                        /\ c = task[t].chunk /\ v = task[t].val
  OBVIOUS
<1>2. /\ task[t].op = "open" => ~ Stored(k)'
      /\ task[t].op = "written" =>
           /\ files[f] # NoFile /\ files[f].key = k /\ files[f].off + Len(c) <= MaxLen
           /\ sole[f] => Begins(through[f] \o c, v)
           /\ \A g \in Fds \ {f} : files[g] # NoFile /\ files[g].key = k => ~ sole[g]
  BY <1>1 DEF CallThread
<1>3. /\ task'[t].key = k /\ task'[t].fd = f /\ task'[t].chunk = c /\ task'[t].val = v
      /\ task'[t].pc # "written" /\ task'[t].op = task[t].op
  BY <1>1 DEF PutPcs
<1> QED BY <1>2, <1>3 DEF CallThread

(* The facts of a task in a put.                                           *)
LEMMA PutFacts ==
  ASSUME Setting, IInv, NEW t \in Tasks, NEW pc \in PutPcs, At(t, pc)
  PROVE  /\ task[t].key \in Keys /\ task[t].op \in {"open", "written"}
         /\ task[t].val \in Values /\ Serial
         /\ disk[0] \in Sectors /\ disk[0].kind = "super"
         /\ nextSeq \in 1 .. MaxSeq + 1 /\ disk[0].seq \in 1 .. MaxSeq + 1
         /\ disk[0].seq <= nextSeq
         /\ \A b \in Blocks : IsActive(b) => disk[b].seq \in Nat /\ disk[b].seq < disk[0].seq
         /\ pc # "put" => /\ task[t].block \in Blocks /\ task[t].seq \in 1 .. MaxSeq
                          /\ \A b \in Blocks : IsActive(b) =>
                               (disk[b].key = task[t].key <=> b = task[t].block)
<1>1. task[t].pc = pc /\ pc # "idle" /\ task[t] \in TaskType /\ PutThread(t)
  BY AtFacts DEF PutPcs
<1>2. /\ task[t].key \in Keys /\ task[t].op \in {"open", "written"} /\ task[t].val \in Values
      /\ pc # "put" => /\ task[t].block \in Blocks /\ task[t].seq \in 1 .. MaxSeq
                       /\ \A b \in Blocks : IsActive(b) =>
                            (disk[b].key = task[t].key <=> b = task[t].block)
  BY <1>1 DEF PutThread, TaskType
<1>3. boot = "on" /\ disk[0] \in Sectors /\ disk[0].kind = "super" /\ disk[0].seq <= nextSeq
  BY AtFacts, StoreFacts DEF IInv, UpOrEmpty
<1>4. disk[0].seq \in 1 .. MaxSeq + 1 /\ nextSeq \in 0 .. MaxSeq + 1
  BY <1>3, AtFacts, SectorKinds
<1>5. nextSeq \in 1 .. MaxSeq + 1
  BY <1>3, <1>4, StoreFacts
<1>6. ASSUME NEW b \in Blocks, IsActive(b) PROVE disk[b].seq \in Nat /\ disk[b].seq < disk[0].seq
  <2>1. disk[b] \in Sectors
    BY AtFacts, StoreFacts
  <2>2. disk[b].seq \in 1 .. MaxSeq
    BY <1>6, <2>1, SectorKinds DEF IsActive
  <2> QED BY <1>3, <1>6, <2>2, StoreFacts DEF IInv, DiskSound, RestartOutranks
<1> QED BY <1>2, <1>3, <1>4, <1>5, <1>6 DEF Setting

LEMMA PutChooseKeeps ==
  ASSUME Setting, IInv, NEW t \in Tasks, PutChoose(t)
  PROVE  IInv'
<1>0. PICK k : k = task[t].key
  OBVIOUS
<1>1. /\ At(t, "put") /\ UNCHANGED <<disk, boot, fmt, files, through, sole>>
      /\ dataBuf' = IF FreeBlocks = {} \/ Stored(k) THEN disk[NBlocks] ELSE Blank
  BY <1>0 DEF PutChoose
<1>2. "put" \in PutPcs
  BY DEF PutPcs
<1>3. FilesTrue'
  BY <1>1, AtFacts, FilesKept DEF Setting
<1>4. /\ dataBuf' \in Sectors /\ files' \in [Fds -> FileType \cup {NoFile}]
      /\ through' \in [Fds -> Values] /\ sole' \in [Fds -> BOOLEAN]
      /\ boot = "on" /\ MayRun(t) /\ task[t] \in TaskType /\ task \in [Tasks -> TaskType]
      /\ task[t].pc = "put" /\ CallThread(t)
  BY <1>1, AtFacts, SectorTypes
<1>5. CASE Return(t, "failed") /\ UNCHANGED <<nextSeq, meta>>
  <2>1. meta' \in Tasks \cup {NoTask}
    BY <1>1, <1>5, AtFacts
  <2> QED BY <1>1, <1>3, <1>4, <1>5, <2>1, ReturnFacts, CallStep
<1>6. CASE /\ ~ (~ Stored(k) /\ FreeBlocks = {}) /\ nextSeq <= MaxSeq
           /\ task' = [task EXCEPT ![t].block = Target(Stored(k), k), ![t].seq = nextSeq,
                                   ![t].pc = "super"]
           /\ nextSeq' = nextSeq + 1 /\ meta' = t
  <2>0. PICK b, n : b = Target(Stored(k), k) /\ n = nextSeq
    OBVIOUS
  <2>1. b \in Blocks /\ \A c \in Blocks : IsActive(c) => (disk[c].key = k <=> c = b)
    <3>1. CASE Stored(k)
      <4>1. Best(k) \in Blocks /\ Matches(k) = {Best(k)}
        BY <3>1, StoredValue DEF IInv, DiskSound
      <4> QED BY <2>0, <3>1, <4>1 DEF Target, Matches
    <3>2. CASE ~ Stored(k)
      <4>1. FreeBlocks \subseteq Nat /\ FreeBlocks # {} /\ FreeBlocks \subseteq Blocks
        BY <1>6, <3>2 DEF FreeBlocks, Blocks
      <4>2. \E c \in FreeBlocks : \A d \in FreeBlocks : c <= d
        BY <4>1, LeastNatural
      <4>3. FirstFree \in FreeBlocks
        BY <4>2 DEF FirstFree
      <4>4. b = FirstFree
        BY <2>0, <3>2 DEF Target
      <4> QED BY <3>2, <4>1, <4>3, <4>4 DEF Stored, Matches, FreeBlocks
    <3> QED BY <3>1, <3>2
  <2>2. n \in 1 .. MaxSeq /\ n < nextSeq' /\ nextSeq' = n + 1
    BY <1>1, <1>2, <1>6, <2>0, PutFacts, StoreFacts
  <2>3. PICK me : me = [task[t] EXCEPT !.block = b, !.seq = n, !.pc = "super"]
    OBVIOUS
  <2>4. task' = [task EXCEPT ![t] = me] /\ task'[t] = me
    BY <1>4, <1>6, <2>0, <2>3
  <2>5. me \in TaskType
    <3>1. b \in 0 .. NBlocks /\ n \in 0 .. MaxSeq /\ "super" \in PCs
      BY <2>1, <2>2, StoreFacts DEF PCs, PutPcs
    <3> QED BY <1>4, <2>3, <3>1 DEF TaskType
  <2>6. /\ me.pc = "super" /\ me.block = b /\ me.seq = n /\ me.op = task[t].op /\ me.key = k
        /\ me.fd = task[t].fd /\ me.val = task[t].val /\ me.chunk = task[t].chunk
    BY <1>0, <1>4, <2>3 DEF TaskType
  <2>7. PutThread(t)'
    <3>1. k \in Keys /\ task[t].op \in {"open", "written"}
      BY <1>0, <1>1, <1>2, PutFacts
    <3> QED BY <1>1, <2>1, <2>2, <2>4, <2>6, <3>1 DEF PutThread, PutPcs, IsActive
  <2>8. CallThread(t)'
    <3>1. \A j : j = task[t].key => (Stored(j)' <=> Stored(j))
      BY <1>1, SameDisk
    <3>2. Stored(task[t].key) \/ \A j : j = task[t].key => ~ Stored(j)'
      BY <3>1
    <3>3. task'[t].pc \in PutPcs /\ task[t].pc \in PutPcs
      BY <1>4, <2>4, <2>6 DEF PutPcs
    <3> QED BY <1>0, <1>1, <1>4, <2>4, <2>6, <3>2, <3>3, CallKept
  <2>9. /\ nextSeq <= MaxSeq /\ nextSeq' = nextSeq + 1 /\ meta' \in Tasks \cup {NoTask}
        /\ disk' = disk /\ boot' = boot /\ fmt' = fmt
    BY <1>1, <1>6
  <2> QED BY <1>3, <1>4, <2>4, <2>5, <2>7, <2>8, <2>9, CallStep
<1>7. PICK found \in Found(k) :
        IF ~ found /\ FreeBlocks = {}
        THEN Return(t, "failed") /\ UNCHANGED <<nextSeq, meta>>
        ELSE /\ nextSeq <= MaxSeq
             /\ task' = [task EXCEPT ![t].block = Target(found, k), ![t].seq = nextSeq,
                                     ![t].pc = "super"]
             /\ nextSeq' = nextSeq + 1 /\ meta' = t
  BY <1>0 DEF PutChoose
<1>8. found = Stored(k)
  BY FoundIs
<1> QED BY <1>5, <1>6, <1>7, <1>8, Zenon

(* DATA_BUF is filled for the next request.                                *)
LEMMA FillKeeps ==
  ASSUME Setting, IInv, NEW t \in Tasks, NEW pc \in PutPcs, NEW next \in PutPcs,
         NEW sector \in Sectors, At(t, pc), dataBuf' = sector, Goto(t, next),
         UNCHANGED <<disk, boot, fmt, nextSeq, meta, files, through, sole>>, PutThread(t)'
  PROVE  IInv'
<1>1. PICK me : me = [task[t] EXCEPT !.pc = next]
  OBVIOUS
<1>2. task[t] \in TaskType /\ task' = [task EXCEPT ![t] = me] /\ task'[t] = me
  BY <1>1, AtFacts DEF Goto
<1>3. /\ me \in TaskType /\ me.pc = next /\ me.op = task[t].op /\ me.key = task[t].key
      /\ me.fd = task[t].fd /\ me.val = task[t].val /\ me.chunk = task[t].chunk
  BY <1>1, <1>2 DEF TaskType, PCs
<1>4. CallThread(t)'
  <2>1. \A j : j = task[t].key => (Stored(j)' <=> Stored(j))
    BY SameDisk
  <2>2. Stored(task[t].key) \/ \A j : j = task[t].key => ~ Stored(j)'
    BY <2>1
  <2>3. task[t].pc \in PutPcs /\ CallThread(t)
    BY AtFacts
  <2> QED BY <1>2, <1>3, <2>2, <2>3, CallKept
<1>5. FilesTrue'
  <2>1. task[t].pc # "written"
    BY AtFacts DEF PutPcs
  <2> QED BY <2>1, AtFacts, FilesKept DEF Setting
<1>9. /\ boot = "on" /\ MayRun(t) /\ disk' = disk /\ boot' = boot /\ fmt' = fmt
      /\ nextSeq' = nextSeq /\ meta' \in Tasks \cup {NoTask} /\ dataBuf' \in Sectors
      /\ files' \in [Fds -> FileType \cup {NoFile}] /\ through' \in [Fds -> Values]
      /\ sole' \in [Fds -> BOOLEAN]
  BY AtFacts
<1> QED BY <1>2, <1>3, <1>4, <1>5, <1>9, CallStep

LEMMA PutFillSuperKeeps ==
  ASSUME Setting, IInv, NEW t \in Tasks, PutFillSuper(t)
  PROVE  IInv'
<1>1. /\ At(t, "super") /\ dataBuf' = Super(nextSeq) /\ Goto(t, "superReq")
      /\ UNCHANGED <<disk, boot, fmt, nextSeq, meta, files, through, sole>>
  BY DEF PutFillSuper, Fill
<1>2. "super" \in PutPcs /\ "superReq" \in PutPcs
  BY DEF PutPcs
<1>3. Super(nextSeq) \in Sectors
  BY <1>1, <1>2, PutFacts, SectorTypes
<1>4. /\ task'[t].pc = "superReq" /\ task'[t].key = task[t].key /\ task'[t].op = task[t].op
      /\ task'[t].block = task[t].block /\ task'[t].seq = task[t].seq
  BY <1>1, AtFacts DEF Goto, TaskType
<1>5. task[t].pc = "super" /\ PutThread(t)
  BY <1>1, AtFacts
<1>6. PutThread(t)'
  BY <1>1, <1>4, <1>5 DEF PutThread, PutPcs, IsActive, Super
<1> QED BY <1>1, <1>2, <1>3, <1>6, FillKeeps

LEMMA PutFillRecordKeeps ==
  ASSUME Setting, IInv, NEW t \in Tasks, PutFillRecord(t)
  PROVE  IInv'
<1>1. /\ At(t, "record") /\ Goto(t, "recordReq")
      /\ dataBuf' = Record(task[t].key, task[t].seq, task[t].val)
      /\ UNCHANGED <<disk, boot, fmt, nextSeq, meta, files, through, sole>>
  BY DEF PutFillRecord, Fill
<1>2. "record" \in PutPcs /\ "recordReq" \in PutPcs
  BY DEF PutPcs
<1>3. Record(task[t].key, task[t].seq, task[t].val) \in Sectors
  BY <1>1, <1>2, PutFacts, SectorTypes
<1>4. /\ task'[t].pc = "recordReq" /\ task'[t].key = task[t].key /\ task'[t].op = task[t].op
      /\ task'[t].block = task[t].block /\ task'[t].seq = task[t].seq
      /\ task'[t].val = task[t].val
  BY <1>1, AtFacts DEF Goto, TaskType
<1>5. task[t].pc = "record" /\ PutThread(t)
  BY <1>1, AtFacts
<1>6. PutThread(t)'
  BY <1>1, <1>4, <1>5 DEF PutThread, PutPcs, IsActive, Record
<1> QED BY <1>1, <1>2, <1>3, <1>6, FillKeeps

(* The steps that write the disk.                                          *)
LEMMA PutWriteSuperKeeps ==
  ASSUME Setting, IInv, NEW t \in Tasks, PutWriteSuper(t)
  PROVE  IInv'
<1>1. /\ At(t, "superReq") /\ disk' = [disk EXCEPT ![0] = dataBuf] /\ meta' = NoTask
      /\ Goto(t, "record")
      /\ UNCHANGED <<dataBuf, boot, fmt, nextSeq, files, through, sole>>
  BY DEF PutWriteSuper
<1>2. "superReq" \in PutPcs /\ "record" \in PutPcs
  BY DEF PutPcs
<1>3. task[t].pc = "superReq" /\ PutThread(t) /\ CallThread(t) /\ task[t] \in TaskType
  BY <1>1, AtFacts
<1>4. dataBuf = Super(nextSeq) /\ dataBuf \in Sectors
  BY <1>1, <1>3, AtFacts DEF PutThread
<1>5. /\ disk'[0].kind = "super" /\ disk'[0].seq = nextSeq
      /\ \A b \in Blocks : disk'[b] = disk[b]
      /\ disk' \in [0 .. NBlocks -> Sectors]
  BY <1>1, <1>4, AtFacts, StoreFacts, SectorFields
<1>6. FilesTrue' /\ OneRecord'
  BY <1>1, <1>3, <1>5, AtFacts, FilesKept DEF Setting
<1>7. DiskSound'
  <2>1. \A b \in Blocks : IsActive(b)' => disk'[b].seq < disk'[0].seq
    <3>1. \A b \in Blocks : IsActive(b) => disk[b].seq \in Nat /\ disk[b].seq < disk[0].seq
      BY <1>1, <1>2, PutFacts
    <3>2. disk[0].seq \in Nat /\ nextSeq \in Nat /\ disk[0].seq <= nextSeq
      BY <1>1, <1>2, PutFacts, StoreFacts
    <3> QED BY <1>5, <3>1, <3>2 DEF IsActive
  <2> QED BY <1>5, <1>6, <2>1 DEF DiskSound, RestartOutranks, Unformatted
<1>8. PICK me : me = [task[t] EXCEPT !.pc = "record"]
  OBVIOUS
<1>9. task' = [task EXCEPT ![t] = me] /\ task'[t] = me
  BY <1>1, <1>8, AtFacts DEF Goto
<1>10. /\ me \in TaskType /\ me.pc = "record" /\ me.op = task[t].op /\ me.key = task[t].key
       /\ me.fd = task[t].fd /\ me.val = task[t].val /\ me.chunk = task[t].chunk
       /\ me.block = task[t].block /\ me.seq = task[t].seq
  BY <1>2, <1>3, <1>8 DEF TaskType, PCs
<1>11. PutThread(t)'
  <2>1. /\ me.key \in Keys /\ me.op \in {"open", "written"}
        /\ me.block \in Blocks /\ me.seq \in 1 .. MaxSeq /\ me.seq < nextSeq
        /\ \A b \in Blocks : IsActive(b) => (disk[b].key = me.key <=> b = me.block)
    BY <1>3, <1>10 DEF PutThread, PutPcs
  <2>2. \A b \in Blocks : IsActive(b)' => (disk'[b].key = me.key <=> b = me.block)
    BY <1>5, <2>1 DEF IsActive
  <2> QED BY <1>5, <1>9, <1>10, <2>1, <2>2 DEF PutThread, PutPcs
<1>12. CallThread(t)'
  <2>1. OneIn(disk)
    BY DiskView DEF IInv, DiskSound
  <2>2. \A k : HoldsIn(disk', k) = HoldsIn(disk, k)
    BY <1>5, <2>1, SameRecords
  <2>3. ASSUME NEW j PROVE Stored(j)' <=> Stored(j)
    BY <2>2, DiskView
  <2>4. Stored(task[t].key) \/ \A j : j = task[t].key => ~ Stored(j)'
    BY <2>3
  <2> QED BY <1>1, <1>2, <1>3, <1>9, <1>10, <2>4, CallKept
<1>13. Threads'
  <2>1. \A u \in Tasks \ {t} : task'[u] = task[u]
    BY <1>9, AtFacts, <1>1
  <2> QED BY <1>1, <1>11, <1>12, <2>1, AtFacts, ThreadsKept DEF Setting
<1>14. UpOrEmpty'
  <2>1. boot' = "on" /\ nextSeq' = nextSeq /\ nextSeq \in Nat
    BY <1>1, AtFacts, StoreFacts
  <2> QED BY <1>5, <2>1 DEF UpOrEmpty
<1>15. Types'
  BY <1>1, <1>5, <1>9, <1>10 DEF IInv, Types
<1> QED BY <1>6, <1>7, <1>13, <1>14, <1>15 DEF IInv

(* The put of t has stored its record.                                     *)
LEMMA RecordStored ==
  ASSUME Setting, IInv, NEW t \in Tasks, At(t, "recordReq"),
         disk' = [disk EXCEPT ![task[t].block] = dataBuf], files' = files,
         through' = through, sole' = sole, NEW k, NEW v, k = task[t].key, v = task[t].val
  PROVE  /\ disk' \in [0 .. NBlocks -> Sectors] /\ disk'[0] = disk[0] /\ DiskSound'
         /\ Stored(k)' /\ Contents(k)' = v
         /\ \A j : j # k => /\ Stored(j)' <=> Stored(j)
                            /\ Stored(j) => Contents(j)' = Contents(j)
<1>1. "recordReq" \in PutPcs
  BY DEF PutPcs
<1>2. PICK b, n : b = task[t].block /\ n = task[t].seq
  OBVIOUS
<1>3. /\ b \in Blocks /\ n \in 1 .. MaxSeq
      /\ \A c \in Blocks : disk[c].kind = "record" => (disk[c].key = k <=> c = b)
  BY <1>1, <1>2, PutFacts DEF IsActive
<1>4. dataBuf = Record(k, n, v) /\ n < disk[0].seq /\ dataBuf \in Sectors
  BY <1>2, AtFacts DEF PutThread
<1>5. /\ disk' \in [0 .. NBlocks -> Sectors] /\ disk'[0] = disk[0] /\ disk'[b] = Record(k, n, v)
      /\ \A c \in Blocks \ {b} : disk'[c] = disk[c]
  BY <1>2, <1>3, <1>4, AtFacts, StoreFacts
<1>6. OneIn(disk)
  BY DiskView DEF IInv, DiskSound
<1>7. /\ OneIn(disk') /\ HoldsIn(disk', k) = {b} /\ ValueIn(disk', k) = v
      /\ \A j : j # k => /\ HoldsIn(disk', j) = HoldsIn(disk, j)
                         /\ HoldsIn(disk, j) # {} => ValueIn(disk', j) = ValueIn(disk, j)
  <2>1. PICK E : E = disk'
    OBVIOUS
  <2>2. E[b] = Record(k, n, v) /\ \A c \in Blocks \ {b} : E[c] = disk[c]
    BY <1>5, <2>1
  <2>3. /\ OneIn(E) /\ HoldsIn(E, k) = {b} /\ ValueIn(E, k) = v
        /\ \A j : j # k => /\ HoldsIn(E, j) = HoldsIn(disk, j)
                           /\ HoldsIn(disk, j) # {} => ValueIn(E, j) = ValueIn(disk, j)
    BY <1>3, <1>6, <2>2, RecordWritten
  <2> QED BY <2>1, <2>3
<1>8. Stored(k)' /\ Contents(k)' = v
  <2>1. (Stored(k)' <=> HoldsIn(disk', k) # {}) /\ Contents(k)' = ValueIn(disk', k)
    BY DiskView
  <2> QED BY <1>7, <2>1
<1>9. ASSUME NEW j, j # k PROVE (Stored(j)' <=> Stored(j)) /\ (Stored(j) => Contents(j)' = Contents(j))
  <2>1. /\ Stored(j) <=> HoldsIn(disk, j) # {}
        /\ Stored(j)' <=> HoldsIn(disk', j) # {}
        /\ Contents(j) = ValueIn(disk, j) /\ Contents(j)' = ValueIn(disk', j)
    BY DiskView
  <2> QED BY <1>7, <1>9, <2>1
<1>10. DiskSound'
  <2>1. OneRecord'
    BY <1>7, DiskView
  <2>2. RestartOutranks'
    <3> SUFFICES ASSUME NEW c \in Blocks, IsActive(c)' PROVE disk'[c].seq < disk'[0].seq
      BY DEF RestartOutranks
    <3>1. CASE c = b
      BY <1>4, <1>5, <3>1, SectorFields
    <3>2. CASE c # b
      BY <1>1, <1>5, <3>2, PutFacts DEF IsActive
    <3> QED BY <3>1, <3>2
  <2>3. disk'[0].kind = "super"
    BY <1>1, <1>5, PutFacts
  <2> QED BY <2>1, <2>2, <2>3 DEF DiskSound, Unformatted
<1> QED BY <1>5, <1>8, <1>9, <1>10

LEMMA FilesStored ==
  ASSUME Setting, IInv, NEW t \in Tasks, At(t, "recordReq"),
         disk' = [disk EXCEPT ![task[t].block] = dataBuf], files' = files,
         through' = through, sole' = sole
  PROVE  FilesTrue'
<1>0. PICK k, v, f, c : /\ k = task[t].key /\ v = task[t].val
                        /\ f = task[t].fd /\ c = task[t].chunk
  OBVIOUS
<1>1. /\ Stored(k)' /\ Contents(k)' = v
      /\ \A j : j # k => /\ Stored(j)' <=> Stored(j)
                         /\ Stored(j) => Contents(j)' = Contents(j)
  BY <1>0, RecordStored
<1>2. /\ task[t].pc = "recordReq" /\ CallThread(t) /\ task[t] \in TaskType
      /\ task[t].pc \in PutPcs /\ task[t].op \in {"open", "written"}
      /\ v \in Seq(Data) /\ c \in Seq(Data)
  <2>1. "recordReq" \in PutPcs
    BY DEF PutPcs
  <2>2. v \in Values /\ c \in Values
    BY <1>0, AtFacts DEF TaskType
  <2> QED BY <2>1, <2>2, AtFacts, PutFacts, ValuesAre
<1>3. ASSUME NEW g \in Fds PROVE FileTrue(g)'
  <2>1. CASE files[g] = NoFile
    BY <2>1 DEF FileTrue
  <2>2. PICK j : j = files[g].key
    OBVIOUS
  <2>3. ASSUME files[g] # NoFile
        PROVE  /\ Stored(j) /\ Len(through[g]) = files[g].off /\ through[g] \in Seq(Data)
               /\ sole[g] => Begins(through[g], Contents(j))
    <3>1. FileTrue(g) /\ ~ Counting(g)
      BY <1>2, AtFacts, NoneCounting DEF IInv, FilesTrue, Setting
    <3>2. through[g] \in Values
      BY AtFacts
    <3> QED BY <2>2, <2>3, <3>1, <3>2, ValuesAre DEF FileTrue
  <2>4. CASE files[g] # NoFile /\ j # k
    <3>1. Stored(j)' /\ Contents(j)' = Contents(j)
      BY <1>1, <2>3, <2>4
    <3>2. files'[g].key = j
      BY <2>2
    <3> QED BY <2>3, <2>4, <3>1, <3>2 DEF FileTrue
  <2>5. CASE files[g] # NoFile /\ j = k
    <3>1. task[t].op = "written"
      BY <1>0, <1>2, <2>3, <2>5 DEF CallThread
    <3>2. /\ sole[f] => Begins(through[f] \o c, v)
          /\ g # f => ~ sole[g]
      BY <1>0, <1>2, <2>2, <2>5, <3>1 DEF CallThread
    <3>3. sole[g] => Begins(through[g], v)
      BY <1>2, <2>3, <2>5, <3>2, BeginsLess
    <3>4. files'[g].key = k
      BY <2>2, <2>5
    <3> QED BY <1>1, <2>3, <2>5, <3>3, <3>4 DEF FileTrue
  <2> QED BY <2>1, <2>4, <2>5
<1> QED BY <1>3 DEF FilesTrue

LEMMA PutWriteRecordKeeps ==
  ASSUME Setting, IInv, NEW t \in Tasks, PutWriteRecord(t)
  PROVE  IInv'
<1>1. /\ At(t, "recordReq")
      /\ UNCHANGED <<dataBuf, boot, fmt, nextSeq, meta, files, through, sole>>
  BY DEF PutWriteRecord
<1>2. /\ task[t] \in TaskType /\ boot = "on" /\ MayRun(t) /\ task[t].pc = "recordReq"
      /\ task \in [Tasks -> TaskType] /\ CallThread(t) /\ task[t].pc \in PutPcs
      /\ task[t].pc # "written" /\ task[t].op \in {"open", "written"} /\ task[t].key \in Keys
      /\ files' \in [Fds -> FileType \cup {NoFile}] /\ through' \in [Fds -> Values]
      /\ sole' \in [Fds -> BOOLEAN] /\ meta' \in Tasks \cup {NoTask} /\ dataBuf' \in Sectors
      /\ nextSeq' \in 0 .. MaxSeq + 1
  <2>1. "recordReq" \in PutPcs
    BY DEF PutPcs
  <2> QED BY <1>1, <2>1, AtFacts, PutFacts
<1>3. CASE disk' = disk /\ Return(t, "failed")
  <2>1. FilesTrue'
    BY <1>1, <1>2, <1>3, FilesKept DEF Setting
  <2> QED BY <1>1, <1>2, <1>3, <2>1, ReturnFacts, CallStep
<1>4. ASSUME disk' = [disk EXCEPT ![task[t].block] = dataBuf], NEW me \in TaskType,
             task' = [task EXCEPT ![t] = me], PutThread(t)', CallThread(t)'
      PROVE  IInv'
  <2>1. FilesTrue'
    BY <1>1, <1>4, FilesStored
  <2>2. disk' \in [0 .. NBlocks -> Sectors] /\ disk'[0] = disk[0] /\ DiskSound'
    BY <1>1, <1>4, RecordStored
  <2>3. Types'
    BY <1>1, <1>2, <1>4, <2>2 DEF IInv, Types
  <2>4. UpOrEmpty'
    BY <1>1, <1>2, <2>2 DEF IInv, UpOrEmpty
  <2>5. Threads'
    <3>1. \A u \in Tasks \ {t} : task'[u] = task[u]
      BY <1>2, <1>4
    <3> QED BY <1>2, <1>4, <3>1, ThreadsKept DEF Setting
  <2> QED BY <2>1, <2>2, <2>3, <2>4, <2>5 DEF IInv
<1>5. CASE disk' = [disk EXCEPT ![task[t].block] = dataBuf] /\ Return(t, "failed")
  BY <1>4, <1>5, ReturnFacts
<1>6. CASE /\ disk' = [disk EXCEPT ![task[t].block] = dataBuf]
           /\ task' = [task EXCEPT ![t].pc = task[t].op, ![t].res = "ok"]
  <2>0. PICK me, k, v, f, c : /\ me = [task[t] EXCEPT !.pc = task[t].op, !.res = "ok"]
                              /\ k = task[t].key /\ v = task[t].val
                              /\ f = task[t].fd /\ c = task[t].chunk
    OBVIOUS
  <2>1. task' = [task EXCEPT ![t] = me] /\ task'[t] = me
    BY <1>2, <1>6, <2>0
  <2>2. /\ me \in TaskType /\ me.pc = task[t].op /\ me.op = task[t].op /\ me.key = k
        /\ me.fd = f /\ me.val = v /\ me.chunk = c
    BY <1>2, <2>0 DEF TaskType, PCs
  <2>3. PutThread(t)'
    BY <1>2, <2>0, <2>1, <2>2 DEF PutThread, PutPcs
  <2>4. CallThread(t)'
    <3>1. Stored(k)' /\ Contents(k)' = v
      BY <1>1, <1>6, <2>0, RecordStored
    <3>2. task[t].op = "written" =>
            /\ files[f] # NoFile /\ files[f].key = k /\ files[f].off + Len(c) <= MaxLen
            /\ sole[f] => Begins(through[f] \o c, v)
            /\ \A g \in Fds \ {f} : files[g] # NoFile /\ files[g].key = k => ~ sole[g]
      BY <1>2, <2>0 DEF CallThread
    <3> QED BY <1>1, <1>2, <2>1, <2>2, <3>1, <3>2 DEF CallThread, PutPcs
  <2> QED BY <1>4, <1>6, <2>1, <2>2, <2>3, <2>4
<1>7. PICK stored \in BOOLEAN, ok \in BOOLEAN :
        /\ ok => stored
        /\ disk' = IF stored THEN [disk EXCEPT ![task[t].block] = dataBuf] ELSE disk
        /\ IF ok
           THEN task' = [task EXCEPT ![t].pc = task[t].op, ![t].res = "ok"]
           ELSE Return(t, "failed")
  BY DEF PutWriteRecord
<1> QED BY <1>3, <1>5, <1>6, <1>7

-----------------------------------------------------------------------------
(* Boot, format and crash: memory is empty before and after.               *)
LEMMA EmptyMemory ==
  ASSUME Types', DiskSound', \A f \in Fds : files'[f] = NoFile,
         \A t \in Tasks : task'[t] = Idle
  PROVE  Threads' /\ FilesTrue'
<1>1. FilesTrue'
  BY DEF FilesTrue, FileTrue
<1>2. ASSUME NEW t \in Tasks PROVE PutThread(t)' /\ CallThread(t)'
  BY IdleFacts DEF PutThread, CallThread, PutPcs
<1> QED BY <1>1, <1>2 DEF Threads

LEMMA InitHolds ==
  ASSUME Init
  PROVE  IInv
<1>1. Types
  BY StoreFacts, SectorTypes, IdleFacts, EmptyValue DEF Init, Types
<1>2. \A b \in 0 .. NBlocks : disk[b].kind = "blank"
  BY SectorFields DEF Init
<1>3. DiskSound
  BY <1>2, StoreFacts DEF DiskSound, OneRecord, RestartOutranks, Unformatted, IsActive
<1>4. UpOrEmpty /\ FilesTrue
  BY DEF Init, UpOrEmpty, FilesTrue, FileTrue
<1>5. Threads
  <2>1. \A t \in Tasks : task[t] = Idle
    BY DEF Init
  <2> QED BY <2>1, IdleFacts DEF Threads, PutThread, CallThread, PutPcs
<1> QED BY <1>1, <1>3, <1>4, <1>5 DEF IInv

LEMMA BootKeeps ==
  ASSUME IInv, Boot
  PROVE  IInv'
<1>1. boot = "off" /\ UNCHANGED <<disk, meta, files, task, through, sole>>
  BY DEF Boot
<1>2. disk[0] \in Sectors /\ dataBuf' = disk[0] /\ fmt' = 0
  BY StoreFacts DEF IInv, Types, Boot
<1>3. (\A f \in Fds : files'[f] = NoFile) /\ (\A t \in Tasks : task'[t] = Idle)
  BY <1>1 DEF IInv, UpOrEmpty
<1>4. \/ disk[0].kind = "super" /\ boot' = "on" /\ nextSeq' = disk[0].seq
      \/ disk[0].kind # "super" /\ boot' = "format" /\ nextSeq' = 1
  BY DEF Boot
<1>5. nextSeq' \in 0 .. MaxSeq + 1
  BY <1>2, <1>4, SectorKinds, StoreFacts
<1>6. Types'
  BY <1>1, <1>2, <1>4, <1>5, StoreFacts DEF IInv, Types
<1>7. DiskSound'
  BY <1>1, SameDisk DEF IInv
<1>8. UpOrEmpty'
  BY <1>1, <1>2, <1>3, <1>4, <1>5, StoreFacts, SectorKinds DEF UpOrEmpty
<1> QED BY <1>3, <1>6, <1>7, <1>8, EmptyMemory DEF IInv

LEMMA FormatKeeps ==
  ASSUME IInv, Format
  PROVE  IInv'
<1>1. boot = "format" /\ UNCHANGED <<nextSeq, meta, files, task, through, sole>>
  BY DEF Format, ram
<1>2. (\A f \in Fds : files'[f] = NoFile) /\ (\A t \in Tasks : task'[t] = Idle)
  BY <1>1 DEF IInv, UpOrEmpty
<1>3. /\ disk[0].kind # "super" /\ nextSeq = 1 /\ \A b \in Blocks : disk[b].kind # "record"
      /\ disk \in [0 .. NBlocks -> Sectors] /\ fmt \in 0 .. NBlocks + 1
  BY <1>1 DEF IInv, UpOrEmpty, DiskSound, Unformatted, IsActive, Types
<1>4. CASE /\ fmt <= NBlocks /\ disk' = [disk EXCEPT ![fmt] = Blank] /\ fmt' = fmt + 1
           /\ boot' = boot /\ dataBuf' = Blank
  <2>1. disk' \in [0 .. NBlocks -> Sectors] /\ fmt' \in 0 .. NBlocks + 1
    BY <1>3, <1>4, SectorTypes, StoreFacts
  <2>2. disk'[0].kind # "super" /\ \A b \in Blocks : disk'[b].kind # "record"
    BY <1>3, <1>4, SectorFields, StoreFacts
  <2>3. Types'
    BY <1>1, <1>4, <2>1, SectorTypes DEF IInv, Types
  <2>4. DiskSound'
    BY <2>2 DEF DiskSound, OneRecord, RestartOutranks, Unformatted, IsActive
  <2>5. UpOrEmpty'
    BY <1>1, <1>2, <1>3, <1>4, <2>2 DEF UpOrEmpty
  <2> QED BY <1>2, <2>3, <2>4, <2>5, EmptyMemory DEF IInv
<1>5. CASE /\ disk' = [disk EXCEPT ![0] = Super(nextSeq)] /\ fmt' = 0 /\ boot' = "on"
           /\ dataBuf' = Super(nextSeq)
  <2>1. Super(1) \in Sectors
    BY SectorTypes, StoreFacts
  <2>2. disk' \in [0 .. NBlocks -> Sectors] /\ disk'[0] = Super(1)
    BY <1>3, <1>5, <2>1, StoreFacts
  <2>3. disk'[0].kind = "super" /\ disk'[0].seq = 1
    BY <2>2, SectorFields
  <2>4. \A b \in Blocks : disk'[b].kind # "record"
    BY <1>3, <1>5, StoreFacts
  <2>5. Types'
    BY <1>1, <1>3, <1>5, <2>1, <2>2, StoreFacts DEF IInv, Types
  <2>6. DiskSound'
    BY <2>3, <2>4 DEF DiskSound, OneRecord, RestartOutranks, Unformatted, IsActive
  <2>7. UpOrEmpty'
    BY <1>1, <1>3, <1>5, <2>3 DEF UpOrEmpty
  <2> QED BY <1>2, <2>5, <2>6, <2>7, EmptyMemory DEF IInv
<1> QED BY <1>4, <1>5 DEF Format

LEMMA CrashKeeps ==
  ASSUME IInv, Crash
  PROVE  IInv'
<1>1. /\ disk' = disk /\ boot' = "off"
      /\ (\A f \in Fds : files'[f] = NoFile) /\ (\A t \in Tasks : task'[t] = Idle)
  BY DEF Crash
<1>2. Types'
  BY StoreFacts, SectorTypes, IdleFacts, EmptyValue DEF IInv, Types, Crash
<1>3. DiskSound'
  BY <1>1, SameDisk DEF IInv
<1>4. UpOrEmpty'
  BY <1>1 DEF UpOrEmpty
<1> QED BY <1>1, <1>2, <1>3, <1>4, EmptyMemory DEF IInv

-----------------------------------------------------------------------------
LEMMA StepKeeps ==
  ASSUME Setting, IInv, [Next]_vars
  PROVE  IInv'
<1>1. CASE Boot \/ Format \/ Crash
  BY <1>1, BootKeeps, FormatKeeps, CrashKeeps
<1>2. ASSUME NEW t \in Tasks, Call(t) PROVE IInv'
  <2>1. ASSUME NEW k \in Keys, Create(t, k) \/ OpenCall(t, k) PROVE IInv'
    BY <2>1, CreateKeeps, OpenCallKeeps
  <2>2. ASSUME NEW f \in Fds, Close(t, f) \/ Read(t, f) PROVE IInv'
    BY <2>2, CloseKeeps, ReadKeeps
  <2>3. ASSUME NEW f \in Fds, NEW c \in Chunks, Write(t, f, c) PROVE IInv'
    BY <2>3, WriteKeeps
  <2> QED BY <1>2, <2>1, <2>2, <2>3 DEF Call
<1>3. ASSUME NEW t \in Tasks, Open(t) \/ Written(t) PROVE IInv'
  BY <1>3, OpenKeeps, WrittenKeeps
<1>4. ASSUME NEW t \in Tasks, PutStep(t) PROVE IInv'
  BY <1>4, PutChooseKeeps, PutFillSuperKeeps, PutWriteSuperKeeps, PutFillRecordKeeps,
     PutWriteRecordKeeps DEF PutStep
<1>5. CASE UNCHANGED vars
  <2>1. /\ disk' = disk /\ dataBuf' = dataBuf /\ boot' = boot /\ fmt' = fmt
        /\ nextSeq' = nextSeq /\ meta' = meta /\ files' = files /\ task' = task
        /\ through' = through /\ sole' = sole
    BY <1>5 DEF vars, ram
  <2>2. DiskSound' /\ \A k : (Stored(k)' <=> Stored(k)) /\ Contents(k)' = Contents(k)
    BY <2>1, SameDisk DEF IInv
  <2>3. Types' /\ UpOrEmpty'
    BY <2>1 DEF IInv, Types, UpOrEmpty
  <2>4. ASSUME NEW t \in Tasks PROVE PutThread(t)' /\ CallThread(t)'
    <3>1. PutThread(t) /\ CallThread(t)
      BY DEF IInv, Threads
    <3>2. PutThread(t)'
      BY <2>1, <3>1 DEF PutThread, IsActive
    <3>3. PICK k : k = task[t].key
      OBVIOUS
    <3>4. (Stored(k)' <=> Stored(k)) /\ Contents(k)' = Contents(k) /\ task'[t].key = k
      BY <2>1, <2>2, <3>3
    <3>5. CallThread(t)'
      BY <2>1, <3>1, <3>3, <3>4 DEF CallThread
    <3> QED BY <3>2, <3>5
  <2>5. ASSUME NEW f \in Fds PROVE FileTrue(f)'
    <3>1. FileTrue(f) /\ (Counting(f)' <=> Counting(f))
      BY <2>1 DEF IInv, FilesTrue, Counting
    <3>2. PICK k : k = files[f].key
      OBVIOUS
    <3>3. (Stored(k)' <=> Stored(k)) /\ Contents(k)' = Contents(k) /\ files'[f].key = k
      BY <2>1, <2>2, <3>2
    <3> QED BY <2>1, <3>1, <3>2, <3>3 DEF FileTrue
  <2> QED BY <2>2, <2>3, <2>4, <2>5 DEF IInv, Threads, FilesTrue
<1> QED BY <1>1, <1>2, <1>3, <1>4, <1>5 DEF Next

THEOREM Invariance == ASSUME Setting PROVE Spec => []IInv
<1>1. Init => IInv
  BY InitHolds
<1>2. IInv /\ [Next]_vars => IInv'
  BY StepKeeps
<1> QED BY <1>1, <1>2, PTL DEF Spec

(* Every variable is of its kind: a sequence number never passes its bound,*)
(* no file and no chunk outgrows a record, an offset stays inside a record.*)
THEOREM StoreTypeCorrect == ASSUME Setting PROVE Spec => []TypeOK
<1>1. IInv => TypeOK
  <2> SUFFICES ASSUME IInv PROVE TypeOK
    OBVIOUS
  <2>1. ASSUME NEW t \in Tasks PROVE task[t].block \in 0 .. NBlocks /\ task[t].val \in Values
    BY DEF IInv, Types, TaskType
  <2>2. ASSUME NEW f \in Fds PROVE files[f] = NoFile \/ files[f] \in [key : Keys, off : 0 .. MaxLen]
    BY DEF IInv, Types, FileType
  <2> QED BY <2>1, <2>2 DEF IInv, Types, TypeOK
<1> QED BY <1>1, Invariance, PTL

(* Power may be lost between any two writes of any put: the disk still     *)
(* names at most one record for a path, and after the restart no record    *)
(* carries a number that put will give out again.                          *)
THEOREM RecordsStaySound == ASSUME Setting PROVE Spec => []RecordsSound
<1>1. IInv => RecordsSound
  <2> SUFFICES ASSUME IInv, NEW k \in Keys PROVE Cardinality(Matches(k)) <= 1
    BY DEF IInv, DiskSound, RecordsSound, OneRecordPerKey
  <2>1. CASE Matches(k) = {}
    BY <2>1, FS_EmptySet
  <2>2. CASE \E b : b \in Matches(k)
    <3>1. PICK b : b \in Matches(k)
      BY <2>2
    <3>2. Matches(k) = {b}
      BY <3>1 DEF IInv, DiskSound, OneRecord, Matches
    <3>3. Cardinality({b}) = 1
      BY FS_Singleton
    <3> QED BY <3>2, <3>3
  <2> QED BY <2>1, <2>2
<1> QED BY <1>1, Invariance, PTL

(* A descriptor whose file nobody else writes has read and written exactly *)
(* the file's first bytes, as many as its offset says.                     *)
THEOREM OffsetsStayTrue == ASSUME Setting PROVE Spec => []OffsetsFollowContents
<1>1. IInv => OffsetsFollowContents
  <2> SUFFICES ASSUME IInv, NEW f \in Fds, files[f] # NoFile, sole[f],
                      \A t \in Tasks : task[t].pc # "written" \/ task[t].fd # f
               PROVE  /\ Stored(files[f].key) /\ files[f].off = Len(through[f])
                      /\ SubSeq(Contents(files[f].key), 1, files[f].off) = through[f]
    BY DEF OffsetsFollowContents
  <2>1. FileTrue(f) /\ ~ Counting(f)
    BY DEF IInv, FilesTrue, Counting
  <2>2. PICK k, v, p : k = files[f].key /\ v = Contents(k) /\ p = through[f]
    OBVIOUS
  <2>3. Stored(k) /\ Len(p) = files[f].off /\ Begins(p, v)
    BY <2>1, <2>2 DEF FileTrue
  <2>4. v \in Values /\ p \in Values
    BY <2>2, <2>3, StoredValue DEF IInv, DiskSound, Types
  <2>5. v \in Seq(Data) /\ p \in Seq(Data)
    BY <2>4, ValuesAre
  <2>6. SubSeq(v, 1, Len(p)) = p
    BY <2>3, <2>5, BeginsSubSeq
  <2> QED BY <2>2, <2>3, <2>6
<1> QED BY <1>1, Invariance, PTL

-----------------------------------------------------------------------------
(* The store implements Records.                                           *)
Answers == [t \in Tasks |-> task[t].res]
Asked(me) == IF me.pc \in PutPcs THEN [key |-> me.key, val |-> me.val] ELSE NoTask

LEMMA ViewOfTask ==
  ASSUME task \in [Tasks -> TaskType], NEW t \in Tasks, NEW me,
         task' = [task EXCEPT ![t] = me]
  PROVE  /\ AbstractPut' = [AbstractPut EXCEPT ![t] = Asked(me)]
         /\ Answers' = [Answers EXCEPT ![t] = me.res]
         /\ AbstractPut[t] = Asked(task[t])
BY DEF AbstractPut, Answers, Asked

LEMMA ViewOfDisk ==
  ASSUME \A k \in Keys : (Stored(k)' <=> Stored(k)) /\ (Stored(k) => Contents(k)' = Contents(k))
  PROVE  AbstractValue' = AbstractValue
BY DEF AbstractValue

(* A step inside a put, or outside of one.                                 *)
LEMMA Quiet ==
  ASSUME task \in [Tasks -> TaskType], NEW t \in Tasks, NEW me,
         task' = [task EXCEPT ![t] = me], me.res = task[t].res, Asked(me) = Asked(task[t]),
         AbstractValue' = AbstractValue
  PROVE  UNCHANGED Map!vars
<1>1. AbstractPut' = AbstractPut
  <2>1. AbstractPut' = [AbstractPut EXCEPT ![t] = AbstractPut[t]]
    BY ViewOfTask
  <2>2. AbstractPut = [u \in Tasks |-> AbstractPut[u]]
    BY DEF AbstractPut
  <2> QED BY <2>1, <2>2
<1>2. Answers' = Answers
  BY ViewOfTask DEF Answers
<1> QED BY <1>1, <1>2 DEF Map!vars, Answers

LEMMA Begun ==
  ASSUME task \in [Tasks -> TaskType], NEW t \in Tasks, NEW me \in TaskType,
         task' = [task EXCEPT ![t] = me], task[t].pc \notin PutPcs, me.pc \in PutPcs,
         me.key \in Keys, me.res = "none", AbstractValue' = AbstractValue
  PROVE  Map!Next
<1>1. Map!Begin(t, me.key, me.val)
  BY ViewOfTask DEF Map!Begin, Asked, Answers
<1>2. me.val \in Values
  BY DEF TaskType
<1> QED BY <1>1, <1>2 DEF Map!Next

LEMMA Finished ==
  ASSUME task \in [Tasks -> TaskType], NEW t \in Tasks, NEW me,
         task' = [task EXCEPT ![t] = me], task[t].pc \in PutPcs, me.pc \notin PutPcs,
         task[t].key \in Keys, NEW stored \in BOOLEAN, NEW ok \in BOOLEAN, ok => stored,
         me.res = IF ok THEN "ok" ELSE "failed",
         AbstractValue' = IF stored THEN [AbstractValue EXCEPT ![task[t].key] = task[t].val]
                                    ELSE AbstractValue
  PROVE  Map!Next
<1>1. AbstractPut[t] = [key |-> task[t].key, val |-> task[t].val]
  BY DEF AbstractPut
<1>2. AbstractPut[t] # NoTask
  BY <1>1, StoreFacts DEF TaskType
<1>3. /\ AbstractPut[t].key = task[t].key /\ AbstractPut[t].val = task[t].val
      /\ AbstractPut' = [AbstractPut EXCEPT ![t] = NoTask]
      /\ Answers' = [Answers EXCEPT ![t] = IF ok THEN "ok" ELSE "failed"]
  <2>1. Asked(me) = NoTask
    BY DEF Asked
  <2>2. AbstractPut' = [AbstractPut EXCEPT ![t] = NoTask]
    BY <2>1, ViewOfTask
  <2>3. Answers' = [Answers EXCEPT ![t] = IF ok THEN "ok" ELSE "failed"]
    BY ViewOfTask
  <2> QED BY <1>1, <2>2, <2>3
<1>4. Map!Finish(t, stored, ok)
  BY <1>2, <1>3 DEF Map!Finish, Answers
<1> QED BY <1>4 DEF Map!Next

LEMMA CallRefines ==
  ASSUME Setting, IInv, NEW t \in Tasks, Call(t) \/ Open(t) \/ Written(t)
  PROVE  Map!Next \/ UNCHANGED Map!vars
<1>1. task \in [Tasks -> TaskType] /\ task[t] \in TaskType /\ files \in [Fds -> FileType \cup {NoFile}]
  BY DEF IInv, Types
<1>2. disk' = disk => AbstractValue' = AbstractValue
  BY SameDisk, ViewOfDisk
<1>3. "put" \in PutPcs /\ "idle" \notin PutPcs /\ "open" \notin PutPcs /\ "written" \notin PutPcs
  BY DEF PutPcs
<1>4. ASSUME task[t].pc \notin PutPcs, disk' = disk, NEW me, me.pc \notin PutPcs,
             me.res = task[t].res, task' = [task EXCEPT ![t] = me]
      PROVE  UNCHANGED Map!vars
  <2>1. Asked(me) = Asked(task[t])
    BY <1>4 DEF Asked
  <2> QED BY <1>1, <1>2, <1>4, <2>1, Quiet
<1>5. ASSUME task' = task, disk' = disk PROVE UNCHANGED Map!vars
  <2>1. task' = [task EXCEPT ![t] = task[t]]
    BY <1>1, <1>5
  <2> QED BY <1>1, <1>2, <1>5, <2>1, Quiet
<1>6. ASSUME NEW me \in TaskType, task' = [task EXCEPT ![t] = me], me.pc = "put",
             me.key \in Keys, me.res = "none", task[t].pc \notin PutPcs, disk' = disk
      PROVE  Map!Next
  BY <1>1, <1>2, <1>3, <1>6, Begun
<1>7. ASSUME NEW k \in Keys, Create(t, k) PROVE Map!Next \/ UNCHANGED Map!vars
  <2>1. task[t].pc = "idle" /\ disk' = disk
    BY <1>7 DEF Create, At
  <2>2. PICK found \in Found(k) :
          task' = [task EXCEPT ![t] = [Idle EXCEPT !.key = k, !.op = "open",
                                         !.pc = IF found THEN "open" ELSE "put",
                                         !.res = IF found THEN task[t].res ELSE "none"]]
    BY <1>7 DEF Create
  <2>3. CASE found
    <3>1. PICK me : me = [Idle EXCEPT !.key = k, !.op = "open", !.pc = "open",
                                      !.res = task[t].res]
      OBVIOUS
    <3>2. me.pc = "open" /\ me.res = task[t].res
      BY <3>1 DEF Idle
    <3>3. task' = [task EXCEPT ![t] = me]
      BY <2>2, <2>3, <3>1
    <3> QED BY <1>3, <1>4, <2>1, <3>2, <3>3
  <2>4. CASE ~ found
    <3>1. PICK me : me = [Idle EXCEPT !.key = k, !.op = "open", !.pc = "put", !.res = "none"]
      OBVIOUS
    <3>2. task' = [task EXCEPT ![t] = me]
      BY <2>2, <2>4, <3>1
    <3>3. me \in TaskType /\ me.pc = "put" /\ me.key = k /\ me.res = "none"
      BY <3>1, IdleFacts DEF Idle, TaskType, PCs, PutPcs
    <3> QED BY <1>3, <1>6, <2>1, <3>2, <3>3
  <2> QED BY <2>3, <2>4
<1>8. ASSUME NEW k \in Keys, OpenCall(t, k) PROVE UNCHANGED Map!vars
  <2>1. PICK me : me = [Idle EXCEPT !.key = k, !.op = "open", !.pc = "open", !.res = task[t].res]
    OBVIOUS
  <2>2. me.pc = "open" /\ me.res = task[t].res
    BY <2>1 DEF Idle
  <2>3. task' = [task EXCEPT ![t] = me] /\ task[t].pc = "idle" /\ disk' = disk
    BY <1>8, <2>1 DEF OpenCall, At
  <2> QED BY <1>3, <1>4, <2>2, <2>3
<1>9. ASSUME NEW f \in Fds, Close(t, f) \/ Read(t, f) PROVE UNCHANGED Map!vars
  BY <1>5, <1>9 DEF Close, Read
<1>10. ASSUME NEW f \in Fds, NEW c \in Chunks, Write(t, f, c) PROVE Map!Next \/ UNCHANGED Map!vars
  <2>1. At(t, "idle") /\ task[t].pc = "idle" /\ disk' = disk /\ c \in Values /\ files[f] # NoFile
    BY <1>10 DEF Write, At, Chunks
  <2>2. PICK k, off, v : k = files[f].key /\ off = files[f].off /\ v = Contents(k)
    OBVIOUS
  <2>3. k \in Keys /\ off \in 0 .. MaxLen
    BY <1>1, <2>1, <2>2 DEF FileType
  <2>4. ASSUME NEW w \in Values,
               task' = [task EXCEPT ![t] = [Idle EXCEPT !.pc = "put", !.op = "written",
                          !.key = k, !.fd = f, !.val = w, !.chunk = c]]
        PROVE  Map!Next
    <3>1. PICK me : me = [Idle EXCEPT !.pc = "put", !.op = "written", !.key = k, !.fd = f,
                                      !.val = w, !.chunk = c]
      OBVIOUS
    <3>2. me \in TaskType /\ me.pc = "put" /\ me.key = k /\ me.res = "none"
      BY <2>1, <2>3, <3>1, IdleFacts DEF Idle, TaskType, PCs, PutPcs
    <3>3. task' = [task EXCEPT ![t] = me]
      BY <2>4, <3>1
    <3> QED BY <1>3, <1>6, <2>1, <2>3, <3>2, <3>3
  <2>5. \/ task' = task
        \/ task' = [task EXCEPT ![t] = [Idle EXCEPT !.pc = "put", !.op = "written",
                      !.key = k, !.fd = f, !.val = c, !.chunk = c]]
        \/ /\ Stored(k) /\ off <= Len(v) /\ off + Len(c) <= MaxLen
           /\ task' = [task EXCEPT ![t] = [Idle EXCEPT !.pc = "put", !.op = "written",
                         !.key = k, !.fd = f, !.val = Patched(v, off, c), !.chunk = c]]
    <3>1. Found(k) = {Stored(k)}
      BY FoundIs
    <3> QED BY <1>10, <2>2, <3>1 DEF Write
  <2>6. Stored(k) /\ off <= Len(v) /\ off + Len(c) <= MaxLen => Patched(v, off, c) \in Values
    <3>1. Stored(k) => v \in Values
      BY <2>2, StoredValue DEF IInv, DiskSound
    <3>2. off \in Nat
      BY <2>3, StoreFacts
    <3> QED BY <2>1, <3>1, <3>2, PatchedIs
  <2> QED BY <1>5, <2>1, <2>4, <2>5, <2>6
<1>11. ASSUME disk' = disk, task[t].pc \in {"open", "written"}, Return(t, task[t].res)
       PROVE  UNCHANGED Map!vars
  <2>1. PICK me : me = [Idle EXCEPT !.res = task[t].res]
    OBVIOUS
  <2>2. me.pc = "idle" /\ me.res = task[t].res
    BY <2>1 DEF Idle
  <2>3. task' = [task EXCEPT ![t] = me]
    BY <1>11, <2>1 DEF Return
  <2> QED BY <1>3, <1>4, <1>11, <2>2, <2>3
<1>12. CASE Open(t)
  BY <1>11, <1>12 DEF Open, At
<1>13. CASE Written(t)
  BY <1>11, <1>13 DEF Written, At
<1> QED BY <1>7, <1>8, <1>9, <1>10, <1>12, <1>13 DEF Call

LEMMA PutRefines ==
  ASSUME Setting, IInv, NEW t \in Tasks, PutStep(t)
  PROVE  Map!Next \/ UNCHANGED Map!vars
<1>1. task \in [Tasks -> TaskType] /\ task[t] \in TaskType
  BY DEF IInv, Types
<1>2. disk' = disk => AbstractValue' = AbstractValue
  BY SameDisk, ViewOfDisk
<1>3. /\ "put" \in PutPcs /\ "super" \in PutPcs /\ "superReq" \in PutPcs
      /\ "record" \in PutPcs /\ "recordReq" \in PutPcs
      /\ "idle" \notin PutPcs /\ "open" \notin PutPcs /\ "written" \notin PutPcs
  BY DEF PutPcs
<1>4. ASSUME task[t].pc \in PutPcs, AbstractValue' = AbstractValue, NEW pc \in PutPcs,
             NEW me \in TaskType, task' = [task EXCEPT ![t] = me], me.pc = pc,
             me.key = task[t].key, me.val = task[t].val, me.res = task[t].res
      PROVE  UNCHANGED Map!vars
  <2>1. Asked(me) = Asked(task[t])
    BY <1>4 DEF Asked
  <2> QED BY <1>1, <1>4, <2>1, Quiet
<1>5. ASSUME task[t].pc \in PutPcs, AbstractValue' = AbstractValue, NEW pc \in PutPcs, Goto(t, pc)
      PROVE  UNCHANGED Map!vars
  <2>1. PICK me : me = [task[t] EXCEPT !.pc = pc]
    OBVIOUS
  <2>2. task' = [task EXCEPT ![t] = me]
    BY <1>1, <1>5, <2>1 DEF Goto
  <2>3. /\ me \in TaskType /\ me.pc = pc /\ me.key = task[t].key /\ me.val = task[t].val
        /\ me.res = task[t].res
    BY <1>1, <1>5, <2>1 DEF TaskType, PCs
  <2> QED BY <1>4, <1>5, <2>2, <2>3
<1>6. ASSUME NEW stored \in BOOLEAN, At(t, "put") \/ At(t, "recordReq"), Return(t, "failed"),
             AbstractValue' = IF stored THEN [AbstractValue EXCEPT ![task[t].key] = task[t].val]
                                        ELSE AbstractValue
      PROVE  Map!Next
  <2>1. PICK me : me = [Idle EXCEPT !.res = "failed"]
    OBVIOUS
  <2>2. me.pc = "idle" /\ me.res = "failed" /\ task' = [task EXCEPT ![t] = me]
    BY <1>6, <2>1 DEF Idle, Return
  <2>3. task[t].pc \in PutPcs /\ task[t].key \in Keys
    BY <1>3, <1>6, PutFacts DEF At
  <2> QED BY <1>1, <1>3, <1>6, <2>2, <2>3, Finished
<1>7. CASE PutChoose(t)
  <2>0. PICK k : k = task[t].key
    OBVIOUS
  <2>1. At(t, "put") /\ task[t].pc = "put" /\ disk' = disk
    BY <1>7 DEF PutChoose, At
  <2>2. \/ Return(t, "failed")
        \/ \E found \in Found(k) :
             task' = [task EXCEPT ![t].block = Target(found, k), ![t].seq = nextSeq,
                                  ![t].pc = "super"]
    BY <1>7, <2>0 DEF PutChoose
  <2>3. ASSUME Return(t, "failed") PROVE Map!Next
    BY <1>2, <1>6, <2>1, <2>3
  <2>4. ASSUME NEW found, task' = [task EXCEPT ![t].block = Target(found, k), ![t].seq = nextSeq,
                                               ![t].pc = "super"]
        PROVE  UNCHANGED Map!vars
    <3>1. PICK me : me = [task[t] EXCEPT !.block = Target(found, k), !.seq = nextSeq,
                                         !.pc = "super"]
      OBVIOUS
    <3>2. task' = [task EXCEPT ![t] = me]
      BY <1>1, <2>4, <3>1
    <3>3. me.pc = "super" /\ me.key = task[t].key /\ me.val = task[t].val /\ me.res = task[t].res
      BY <1>1, <3>1 DEF TaskType
    <3>4. Asked(me) = Asked(task[t])
      BY <1>3, <2>1, <3>3 DEF Asked
    <3> QED BY <1>1, <1>2, <2>1, <3>2, <3>3, <3>4, Quiet
  <2> QED BY <2>2, <2>3, <2>4
<1>8. CASE PutFillSuper(t)
  BY <1>2, <1>3, <1>5, <1>8 DEF PutFillSuper, Fill, At
<1>9. CASE PutFillRecord(t)
  BY <1>2, <1>3, <1>5, <1>9 DEF PutFillRecord, Fill, At
<1>10. CASE PutWriteSuper(t)
  <2>1. At(t, "superReq") /\ Goto(t, "record") /\ disk' = [disk EXCEPT ![0] = dataBuf]
    BY <1>10 DEF PutWriteSuper
  <2>2. \A b \in Blocks : disk'[b] = disk[b]
    BY <2>1, StoreFacts DEF IInv, Types
  <2>3. OneIn(disk)
    BY DiskView DEF IInv, DiskSound
  <2>4. ASSUME NEW k PROVE (Stored(k)' <=> Stored(k)) /\ (Stored(k) => Contents(k)' = Contents(k))
    <3>1. /\ HoldsIn(disk', k) = HoldsIn(disk, k)
          /\ HoldsIn(disk, k) # {} => ValueIn(disk', k) = ValueIn(disk, k)
      BY <2>2, <2>3, SameRecords
    <3> QED BY <3>1, DiskView
  <2>5. AbstractValue' = AbstractValue
    BY <2>4, ViewOfDisk
  <2> QED BY <1>3, <1>5, <2>1, <2>5 DEF At
<1>11. CASE PutWriteRecord(t)
  <2>0. PICK k, v : k = task[t].key /\ v = task[t].val
    OBVIOUS
  <2>1. At(t, "recordReq") /\ task[t].pc = "recordReq" /\ files' = files /\ through' = through
        /\ sole' = sole
    BY <1>11 DEF PutWriteRecord, At
  <2>2. k \in Keys /\ task[t].op \in {"open", "written"}
    BY <1>3, <2>0, <2>1, PutFacts
  <2>3. PICK stored \in BOOLEAN, ok \in BOOLEAN :
          /\ ok => stored
          /\ disk' = IF stored THEN [disk EXCEPT ![task[t].block] = dataBuf] ELSE disk
          /\ IF ok
             THEN task' = [task EXCEPT ![t].pc = task[t].op, ![t].res = "ok"]
             ELSE Return(t, "failed")
    BY <1>11 DEF PutWriteRecord
  <2>4. AbstractValue' = IF stored THEN [AbstractValue EXCEPT ![k] = v] ELSE AbstractValue
    <3>1. CASE ~ stored
      BY <1>2, <2>3, <3>1
    <3>2. CASE stored
      <4>1. /\ Stored(k)' /\ Contents(k)' = v
            /\ \A j : j # k => /\ Stored(j)' <=> Stored(j)
                               /\ Stored(j) => Contents(j)' = Contents(j)
        BY <2>0, <2>1, <2>3, <3>2, RecordStored
      <4>2. AbstractValue' = [AbstractValue EXCEPT ![k] = v]
        BY <2>2, <4>1 DEF AbstractValue
      <4> QED BY <3>2, <4>2
    <3> QED BY <3>1, <3>2
  <2>5. CASE ~ ok
    BY <1>6, <2>0, <2>1, <2>3, <2>4, <2>5
  <2>6. CASE ok
    <3>1. PICK me : me = [task[t] EXCEPT !.pc = task[t].op, !.res = "ok"]
      OBVIOUS
    <3>2. task' = [task EXCEPT ![t] = me]
      BY <1>1, <2>3, <2>6, <3>1
    <3>3. me.pc \in {"open", "written"} /\ me.res = "ok"
      BY <1>1, <2>2, <3>1 DEF TaskType
    <3> QED BY <1>1, <1>3, <2>0, <2>1, <2>2, <2>3, <2>4, <2>6, <3>2, <3>3, Finished
  <2> QED BY <2>5, <2>6
<1> QED BY <1>7, <1>8, <1>9, <1>10, <1>11 DEF PutStep

(* Boot, format and crash leave the records alone.                         *)
LEMMA MachineRefines ==
  ASSUME IInv, Boot \/ Format \/ Crash
  PROVE  Map!Next \/ UNCHANGED Map!vars
<1>1. disk' = disk => AbstractValue' = AbstractValue
  BY SameDisk, ViewOfDisk
<1>2. task' = task /\ AbstractValue' = AbstractValue => UNCHANGED Map!vars
  BY DEF Map!vars, AbstractPut
<1>3. CASE Boot
  BY <1>1, <1>2, <1>3 DEF Boot
<1>4. CASE Format
  <2>1. task' = task /\ boot = "format"
    BY <1>4 DEF Format, ram
  <2>2. \A b \in Blocks : disk[b].kind # "record"
    BY <2>1 DEF IInv, UpOrEmpty, DiskSound, Unformatted, IsActive
  <2>3. ASSUME NEW b \in Blocks PROVE disk'[b].kind # "record"
    BY <1>4, <2>2, SectorFields, StoreFacts DEF Format, IInv, Types
  <2>4. \A k : ~ Stored(k) /\ ~ Stored(k)'
    BY <2>2, <2>3 DEF Stored, Matches, IsActive
  <2> QED BY <1>2, <2>1, <2>4, ViewOfDisk
<1>5. CASE Crash
  <2>1. task' = [t \in Tasks |-> Idle] /\ disk' = disk
    BY <1>5 DEF Crash
  <2>2. AbstractPut' = [t \in Tasks |-> NoTask] /\ Answers' = [t \in Tasks |-> "none"]
    BY <2>1, IdleFacts DEF AbstractPut, Answers, PutPcs
  <2>3. Map!Crash
    BY <1>1, <2>1, <2>2 DEF Map!Crash, Answers
  <2> QED BY <2>3 DEF Map!Next
<1> QED BY <1>3, <1>4, <1>5

(* Those above the store may reason with a map from paths to contents in   *)
(* which a put takes effect at once, or fails, or is cut off by a crash    *)
(* with or without effect; a put reported ok is there after every restart. *)
THEOREM StoreIsRecords == ASSUME Setting PROVE Spec => ImplementsRecords
<1>1. Init => Map!Init
  <2> SUFFICES ASSUME Init PROVE Map!Init
    OBVIOUS
  <2>1. \A k : ~ Stored(k)
    BY SectorFields, StoreFacts DEF Init, Stored, Matches, IsActive
  <2> QED BY <2>1, IdleFacts DEF Init, Map!Init, AbstractValue, AbstractPut, PutPcs
<1>2. IInv /\ [Next]_vars => [Map!Next]_(Map!vars)
  <2> SUFFICES ASSUME IInv, [Next]_vars PROVE Map!Next \/ UNCHANGED Map!vars
    OBVIOUS
  <2>1. CASE UNCHANGED vars
    <3>1. disk' = disk /\ task' = task
      BY <2>1 DEF vars, ram
    <3>2. AbstractValue' = AbstractValue
      BY <3>1, SameDisk, ViewOfDisk
    <3> QED BY <3>1, <3>2 DEF Map!vars, AbstractPut
  <2> QED BY <2>1, CallRefines, PutRefines, MachineRefines DEF Next
<1> QED BY <1>1, <1>2, Invariance, PTL DEF Spec, ImplementsRecords, Map!Spec
=============================================================================
