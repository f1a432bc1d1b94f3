---------------------------- MODULE Fabric_proofs ----------------------------
(***************************************************************************)
(* Theorems about the protected fabric, for every set of services, every   *)
(* order of notices, every ring size and every number of launches.         *)
(***************************************************************************)
EXTENDS Fabric, TLAPS

(* What the bootstrap channel carries.  Only init and servicemgr fail      *)
(* critically, and neither has an entry in the registry.                   *)
Reports == {s \in Statuses : s.kind = "critical" => s.of \notin Services}

BoxesOK(b) ==
    /\ b \in [Chans -> Seq(Notes \cup Reports)]
    /\ b["bootstrap"] \in Seq(Reports)
    /\ \A c \in Programs : b[c] \in Seq(Notes)
    /\ \A c \in Chans : Len(b[c]) <= RingSize

MgrRecords == [pass : {"critical", "optional"}, todo : SUBSET Services,
               pending : SUBSET Services, flawed : BOOLEAN]
KernelRecords ==
    [pc : {"idle", "notify", "spawn", "await"}, launch : 0 .. MaxLaunch,
     left : Seq(Programs), outcome : Outcomes,
     report : [seen : SUBSET Programs, degraded : BOOLEAN, failure : BOOLEAN]]

KernelOK ==
    /\ kernel \in KernelRecords
    /\ kernel.pc = "notify" => kernel.launch < MaxLaunch

Types ==
    /\ KernelOK
    /\ pc \in [Instances -> PCs]
    /\ mgr \in [Launches -> MgrRecords]
    /\ BoxesOK(box)
    /\ health \in [Services -> Healths]
    /\ announced \subseteq Programs

(* While a launch is under way, every "ready" in the bootstrap channel is  *)
(* of somebody who announced himself since the drain.                      *)
Backed(b, A) ==
    \A i \in 1 .. Len(b["bootstrap"]) :
        b["bootstrap"][i].kind = "ready" => b["bootstrap"][i].of \in A

(* OutcomeIsEarned is not inductive: what the report has seen, and what it *)
(* may still read, must be earned too.                                     *)
Earned ==
    /\ kernel.pc \in {"spawn", "await"} => Backed(box, announced)
    /\ kernel.pc = "await" => kernel.report.seen \subseteq announced
    /\ kernel.pc # "await" => kernel.report = Report
    /\ kernel.pc # "idle" => kernel.outcome = "none"
    /\ OutcomeIsEarned

(* A critical service is still to be launched or was spawned, as long as   *)
(* servicemgr is in its critical pass; was spawned, in the optional one.   *)
Spawned(l) == {c \in Critical : pc[<<c, l>>] # "none"}
Sound(m, at, D) ==
    /\ m.pass = "optional" => Critical \subseteq D
    /\ at \in {"none", "claim", "launch"} /\ m.pass = "critical"
         => Critical \subseteq m.todo \cup D
CoreInOrder ==
    \A l \in Launches : Sound(mgr[l], pc[<<"servicemgr", l>>], Spawned(l))

IInv == Types /\ Earned /\ CoreInOrder

-----------------------------------------------------------------------------
LEMMA Names ==
    /\ "init" \in Programs /\ "servicemgr" \in Programs /\ Services \subseteq Programs
    /\ "bootstrap" \notin Programs /\ "bootstrap" \in Chans /\ Programs \subseteq Chans
    /\ "init" \notin Services /\ "servicemgr" \notin Services
    /\ Critical \subseteq Services /\ Optional \subseteq Services
    /\ Compositor \in Optional /\ Compositor \notin Critical
    /\ Supervisors \cup {Compositor} \subseteq Required /\ Required \subseteq Programs
    /\ "Shutdown" \in Notes /\ "relayed" \in Notes /\ "fabric-ready" \in Notes
    /\ Services \subseteq Notes
    /\ RingSize \in Nat \ {0} /\ MaxLaunch \in Nat \ {0}
BY FabricAssumption DEF Programs, Services, Chans, Supervisors, Required, Notes

LEMMA StatusFacts ==
    /\ \A p \in Programs, k \in {"ready", "degraded", "missing", "failed", "stop"} :
         Status(k, p) \in Reports
    /\ Status("critical", "servicemgr") \in Reports
    /\ \A k, p : Status(k, p).kind = k /\ Status(k, p).of = p
BY Names DEF Status, Reports, Statuses

(* Sending, reading and claiming keep the channels in order; none of them  *)
(* makes up a "ready".                                                     *)
LEMMA PutNote ==
    ASSUME NEW b, BoxesOK(b), NEW c \in Programs, NEW m \in Notes
    PROVE  BoxesOK(Put(b, c, m)) /\ \A A : Backed(b, A) => Backed(Put(b, c, m), A)
<1>1. b[c] \in Seq(Notes) /\ b[c] \in Seq(Notes \cup Reports) /\ c # "bootstrap" /\ c \in Chans
  BY Names DEF BoxesOK
<1>2. Append(b[c], m) \in Seq(Notes) /\ Append(b[c], m) \in Seq(Notes \cup Reports)
      /\ Len(Append(b[c], m)) = Len(b[c]) + 1 /\ Len(b[c]) \in Nat
  BY <1>1
<1>3. CASE Len(b[c]) < RingSize
  <2>1. Put(b, c, m) = [b EXCEPT ![c] = Append(b[c], m)]
    BY <1>3 DEF Put
  <2>2. Put(b, c, m)["bootstrap"] = b["bootstrap"]
    BY <2>1, <1>1, Names DEF BoxesOK
  <2>3. Len(b[c]) + 1 <= RingSize
    BY <1>2, <1>3, Names
  <2> QED BY <2>1, <2>2, <2>3, <1>1, <1>2 DEF BoxesOK, Backed
<1>4. CASE ~(Len(b[c]) < RingSize)
  BY <1>4 DEF Put
<1> QED BY <1>3, <1>4

LEMMA PutStatus ==
    ASSUME NEW b, BoxesOK(b), NEW m \in Reports
    PROVE  /\ BoxesOK(Put(b, "bootstrap", m))
           /\ \A A : Backed(b, A) /\ (m.kind = "ready" => m.of \in A)
                       => Backed(Put(b, "bootstrap", m), A)
<1> DEFINE q == b["bootstrap"]
<1>1. q \in Seq(Reports) /\ q \in Seq(Notes \cup Reports)
  BY Names DEF BoxesOK
<1>2. Append(q, m) \in Seq(Reports) /\ Append(q, m) \in Seq(Notes \cup Reports)
      /\ Len(Append(q, m)) = Len(q) + 1 /\ Len(q) \in Nat
      /\ \A i \in 1 .. Len(q) + 1 : Append(q, m)[i] = IF i = Len(q) + 1 THEN m ELSE q[i]
  BY <1>1
<1>3. CASE Len(q) < RingSize
  <2>1. Put(b, "bootstrap", m) = [b EXCEPT !["bootstrap"] = Append(q, m)]
    BY <1>3 DEF Put
  <2>2. Put(b, "bootstrap", m)["bootstrap"] = Append(q, m)
    BY <2>1, Names DEF BoxesOK
  <2>3. Len(q) + 1 <= RingSize
    BY <1>2, <1>3, Names
  <2>4. BoxesOK(Put(b, "bootstrap", m))
    BY <2>1, <2>2, <2>3, <1>2, Names DEF BoxesOK
  <2>5. ASSUME NEW A, Backed(b, A), m.kind = "ready" => m.of \in A
        PROVE  Backed(Put(b, "bootstrap", m), A)
    <3>1. SUFFICES ASSUME NEW i \in 1 .. Len(q) + 1, Append(q, m)[i].kind = "ready"
                   PROVE  Append(q, m)[i].of \in A
      BY <2>2, <1>2 DEF Backed
    <3>2. CASE i = Len(q) + 1
      BY <3>1, <3>2, <2>5, <1>2
    <3>3. CASE i # Len(q) + 1
      <4>1. i \in 1 .. Len(q)
        BY <3>3, <1>2
      <4> QED BY <3>1, <3>3, <4>1, <2>5, <1>2 DEF Backed
    <3> QED BY <3>2, <3>3
  <2> QED BY <2>4, <2>5
<1>4. CASE ~(Len(q) < RingSize)
  BY <1>4 DEF Put
<1> QED BY <1>3, <1>4

LEMMA TailFacts ==
    ASSUME NEW S, NEW q \in Seq(S), q # <<>>
    PROVE  /\ Head(q) \in S /\ Head(q) = q[1] /\ 1 \in 1 .. Len(q)
           /\ Tail(q) \in Seq(S) /\ Len(Tail(q)) = Len(q) - 1 /\ Len(q) \in Nat \ {0}
           /\ \A i \in 1 .. Len(q) - 1 : Tail(q)[i] = q[i + 1]
OBVIOUS

LEMMA RestOf ==
    ASSUME NEW b, BoxesOK(b), NEW c \in Chans, b[c] # <<>>
    PROVE  /\ BoxesOK(Rest(b, c))
           /\ \A A : Backed(b, A) => Backed(Rest(b, c), A)
<1>1. b[c] \in Seq(Notes \cup Reports)
  BY DEF BoxesOK
<1>2. Tail(b[c]) \in Seq(Notes \cup Reports) /\ Len(Tail(b[c])) <= RingSize
  BY <1>1, TailFacts, Names DEF BoxesOK
<1>3. CASE c = "bootstrap"
  <2> DEFINE q == b["bootstrap"]
  <2>1. Rest(b, c)["bootstrap"] = Tail(q) /\ Rest(b, c) = [b EXCEPT !["bootstrap"] = Tail(q)]
    BY <1>3 DEF Rest, BoxesOK
  <2>2. q \in Seq(Reports) /\ q # <<>>
    BY <1>3 DEF BoxesOK
  <2>3. Tail(q) \in Seq(Reports) /\ Len(Tail(q)) = Len(q) - 1 /\ Len(q) \in Nat \ {0}
        /\ \A i \in 1 .. Len(q) - 1 : Tail(q)[i] = q[i + 1]
    BY <2>2, TailFacts
  <2>4. BoxesOK(Rest(b, c))
    BY <2>1, <2>3, <1>2, <1>3, Names DEF BoxesOK
  <2>5. ASSUME NEW A, Backed(b, A) PROVE Backed(Rest(b, c), A)
    <3>1. SUFFICES ASSUME NEW i \in 1 .. Len(q) - 1, Tail(q)[i].kind = "ready"
                   PROVE  Tail(q)[i].of \in A
      BY <2>1, <2>3 DEF Backed
    <3>2. i + 1 \in 1 .. Len(q) /\ Tail(q)[i] = q[i + 1]
      BY <2>3
    <3> QED BY <3>1, <3>2, <2>5 DEF Backed
  <2> QED BY <2>4, <2>5
<1>4. CASE c # "bootstrap"
  <2>1. c \in Programs
    BY <1>4 DEF Chans
  <2>2. Tail(b[c]) \in Seq(Notes)
    BY <2>1, TailFacts DEF BoxesOK
  <2>3. Rest(b, c) = [b EXCEPT ![c] = Tail(b[c])] /\ Rest(b, c)["bootstrap"] = b["bootstrap"]
    BY <1>4, Names DEF Rest, BoxesOK
  <2> QED BY <2>2, <2>3, <1>2, <1>4, Names DEF BoxesOK, Backed
<1> QED BY <1>3, <1>4

LEMMA ClaimedOf ==
    ASSUME NEW b, BoxesOK(b), NEW c \in Chans
    PROVE  BoxesOK(Claimed(b, c)) /\ \A A : Backed(b, A) => Backed(Claimed(b, c), A)
BY RestOf DEF Claimed

(* The first status of the bootstrap channel is a report, and backed.      *)
LEMMA FirstReport ==
    ASSUME NEW b, BoxesOK(b), b["bootstrap"] # <<>>
    PROVE  /\ Head(b["bootstrap"]) \in Reports
           /\ \A A : Backed(b, A) /\ Head(b["bootstrap"]).kind = "ready"
                       => Head(b["bootstrap"]).of \in A
BY TailFacts DEF BoxesOK, Backed

(* Spawning only ever moves a task on from "none".                         *)
LEMMA Spawning ==
    ASSUME Types, NEW p \in Programs, NEW l \in Launches, NEW r
    PROVE  /\ Started(pc, r, p, l) \in [Instances -> PCs]
           /\ Bound(health, r, p) \in [Services -> Healths]
           /\ \A i \in Instances : pc[i] # "none" => Started(pc, r, p, l)[i] # "none"
           /\ \A i \in Instances : i # <<p, l>> => Started(pc, r, p, l)[i] = pc[i]
           /\ r = "made" => Started(pc, r, p, l)[<<p, l>>] = "claim"
BY DEF Types, Started, Bound, Instances, PCs, Healths

-----------------------------------------------------------------------------
LEMMA InitInv == Init => IInv
<1> SUFFICES ASSUME Init PROVE IInv
  OBVIOUS
<1>1. KernelOK /\ kernel.pc = "notify" /\ kernel.outcome = "none" /\ kernel.report = Report
  BY Names DEF Init, KernelOK, KernelRecords, Outcomes, Report
<1>2. \A l \in Launches : mgr[l] = Blank
  BY DEF Init
<1>3. Blank \in MgrRecords /\ Blank.pass = "critical" /\ Blank.todo = Critical
  BY Names DEF Blank, MgrRecords
<1>4. BoxesOK(box)
  BY Names DEF Init, BoxesOK
<1>5. Types
  BY <1>1, <1>3, <1>4 DEF Types, Init, PCs, Healths
<1>6. Earned
  BY <1>1 DEF Earned, OutcomeIsEarned
<1>7. CoreInOrder
  BY <1>2, <1>3 DEF CoreInOrder, Sound
<1> QED BY <1>5, <1>6, <1>7 DEF IInv

-----------------------------------------------------------------------------
(* What the steps have in common. *)

(* Nobody but the kernel's own steps touches what it has decided.          *)
LEMMA EarnedKept ==
    ASSUME IInv, kernel' = kernel, announced \subseteq announced',
           Backed(box, announced) /\ kernel.pc # "idle" => Backed(box', announced')
    PROVE  Earned'
BY DEF IInv, Earned, OutcomeIsEarned

(* A "ready" that is announced where it is sent is backed.                 *)
LEMMA AnnounceKept ==
    ASSUME IInv, NEW p \in Programs, NEW b, BoxesOK(b), Announce(p),
           Backed(box, announced) => Backed(b, announced)
    PROVE  /\ announced \subseteq announced' /\ announced' \subseteq Programs
           /\ Backed(box, announced) /\ kernel.pc # "idle"
                => Backed(Put(b, "bootstrap", Status("ready", p)), announced')
<1>1. announced \subseteq announced' /\ announced' \subseteq Programs
  BY DEF Announce, IInv, Types
<1>2. ASSUME Backed(box, announced), kernel.pc # "idle"
      PROVE  Backed(Put(b, "bootstrap", Status("ready", p)), announced')
  <2>1. Backed(b, announced')
    BY <1>1, <1>2 DEF Backed
  <2>2. p \in announced'
    BY <1>2 DEF Announce
  <2> QED BY <2>1, <2>2, PutStatus, StatusFacts
<1> QED BY <1>1, <1>2

LEMMA MoreSpawned ==
    ASSUME NEW m, NEW at, NEW to, NEW C, NEW D, Sound(m, at, C), C \subseteq D,
           to \in {"none", "claim", "launch"} => at \in {"none", "claim", "launch"}
    PROVE  Sound(m, to, D)
BY DEF Sound

(* A step that leaves mgr alone, and spawns a servicemgr at most.          *)
LEMMA CoreKept ==
    ASSUME IInv, mgr' = mgr,
           \A i \in Instances : pc[i] # "none" => pc'[i] # "none",
           \A l \in Launches :
             pc'[<<"servicemgr", l>>] \in {"none", "claim", "launch"}
               => pc[<<"servicemgr", l>>] \in {"none", "claim", "launch"}
    PROVE  CoreInOrder'
<1> SUFFICES ASSUME NEW l \in Launches
             PROVE  Sound(mgr[l], pc'[<<"servicemgr", l>>], Spawned(l)')
  BY DEF CoreInOrder
<1>1. Spawned(l) \subseteq Spawned(l)'
  BY Names DEF Spawned, Instances
<1>2. Sound(mgr[l], pc[<<"servicemgr", l>>], Spawned(l))
  BY DEF IInv, CoreInOrder
<1> QED BY <1>1, <1>2, MoreSpawned

(* A step of the servicemgr of one launch.                                 *)
LEMMA MgrStep ==
    ASSUME IInv, NEW l \in Launches, NEW m \in MgrRecords,
           mgr' = [mgr EXCEPT ![l] = m],
           \A i \in Instances : pc[i] # "none" => pc'[i] # "none",
           \A k \in Launches \ {l} : pc'[<<"servicemgr", k>>] = pc[<<"servicemgr", k>>],
           Sound(m, pc'[<<"servicemgr", l>>], Spawned(l)')
    PROVE  CoreInOrder' /\ mgr' \in [Launches -> MgrRecords]
<1>1. mgr \in [Launches -> MgrRecords]
  BY DEF IInv, Types
<1>2. ASSUME NEW k \in Launches
      PROVE  Sound(mgr'[k], pc'[<<"servicemgr", k>>], Spawned(k)')
  <2>1. CASE k = l
    BY <2>1, <1>1
  <2>2. CASE k # l
    <3>1. mgr'[k] = mgr[k] /\ pc'[<<"servicemgr", k>>] = pc[<<"servicemgr", k>>]
      BY <2>2, <1>1
    <3>2. Spawned(k) \subseteq Spawned(k)'
      BY Names DEF Spawned, Instances
    <3>3. Sound(mgr[k], pc[<<"servicemgr", k>>], Spawned(k))
      BY DEF IInv, CoreInOrder
    <3> QED BY <3>1, <3>2, <3>3, MoreSpawned
  <2> QED BY <2>1, <2>2
<1> QED BY <1>1, <1>2 DEF CoreInOrder

LEMMA OnwardKeeps ==
    ASSUME NEW m \in MgrRecords, NEW D, Sound(m, "launch", D)
    PROVE  Onward(m) \in MgrRecords /\ \A at : Sound(Onward(m), at, D)
BY Names DEF Onward, MgrRecords, Sound

-----------------------------------------------------------------------------
(* The kernel's steps. *)

LEMMA NoticesAreNames == Notices \in Seq(Programs)
BY FabricAssumption

LEMMA KernelFields ==
    ASSUME Types
    PROVE  /\ kernel.pc \in {"idle", "notify", "spawn", "await"}
           /\ kernel.launch \in 0 .. MaxLaunch /\ kernel.left \in Seq(Programs)
           /\ kernel.outcome \in Outcomes
           /\ kernel.report \in [seen : SUBSET Programs, degraded : BOOLEAN,
                                 failure : BOOLEAN]
           /\ Report \in [seen : SUBSET Programs, degraded : BOOLEAN, failure : BOOLEAN]
BY DEF Types, KernelOK, KernelRecords, Report

LEMMA RecoverPreserves == IInv /\ Recover => IInv'
<1> SUFFICES ASSUME IInv, Recover PROVE IInv'
  OBVIOUS
<1>1. Types /\ Earned
  BY DEF IInv
<1>2. /\ kernel' = [kernel EXCEPT !.pc = "notify", !.left = Notices, !.outcome = "none"]
      /\ announced' = {} /\ UNCHANGED <<pc, mgr, box, health>>
      /\ kernel.pc = "idle" /\ kernel.launch < MaxLaunch
  BY DEF Recover
<1>3. KernelOK'
  BY <1>1, <1>2, KernelFields, NoticesAreNames DEF Types, KernelOK, KernelRecords, Outcomes
<1>4. Types'
  BY <1>1, <1>2, <1>3 DEF Types
<1>5. kernel'.pc = "notify" /\ kernel'.report = kernel.report /\ kernel'.outcome = "none"
  BY <1>1, <1>2 DEF Types, KernelOK, KernelRecords
<1>6. Earned'
  BY <1>1, <1>2, <1>5 DEF Earned, OutcomeIsEarned
<1>7. CoreInOrder'
  BY <1>2, CoreKept
<1> QED BY <1>4, <1>6, <1>7 DEF IInv

LEMMA NotifyPreserves == IInv /\ Notify => IInv'
<1> SUFFICES ASSUME IInv, Notify PROVE IInv'
  OBVIOUS
<1>1. Types /\ Earned
  BY DEF IInv
<1>2. /\ kernel' = [kernel EXCEPT !.left = Tail(kernel.left)]
      /\ box' = Put(box, Head(kernel.left), "Shutdown")
      /\ UNCHANGED <<pc, mgr, health, announced>>
      /\ kernel.pc = "notify" /\ kernel.left # <<>>
  BY DEF Notify
<1>3. Head(kernel.left) \in Programs /\ Tail(kernel.left) \in Seq(Programs)
  BY <1>1, <1>2, KernelFields, TailFacts
<1>4. KernelOK'
  BY <1>1, <1>2, <1>3, KernelFields DEF Types, KernelOK, KernelRecords
<1>5. BoxesOK(box')
  BY <1>1, <1>2, <1>3, PutNote, Names DEF Types
<1>6. Types'
  BY <1>1, <1>2, <1>4, <1>5 DEF Types
<1>7. kernel'.pc = "notify" /\ kernel'.report = kernel.report
      /\ kernel'.outcome = kernel.outcome
  BY <1>1, <1>2 DEF Types, KernelOK, KernelRecords
<1>8. Earned'
  BY <1>1, <1>2, <1>7 DEF Earned, OutcomeIsEarned
<1>9. CoreInOrder'
  BY <1>2, CoreKept
<1> QED BY <1>6, <1>8, <1>9 DEF IInv

LEMMA DrainPreserves == IInv /\ Drain => IInv'
<1> SUFFICES ASSUME IInv, Drain PROVE IInv'
  OBVIOUS
<1>1. Types /\ Earned
  BY DEF IInv
<1>2. /\ kernel' = [kernel EXCEPT !.pc = "spawn", !.launch = kernel.launch + 1]
      /\ box' = [box EXCEPT !["bootstrap"] = <<>>] /\ announced' = {}
      /\ UNCHANGED <<pc, mgr, health>> /\ kernel.pc = "notify"
  BY DEF Drain, Drained
<1>3. KernelOK'
  <2>1. kernel.launch + 1 \in 0 .. MaxLaunch
    BY <1>1, <1>2, KernelFields, Names DEF Types, KernelOK
  <2> QED BY <2>1, <1>1, <1>2, KernelFields DEF Types, KernelOK, KernelRecords
<1>4. BoxesOK(box') /\ box'["bootstrap"] = <<>>
  BY <1>1, <1>2, Names DEF Types, BoxesOK
<1>5. Types'
  BY <1>1, <1>2, <1>3, <1>4 DEF Types
<1>6. kernel'.pc = "spawn" /\ kernel'.report = kernel.report
      /\ kernel'.outcome = kernel.outcome
  BY <1>1, <1>2 DEF Types, KernelOK, KernelRecords
<1>7. Backed(box', announced')
  BY <1>4 DEF Backed
<1>8. Earned'
  BY <1>1, <1>2, <1>6, <1>7 DEF Earned, OutcomeIsEarned
<1>9. CoreInOrder'
  BY <1>2, CoreKept
<1> QED BY <1>5, <1>8, <1>9 DEF IInv

(* Deciding is sound when what it decides is earned.                       *)
LEMMA DecideFacts ==
    ASSUME IInv, NEW o \in Outcomes, Decide(o)
    PROVE  /\ KernelOK'
           /\ kernel'.pc = "idle" /\ kernel'.report = Report /\ kernel'.outcome = o
<1>1. kernel' = [kernel EXCEPT !.pc = "idle", !.outcome = o, !.report = Report]
  BY DEF Decide
<1> QED BY <1>1, KernelFields DEF IInv, Types, KernelOK, KernelRecords

LEMMA SpawnInitPreserves == IInv /\ SpawnInit => IInv'
<1> SUFFICES ASSUME IInv, SpawnInit PROVE IInv'
  OBVIOUS
<1>1. Types /\ Earned
  BY DEF IInv
<1>2. PICK r \in SpawnResults("init", kernel.launch) :
        /\ pc' = Started(pc, r, "init", kernel.launch)
        /\ health' = Bound(health, r, "init")
        /\ IF r = "made" THEN kernel' = [kernel EXCEPT !.pc = "await"]
           ELSE Decide("unspawned")
  BY DEF SpawnInit
<1>3. kernel.pc = "spawn" /\ UNCHANGED <<mgr, box, announced>>
  BY DEF SpawnInit
<1>4. KernelOK' /\ Earned'
  <2>1. CASE r = "made"
    <3>1. kernel' = [kernel EXCEPT !.pc = "await"]
      BY <1>2, <2>1
    <3>2. KernelOK' /\ kernel'.pc = "await" /\ kernel'.report = kernel.report
          /\ kernel'.outcome = kernel.outcome
      BY <3>1, <1>1, KernelFields DEF Types, KernelOK, KernelRecords
    <3> QED BY <3>2, <1>1, <1>3 DEF Earned, OutcomeIsEarned, Report
  <2>2. CASE r # "made"
    <3>1. Decide("unspawned")
      BY <1>2, <2>2
    <3>2. KernelOK' /\ kernel'.pc = "idle" /\ kernel'.report = Report
          /\ kernel'.outcome = "unspawned"
      BY <3>1, DecideFacts DEF Outcomes
    <3> QED BY <3>2 DEF Earned, OutcomeIsEarned
  <2> QED BY <2>1, <2>2
<1>5. /\ pc' \in [Instances -> PCs] /\ health' \in [Services -> Healths]
      /\ \A i \in Instances : pc[i] # "none" => pc'[i] # "none"
      /\ \A l \in Launches : pc'[<<"servicemgr", l>>] = pc[<<"servicemgr", l>>]
  <2>1. CASE kernel.launch \in Launches
    <3>1. /\ pc' \in [Instances -> PCs] /\ health' \in [Services -> Healths]
          /\ \A i \in Instances : pc[i] # "none" => pc'[i] # "none"
          /\ \A i \in Instances : i # <<"init", kernel.launch>> => pc'[i] = pc[i]
      <4>1. Types /\ "init" \in Programs
        BY <1>1, Names
      <4>2. pc' = Started(pc, r, "init", kernel.launch) /\ health' = Bound(health, r, "init")
        BY <1>2
      <4>3. /\ Started(pc, r, "init", kernel.launch) \in [Instances -> PCs]
            /\ Bound(health, r, "init") \in [Services -> Healths]
            /\ \A i \in Instances :
                 pc[i] # "none" => Started(pc, r, "init", kernel.launch)[i] # "none"
            /\ \A i \in Instances : i # <<"init", kernel.launch>>
                 => Started(pc, r, "init", kernel.launch)[i] = pc[i]
        BY <4>1, <2>1, Spawning
      <4> QED BY <4>2, <4>3
    <3>2. \A l \in Launches : <<"servicemgr", l>> \in Instances
                              /\ <<"servicemgr", l>> # <<"init", kernel.launch>>
      BY Names DEF Instances
    <3> QED BY <3>1, <3>2
  <2>2. CASE kernel.launch \notin Launches
    <3>1. pc' = pc
      BY <1>1, <1>2, <2>2 DEF Started, Types, Instances
    <3>2. health' = health
      BY <1>2, Names DEF Bound
    <3> QED BY <3>1, <3>2, <1>1 DEF Types
  <2> QED BY <2>1, <2>2
<1>6. Types'
  BY <1>1, <1>3, <1>4, <1>5 DEF Types
<1>7. CoreInOrder'
  BY <1>3, <1>5, CoreKept
<1> QED BY <1>4, <1>6, <1>7 DEF IInv

(* What a decision of the kernel's counts on, its report has seen.         *)
LEMMA VerdictIsSeen ==
    ASSUME NEW rep
    PROVE  /\ Verdict(rep) \in Outcomes
           /\ Verdict(rep) = "ready" => Required \subseteq rep.seen
           /\ Verdict(rep) = "degraded" => Supervisors \cup {Compositor} \subseteq rep.seen
BY DEF Verdict, IsReady, IsDegradedBootable, Outcomes

LEMMA ObservePreserves == IInv /\ Observe => IInv'
<1> SUFFICES ASSUME IInv, Observe PROVE IInv'
  OBVIOUS
<1> DEFINE s == Head(box["bootstrap"])
           rep == Seen(kernel.report, s)
<1>1. Types /\ Earned
  BY DEF IInv
<1>2. /\ kernel.pc = "await" /\ box["bootstrap"] # <<>>
      /\ health' = Recorded(health, s)
      /\ IF Verdict(rep) = "none" THEN kernel' = [kernel EXCEPT !.report = rep]
         ELSE Decide(Verdict(rep))
      /\ box' = Rest(box, "bootstrap") /\ UNCHANGED <<pc, mgr, announced>>
  BY DEF Observe
<1>3. s \in Reports /\ (s.kind = "ready" => s.of \in announced)
  BY <1>1, <1>2, FirstReport DEF Types, Earned
<1>4. BoxesOK(box') /\ Backed(box', announced')
  BY <1>1, <1>2, RestOf, Names DEF Types, Earned
<1>5. health' \in [Services -> Healths]
  <2>1. s.of \in Services => s.kind \in {"ready", "degraded", "missing", "failed", "stop"}
    BY <1>3 DEF Reports, Statuses
  <2>2. s.of \in Services => Marks[s.kind] \in Healths
    BY <2>1 DEF Marks, Healths
  <2> QED BY <2>2, <1>1, <1>2 DEF Recorded, Types
<1>6. /\ rep \in [seen : SUBSET Programs, degraded : BOOLEAN, failure : BOOLEAN]
      /\ rep.seen \subseteq announced
  BY <1>1, <1>2, <1>3, KernelFields, Names DEF Seen, Earned
<1>7. KernelOK' /\ Earned'
  <2>1. CASE Verdict(rep) = "none"
    <3>1. kernel' = [kernel EXCEPT !.report = rep]
      BY <1>2, <2>1
    <3>2. /\ KernelOK' /\ kernel'.pc = "await" /\ kernel'.report = rep
          /\ kernel'.outcome = kernel.outcome
      BY <3>1, <1>1, <1>2, <1>6, KernelFields DEF Types, KernelOK, KernelRecords
    <3> QED BY <3>2, <1>1, <1>2, <1>4, <1>6 DEF Earned, OutcomeIsEarned
  <2>2. CASE Verdict(rep) # "none"
    <3>1. Decide(Verdict(rep))
      BY <1>2, <2>2
    <3>2. KernelOK' /\ kernel'.pc = "idle" /\ kernel'.report = Report
          /\ kernel'.outcome = Verdict(rep)
      BY <3>1, DecideFacts, VerdictIsSeen
    <3>3. OutcomeIsEarned'
      BY <3>2, <1>2, <1>6, VerdictIsSeen DEF OutcomeIsEarned
    <3> QED BY <3>2, <3>3 DEF Earned
  <2> QED BY <2>1, <2>2
<1>8. Types'
  BY <1>1, <1>2, <1>4, <1>5, <1>7 DEF Types
<1>9. CoreInOrder'
  BY <1>2, CoreKept
<1> QED BY <1>7, <1>8, <1>9 DEF IInv

LEMMA DeadlinePreserves == IInv /\ Deadline => IInv'
<1> SUFFICES ASSUME IInv, Deadline PROVE IInv'
  OBVIOUS
<1> DEFINE o == IF Required \subseteq kernel.report.seen THEN "degraded" ELSE "failed"
<1>1. Types /\ Earned
  BY DEF IInv
<1>2. kernel.pc = "await" /\ Decide(o) /\ UNCHANGED <<pc, mgr, box, health, announced>>
  BY DEF Deadline
<1>3. o \in Outcomes /\ o # "ready"
      /\ (o = "degraded" => Supervisors \cup {Compositor} \subseteq announced)
  BY <1>1, <1>2, Names DEF Outcomes, Earned
<1>4. KernelOK' /\ kernel'.pc = "idle" /\ kernel'.report = Report /\ kernel'.outcome = o
  BY <1>2, <1>3, DecideFacts
<1>5. Earned'
  BY <1>2, <1>3, <1>4 DEF Earned, OutcomeIsEarned
<1>6. Types'
  BY <1>1, <1>2, <1>4 DEF Types
<1>7. CoreInOrder'
  BY <1>2, CoreKept
<1> QED BY <1>5, <1>6, <1>7 DEF IInv

-----------------------------------------------------------------------------
(* Steps that move one task on. *)

LEMMA AtMoves ==
    ASSUME Types, NEW p \in Programs, NEW l \in Launches, NEW from, NEW to \in PCs,
           to # "none", At(p, l, from, to)
    PROVE  /\ pc' \in [Instances -> PCs] /\ pc[<<p, l>>] = from /\ pc'[<<p, l>>] = to
           /\ \A i \in Instances : pc[i] # "none" => pc'[i] # "none"
           /\ \A i \in Instances : i # <<p, l>> => pc'[i] = pc[i]
BY DEF At, Types, Instances

LEMMA Apart ==
    ASSUME NEW p \in Programs, NEW k \in Launches, NEW l \in Launches
    PROVE  /\ <<p, l>> \in Instances
           /\ p # "servicemgr" => <<"servicemgr", k>> # <<p, l>>
           /\ k # l => <<"servicemgr", k>> # <<p, l>>
BY DEF Instances

(* A task other than a servicemgr moves on, and mgr stays as it is.        *)
LEMMA OthersKeepCore ==
    ASSUME IInv, NEW p \in Programs \ {"servicemgr"}, NEW l \in Launches, mgr' = mgr,
           \A i \in Instances : pc[i] # "none" => pc'[i] # "none",
           \A i \in Instances : i # <<p, l>> => pc'[i] = pc[i]
    PROVE  CoreInOrder'
<1>1. \A k \in Launches : pc'[<<"servicemgr", k>>] = pc[<<"servicemgr", k>>]
  <2> TAKE k \in Launches
  <2>1. <<"servicemgr", k>> \in Instances /\ <<"servicemgr", k>> # <<p, l>>
    BY Apart, Names
  <2> QED BY <2>1
<1> QED BY <1>1, CoreKept

LEMMA InitOnlinePreserves ==
    ASSUME IInv, NEW l \in Launches, InitOnline(l)
    PROVE  IInv'
<1>1. Types /\ BoxesOK(box)
  BY DEF IInv, Types
<1>2. /\ At("init", l, "claim", "spawn") /\ Announce("init")
      /\ box' = Put(Claimed(box, "init"), "bootstrap", Status("ready", "init"))
      /\ UNCHANGED <<kernel, mgr, health>>
  BY DEF InitOnline
<1>3. "init" \in Programs /\ "init" \in Chans /\ "init" # "servicemgr"
  BY Names
<1>4. BoxesOK(Claimed(box, "init"))
      /\ \A A : Backed(box, A) => Backed(Claimed(box, "init"), A)
  BY <1>1, <1>3, ClaimedOf
<1>5. BoxesOK(box')
  BY <1>2, <1>3, <1>4, PutStatus, StatusFacts
<1>6. /\ announced \subseteq announced' /\ announced' \subseteq Programs
      /\ Backed(box, announced) /\ kernel.pc # "idle" => Backed(box', announced')
  BY <1>2, <1>3, <1>4, AnnounceKept
<1>7. /\ pc' \in [Instances -> PCs]
      /\ \A i \in Instances : pc[i] # "none" => pc'[i] # "none"
      /\ \A i \in Instances : i # <<"init", l>> => pc'[i] = pc[i]
  BY <1>1, <1>2, <1>3, AtMoves DEF PCs
<1>8. Types'
  BY <1>1, <1>2, <1>5, <1>6, <1>7 DEF Types, KernelOK
<1>9. Earned' /\ CoreInOrder'
  BY <1>2, <1>3, <1>6, <1>7, EarnedKept, OthersKeepCore
<1> QED BY <1>8, <1>9 DEF IInv

LEMMA InitSpawnPreserves ==
    ASSUME IInv, NEW l \in Launches, InitSpawn(l)
    PROVE  IInv'
<1>1. Types /\ BoxesOK(box) /\ pc \in [Instances -> PCs]
      /\ health \in [Services -> Healths]
  BY DEF IInv, Types
<1>2. PICK r \in SpawnResults("servicemgr", l) :
        /\ health' = Bound(health, r, "servicemgr")
        /\ IF r = "made"
             THEN /\ pc' = [Started(pc, r, "servicemgr", l) EXCEPT ![<<"init", l>>] = "wait"]
                  /\ UNCHANGED box
             ELSE /\ pc' = [pc EXCEPT ![<<"init", l>>] = "dead"]
                  /\ Tell("critical", "servicemgr")
  BY DEF InitSpawn
<1>3. UNCHANGED <<kernel, mgr, announced>> /\ pc[<<"init", l>>] = "spawn"
  BY DEF InitSpawn
<1>4. BoxesOK(box') /\ (Backed(box, announced) => Backed(box', announced'))
  BY <1>1, <1>2, <1>3, PutStatus, StatusFacts DEF Tell
<1>5. /\ Started(pc, r, "servicemgr", l) \in [Instances -> PCs]
      /\ Bound(health, r, "servicemgr") \in [Services -> Healths]
      /\ \A i \in Instances : pc[i] # "none" => Started(pc, r, "servicemgr", l)[i] # "none"
      /\ \A i \in Instances : i # <<"servicemgr", l>>
           => Started(pc, r, "servicemgr", l)[i] = pc[i]
  <2>1. "servicemgr" \in Programs
    BY Names
  <2> QED BY <1>1, <2>1, Spawning
<1>6. r = "made" => pc[<<"servicemgr", l>>] = "none"
  BY <1>2, Names DEF SpawnResults, Singleton
<1>7. /\ pc' \in [Instances -> PCs]
      /\ \A i \in Instances : pc[i] # "none" => pc'[i] # "none"
  BY <1>1, <1>2, <1>5 DEF PCs
<1>8. ASSUME NEW k \in Launches, pc'[<<"servicemgr", k>>] \in {"none", "claim", "launch"}
      PROVE  pc[<<"servicemgr", k>>] \in {"none", "claim", "launch"}
  <2>1. <<"servicemgr", k>> \in Instances /\ <<"servicemgr", k>> # <<"init", l>>
    BY Apart, Names
  <2>2. CASE r = "made" /\ k = l
    BY <2>2, <1>6
  <2>3. CASE r = "made" /\ k # l
    <3>1. <<"servicemgr", k>> # <<"servicemgr", l>>
      BY <2>3
    <3>2. pc'[<<"servicemgr", k>>] = Started(pc, r, "servicemgr", l)[<<"servicemgr", k>>]
      BY <1>2, <1>5, <2>1, <2>3
    <3> QED BY <3>1, <3>2, <2>1, <1>5, <1>8
  <2>4. CASE r # "made"
    BY <1>1, <1>2, <2>1, <2>4, <1>8
  <2> QED BY <2>2, <2>3, <2>4
<1>9. Types'
  BY <1>1, <1>2, <1>3, <1>4, <1>5, <1>7 DEF IInv, Types, KernelOK
<1>10. Earned' /\ CoreInOrder'
  BY <1>3, <1>4, <1>7, <1>8, EarnedKept, CoreKept
<1> QED BY <1>9, <1>10 DEF IInv

(* A step that tells nobody of being ready: of a task that is no           *)
(* servicemgr, and of a servicemgr.                                        *)
LEMMA QuietStep ==
    ASSUME IInv, NEW p \in Programs \ {"servicemgr"}, NEW l \in Launches,
           NEW to \in PCs \ {"none"}, pc' = [pc EXCEPT ![<<p, l>>] = to],
           BoxesOK(box'), Backed(box, announced) => Backed(box', announced),
           UNCHANGED <<kernel, mgr, health, announced>>
    PROVE  IInv'
<1>1. /\ pc' \in [Instances -> PCs]
      /\ \A i \in Instances : pc[i] # "none" => pc'[i] # "none"
      /\ \A i \in Instances : i # <<p, l>> => pc'[i] = pc[i]
  BY DEF IInv, Types
<1>2. Types'
  BY <1>1 DEF IInv, Types, KernelOK
<1>3. Earned' /\ CoreInOrder'
  BY <1>1, EarnedKept, OthersKeepCore
<1> QED BY <1>2, <1>3 DEF IInv

LEMMA MgrQuietStep ==
    ASSUME IInv, NEW l \in Launches, NEW m \in MgrRecords, mgr' = [mgr EXCEPT ![l] = m],
           NEW to \in PCs \ {"none"}, pc' = [pc EXCEPT ![<<"servicemgr", l>>] = to],
           BoxesOK(box'), Backed(box, announced) => Backed(box', announced),
           UNCHANGED <<kernel, health, announced>>, Sound(m, to, Spawned(l))
    PROVE  IInv'
<1>1. /\ pc' \in [Instances -> PCs]
      /\ \A i \in Instances : pc[i] # "none" => pc'[i] # "none"
      /\ \A i \in Instances : i # <<"servicemgr", l>> => pc'[i] = pc[i]
  BY DEF IInv, Types
<1>2. <<"servicemgr", l>> \in Instances /\ pc'[<<"servicemgr", l>>] = to
  BY Names DEF Instances, IInv, Types
<1>3. \A k \in Launches \ {l} : pc'[<<"servicemgr", k>>] = pc[<<"servicemgr", k>>]
  <2> TAKE k \in Launches \ {l}
  <2>1. <<"servicemgr", k>> \in Instances /\ <<"servicemgr", k>> # <<"servicemgr", l>>
    BY Apart, Names
  <2> QED BY <2>1, <1>1
<1>4. Spawned(l) \subseteq Spawned(l)'
  BY <1>1, Names DEF Spawned, Instances
<1>5. Sound(m, pc'[<<"servicemgr", l>>], Spawned(l)')
  BY <1>2, <1>4, MoreSpawned
<1>6. CoreInOrder' /\ mgr' \in [Launches -> MgrRecords]
  BY <1>1, <1>3, <1>5, MgrStep
<1>7. Types'
  BY <1>1, <1>6 DEF IInv, Types, KernelOK
<1> QED BY <1>6, <1>7, EarnedKept DEF IInv

(* What reading one message from an inbox, and answering nobody, does.     *)
LEMMA ReadOne ==
    ASSUME IInv, NEW c \in Chans, box[c] # <<>>, box' = Rest(box, c)
    PROVE  BoxesOK(box') /\ (Backed(box, announced) => Backed(box', announced))
BY RestOf DEF IInv, Types

LEMMA TellOne ==
    ASSUME IInv, NEW k \in {"degraded", "missing", "failed", "stop"}, NEW p \in Programs,
           Tell(k, p)
    PROVE  BoxesOK(box') /\ (Backed(box, announced) => Backed(box', announced))
<1>1. Status(k, p) \in Reports /\ Status(k, p).kind # "ready"
  BY StatusFacts
<1> QED BY <1>1, PutStatus DEF IInv, Types, Tell

LEMMA TellCritical ==
    ASSUME IInv, Tell("critical", "servicemgr")
    PROVE  BoxesOK(box') /\ (Backed(box, announced) => Backed(box', announced))
BY PutStatus, StatusFacts DEF IInv, Types, Tell

LEMMA InitPollPreserves ==
    ASSUME IInv, NEW l \in Launches, InitPoll(l) \/ InitLoop(l)
    PROVE  IInv'
<1>1. "init" \in Programs \ {"servicemgr"} /\ "init" \in Chans
  BY Names
<1>2. PICK to \in PCs \ {"none"} : pc' = [pc EXCEPT ![<<"init", l>>] = to]
  <2>1. CASE InitPoll(l)
    BY <2>1 DEF InitPoll, PCs
  <2>2. CASE InitLoop(l)
    BY <2>2 DEF InitLoop, PCs
  <2> QED BY <2>1, <2>2
<1>3. box["init"] # <<>> /\ box' = Rest(box, "init")
      /\ UNCHANGED <<kernel, mgr, health, announced>>
  BY DEF InitPoll, InitLoop
<1> QED BY <1>1, <1>2, <1>3, ReadOne, QuietStep

LEMMA InitGiveUpPreserves ==
    ASSUME IInv, NEW l \in Launches, InitGiveUp(l)
    PROVE  IInv'
<1>1. "init" \in Programs \ {"servicemgr"} /\ "servicemgr" \in Programs
      /\ "loop" \in PCs \ {"none"}
  BY Names DEF PCs
<1>2. pc' = [pc EXCEPT ![<<"init", l>>] = "loop"] /\ Tell("degraded", "servicemgr")
      /\ UNCHANGED <<kernel, mgr, health, announced>>
  BY DEF InitGiveUp, At
<1> QED BY <1>1, <1>2, TellOne, QuietStep

-----------------------------------------------------------------------------
(* The steps of servicemgr. *)

LEMMA MgrHere ==
    ASSUME IInv, NEW l \in Launches
    PROVE  /\ mgr[l] \in MgrRecords /\ mgr = [mgr EXCEPT ![l] = mgr[l]]
           /\ pc = [pc EXCEPT ![<<"servicemgr", l>>] = pc[<<"servicemgr", l>>]]
           /\ Sound(mgr[l], pc[<<"servicemgr", l>>], Spawned(l))
           /\ BoxesOK(box)
BY DEF IInv, Types, CoreInOrder

LEMMA BlankIsSound ==
    ASSUME NEW at, NEW D
    PROVE  /\ Blank \in MgrRecords /\ Sound(Blank, at, D)
           /\ Relaying \in MgrRecords /\ Sound(Relaying, "relay", D)
BY Names, FabricAssumption DEF Blank, Relaying, MgrRecords, Sound

LEMMA MgrOnlinePreserves ==
    ASSUME IInv, NEW l \in Launches, MgrOnline(l)
    PROVE  IInv'
<1>1. Types /\ BoxesOK(box)
  BY DEF IInv, Types
<1>2. /\ At("servicemgr", l, "claim", "launch") /\ Announce("servicemgr")
      /\ box' = Put(Claimed(box, "servicemgr"), "bootstrap", Status("ready", "servicemgr"))
      /\ UNCHANGED <<kernel, mgr, health>>
  BY DEF MgrOnline
<1>3. "servicemgr" \in Programs /\ "servicemgr" \in Chans
  BY Names
<1>4. BoxesOK(Claimed(box, "servicemgr"))
      /\ \A A : Backed(box, A) => Backed(Claimed(box, "servicemgr"), A)
  BY <1>1, <1>3, ClaimedOf
<1>5. BoxesOK(box')
  BY <1>2, <1>3, <1>4, PutStatus, StatusFacts
<1>6. /\ announced \subseteq announced' /\ announced' \subseteq Programs
      /\ Backed(box, announced) /\ kernel.pc # "idle" => Backed(box', announced')
  BY <1>2, <1>3, <1>4, AnnounceKept
<1>7. /\ pc' \in [Instances -> PCs] /\ pc[<<"servicemgr", l>>] = "claim"
      /\ \A i \in Instances : pc[i] # "none" => pc'[i] # "none"
      /\ \A i \in Instances : i # <<"servicemgr", l>> => pc'[i] = pc[i]
  BY <1>1, <1>2, <1>3, AtMoves DEF PCs
<1>8. ASSUME NEW k \in Launches, pc'[<<"servicemgr", k>>] \in {"none", "claim", "launch"}
      PROVE  pc[<<"servicemgr", k>>] \in {"none", "claim", "launch"}
  <2>1. CASE k = l
    BY <2>1, <1>7
  <2>2. CASE k # l
    <3>1. <<"servicemgr", k>> \in Instances /\ <<"servicemgr", k>> # <<"servicemgr", l>>
      BY <2>2, <1>3, Apart
    <3> QED BY <3>1, <1>7, <1>8
  <2> QED BY <2>1, <2>2
<1>9. Types'
  BY <1>1, <1>2, <1>5, <1>6, <1>7 DEF Types, KernelOK
<1>10. Earned' /\ CoreInOrder'
  BY <1>2, <1>6, <1>7, <1>8, EarnedKept, CoreKept
<1> QED BY <1>9, <1>10 DEF IInv

LEMMA MgrSkipPreserves ==
    ASSUME IInv, NEW l \in Launches, NEW s \in Services, MgrSkip(l, s)
    PROVE  IInv'
<1> DEFINE m == Skip(mgr[l], s)
<1>1. /\ pc[<<"servicemgr", l>>] = "launch" /\ s = Compositor
      /\ mgr' = [mgr EXCEPT ![l] = m]
      /\ UNCHANGED <<kernel, pc, box, health, announced>>
  BY DEF MgrSkip, Skipped
<1>2. mgr[l] \in MgrRecords /\ Sound(mgr[l], "launch", Spawned(l)) /\ BoxesOK(box)
      /\ pc' = [pc EXCEPT ![<<"servicemgr", l>>] = "launch"]
  BY <1>1, MgrHere
<1>3. m \in MgrRecords /\ Sound(m, "launch", Spawned(l)) /\ "launch" \in PCs \ {"none"}
  BY <1>1, <1>2, Names DEF MgrRecords, Sound, Skip, PCs
<1> QED BY <1>1, <1>2, <1>3, MgrQuietStep

LEMMA MgrRefusedPreserves ==
    ASSUME IInv, NEW l \in Launches, NEW s \in Services,
           pc[<<"servicemgr", l>>] = "launch",
           pc' = [pc EXCEPT ![<<"servicemgr", l>>] = AfterRefusal(s)],
           mgr' = [mgr EXCEPT ![l] =
                     IF AfterRefusal(s) = "critical" THEN Blank
                     ELSE Onward(Refuse(mgr[l], s))],
           Tell(IF s \in Critical THEN "failed" ELSE "missing", s),
           UNCHANGED <<kernel, health, announced>>
    PROVE  IInv'
<1>1. BoxesOK(box') /\ (Backed(box, announced) => Backed(box', announced))
  <2>1. s \in Programs
    BY Names
  <2> QED BY <2>1, TellOne
<1>2. CASE s \in Critical
  <2>1. AfterRefusal(s) = "critical" /\ "critical" \in PCs \ {"none"}
    BY <1>2 DEF AfterRefusal, PCs
  <2>2. mgr' = [mgr EXCEPT ![l] = Blank]
    BY <2>1
  <2> QED BY <1>1, <2>1, <2>2, BlankIsSound, MgrQuietStep
<1>3. CASE s \notin Critical
  <2> DEFINE m == Refuse(mgr[l], s)
  <2>1. AfterRefusal(s) = "launch" /\ "launch" \in PCs \ {"none"}
    BY <1>3 DEF AfterRefusal, PCs
  <2>2. mgr' = [mgr EXCEPT ![l] = Onward(m)]
    BY <2>1
  <2>3. m \in MgrRecords /\ Sound(m, "launch", Spawned(l))
    <3>1. mgr[l] \in MgrRecords /\ Sound(mgr[l], "launch", Spawned(l))
      BY MgrHere
    <3> QED BY <1>3, <3>1 DEF MgrRecords, Sound, Refuse
  <2>4. Onward(m) \in MgrRecords /\ Sound(Onward(m), "launch", Spawned(l))
    BY <2>3, OnwardKeeps
  <2> HIDE DEF m
  <2> QED BY <1>1, <2>1, <2>2, <2>4, MgrQuietStep
<1> QED BY <1>2, <1>3

(* A critical service is no singleton, so it is created or refused.        *)
LEMMA MgrSpawnedPreserves ==
    ASSUME IInv, NEW l \in Launches, NEW s \in Services, NEW r \in SpawnResults(s, l),
           r # "refused", pc[<<"servicemgr", l>>] = "launch",
           pc' = Started(pc, r, s, l), health' = Bound(health, r, s),
           mgr' = [mgr EXCEPT ![l] = Launch(mgr[l], s)],
           UNCHANGED <<kernel, box, announced>>
    PROVE  IInv'
<1> DEFINE m == Launch(mgr[l], s)
<1>1. Types /\ s \in Programs /\ s # "servicemgr"
  BY Names DEF IInv
<1>2. /\ pc' \in [Instances -> PCs] /\ health' \in [Services -> Healths]
      /\ \A i \in Instances : pc[i] # "none" => pc'[i] # "none"
      /\ \A i \in Instances : i # <<s, l>> => pc'[i] = pc[i]
      /\ r = "made" => pc'[<<s, l>>] = "claim"
  BY <1>1, Spawning
<1>3. mgr[l] \in MgrRecords /\ Sound(mgr[l], "launch", Spawned(l))
      /\ mgr \in [Launches -> MgrRecords]
  BY MgrHere DEF IInv, Types
<1>4. mgr' = [mgr EXCEPT ![l] = m] /\ m \in MgrRecords
  BY <1>3 DEF MgrRecords, Launch
<1>5. \A k \in Launches : pc'[<<"servicemgr", k>>] = pc[<<"servicemgr", k>>]
  <2> TAKE k \in Launches
  <2>1. <<"servicemgr", k>> \in Instances /\ <<"servicemgr", k>> # <<s, l>>
    BY <1>1, Apart, Names
  <2> QED BY <2>1, <1>2
<1>6. s \in Critical => s \in Spawned(l)'
  <2>1. s \in Critical => r = "made"
    BY Names DEF SpawnResults, Singleton
  <2> QED BY <2>1, <1>2 DEF Spawned
<1>7. Spawned(l) \subseteq Spawned(l)'
  BY <1>2, Names DEF Spawned, Instances
<1>8. Sound(m, "launch", Spawned(l)')
  BY <1>3, <1>6, <1>7 DEF Sound, MgrRecords, Launch
<1> HIDE DEF m
<1>9. CoreInOrder' /\ mgr' \in [Launches -> MgrRecords]
  <2>1. \A k \in Launches \ {l} : pc'[<<"servicemgr", k>>] = pc[<<"servicemgr", k>>]
    BY <1>5
  <2>2. pc'[<<"servicemgr", l>>] = "launch"
    BY <1>5
  <2>3. Sound(m, pc'[<<"servicemgr", l>>], Spawned(l)')
    BY <1>8, <2>2
  <2> QED BY <1>2, <1>4, <2>1, <2>3, MgrStep
<1>10. Types' /\ Earned'
  BY <1>1, <1>2, <1>9, EarnedKept DEF Types, KernelOK
<1> QED BY <1>9, <1>10 DEF IInv

LEMMA MgrSpawnPreserves ==
    ASSUME IInv, NEW l \in Launches, NEW s \in Services, MgrSpawn(l, s)
    PROVE  IInv'
<1>1. pc[<<"servicemgr", l>>] = "launch" /\ UNCHANGED <<kernel, announced>>
  BY DEF MgrSpawn
<1>2. PICK r \in SpawnResults(s, l) :
        /\ health' = Bound(health, r, s)
        /\ IF r = "refused"
             THEN /\ pc' = [pc EXCEPT ![<<"servicemgr", l>>] = AfterRefusal(s)]
                  /\ mgr' = [mgr EXCEPT ![l] =
                               IF AfterRefusal(s) = "critical" THEN Blank
                               ELSE Onward(Refuse(mgr[l], s))]
                  /\ Tell(IF s \in Critical THEN "failed" ELSE "missing", s)
             ELSE /\ pc' = Started(pc, r, s, l)
                  /\ mgr' = [mgr EXCEPT ![l] = Launch(mgr[l], s)]
                  /\ UNCHANGED box
  BY DEF MgrSpawn
<1>3. CASE r = "refused"
  <2>1. health' = health
    BY <1>2, <1>3 DEF Bound
  <2> QED BY <1>1, <1>2, <1>3, <2>1, MgrRefusedPreserves
<1>4. CASE r # "refused"
  BY <1>1, <1>2, <1>4, MgrSpawnedPreserves
<1> QED BY <1>3, <1>4

LEMMA MgrHearsPreserves ==
    ASSUME IInv, NEW l \in Launches, MgrHears(l)
    PROVE  IInv'
<1> DEFINE n == Head(box["servicemgr"])
           m == Hear(mgr[l], n)
           to == IF n = "Shutdown" THEN "relay" ELSE "launch"
           new == IF n = "Shutdown" THEN Relaying ELSE Onward(m)
<1>1. /\ pc[<<"servicemgr", l>>] = "launch" /\ box["servicemgr"] # <<>>
      /\ mgr' = [mgr EXCEPT ![l] = new]
      /\ pc' = [pc EXCEPT ![<<"servicemgr", l>>] = to]
      /\ box' = Rest(box, "servicemgr") /\ UNCHANGED <<kernel, health, announced>>
  BY DEF MgrHears, Awaiting
<1>2. BoxesOK(box') /\ (Backed(box, announced) => Backed(box', announced))
  BY <1>1, ReadOne, Names
<1>3. m \in MgrRecords /\ Sound(m, "launch", Spawned(l))
  <2>1. mgr[l] \in MgrRecords /\ Sound(mgr[l], "launch", Spawned(l))
    BY <1>1, MgrHere
  <2> QED BY <2>1 DEF MgrRecords, Sound, Hear
<1>4. new \in MgrRecords /\ Sound(new, to, Spawned(l)) /\ to \in PCs \ {"none"}
  BY <1>3, OnwardKeeps, BlankIsSound DEF PCs
<1> QED BY <1>1, <1>2, <1>4, MgrQuietStep

LEMMA MgrTimeoutPreserves ==
    ASSUME IInv, NEW l \in Launches, MgrTimeout(l)
    PROVE  IInv'
<1> DEFINE m == GiveUp(mgr[l], Late(l))
           to == IF Late(l) \cap Critical = {} THEN "launch" ELSE "critical"
<1>1. /\ pc[<<"servicemgr", l>>] = "launch"
      /\ mgr' = [mgr EXCEPT ![l] = Onward(m)]
      /\ pc' = [pc EXCEPT ![<<"servicemgr", l>>] = to]
      /\ UNCHANGED <<kernel, health, announced>>
  BY DEF MgrTimeout, Awaiting
<1>2. mgr[l] \in MgrRecords /\ Sound(mgr[l], "launch", Spawned(l)) /\ BoxesOK(box)
  BY <1>1, MgrHere
<1>3. BoxesOK(box') /\ (Backed(box, announced) => Backed(box', announced))
  <2>1. CASE Late(l) = {}
    BY <1>2, <2>1 DEF MgrTimeout
  <2>2. CASE Late(l) # {}
    <3>1. PICK s : s \in Late(l) /\ box' = Put(box, "bootstrap",
                     Status(IF s \in Critical THEN "failed" ELSE "missing", s))
      BY <2>2 DEF MgrTimeout
    <3>2. s \in Programs
      BY <3>1, <1>2, Names DEF Late, MgrRecords
    <3>3. Tell(IF s \in Critical THEN "failed" ELSE "missing", s)
      BY <3>1 DEF Tell
    <3> QED BY <3>2, <3>3, TellOne
  <2> QED BY <2>1, <2>2
<1>4. m \in MgrRecords /\ Sound(m, "launch", Spawned(l))
  BY <1>2 DEF MgrRecords, Sound, GiveUp
<1>5. Onward(m) \in MgrRecords /\ Sound(Onward(m), to, Spawned(l)) /\ to \in PCs \ {"none"}
  BY <1>4, OnwardKeeps DEF PCs
<1> HIDE DEF m
<1> QED BY <1>1, <1>3, <1>5, MgrQuietStep

LEMMA MgrTailPreserves ==
    ASSUME IInv, NEW l \in Launches, MgrFlaw(l) \/ MgrFabricReady(l)
    PROVE  IInv'
<1>1. /\ pc[<<"servicemgr", l>>] = "launch" /\ mgr[l].pass = "optional"
      /\ UNCHANGED <<kernel, health, announced>>
  BY DEF MgrFlaw, MgrFabricReady, PassDone
<1>2. mgr[l] \in MgrRecords /\ Sound(mgr[l], "launch", Spawned(l)) /\ BoxesOK(box)
      /\ mgr \in [Launches -> MgrRecords]
  BY <1>1, MgrHere DEF IInv, Types
<1>3. CASE MgrFlaw(l)
  <2> DEFINE m == [mgr[l] EXCEPT !.flawed = FALSE]
  <2>1. mgr' = [mgr EXCEPT ![l] = m] /\ Tell("degraded", "servicemgr")
        /\ pc' = [pc EXCEPT ![<<"servicemgr", l>>] = "launch"]
    BY <1>1, <1>2, <1>3, MgrHere DEF MgrFlaw
  <2>2. m \in MgrRecords /\ Sound(m, "launch", Spawned(l)) /\ "launch" \in PCs \ {"none"}
    BY <1>2 DEF MgrRecords, Sound, PCs
  <2>3. BoxesOK(box') /\ (Backed(box, announced) => Backed(box', announced))
    BY <2>1, TellOne, Names
  <2> HIDE DEF m
  <2> QED BY <1>1, <2>1, <2>2, <2>3, MgrQuietStep
<1>4. CASE MgrFabricReady(l)
  <2>1. mgr' = [mgr EXCEPT ![l] = Blank] /\ box' = Put(box, "init", "fabric-ready")
        /\ pc' = [pc EXCEPT ![<<"servicemgr", l>>] = "loop"] /\ "loop" \in PCs \ {"none"}
    BY <1>4 DEF MgrFabricReady, PCs
  <2>2. BoxesOK(box') /\ (Backed(box, announced) => Backed(box', announced))
    BY <1>2, <2>1, PutNote, Names
  <2> QED BY <1>1, <2>1, <2>2, BlankIsSound, MgrQuietStep
<1> QED BY <1>3, <1>4

LEMMA MgrCriticalFailurePreserves ==
    ASSUME IInv, NEW l \in Launches, MgrCriticalFailure(l)
    PROVE  IInv'
<1>1. /\ pc[<<"servicemgr", l>>] = "critical" /\ Tell("critical", "servicemgr")
      /\ pc' = [pc EXCEPT ![<<"servicemgr", l>>] = "loop"]
      /\ mgr' = [mgr EXCEPT ![l] = mgr[l]] /\ UNCHANGED <<kernel, health, announced>>
  BY MgrHere DEF MgrCriticalFailure, At
<1>2. mgr[l] \in MgrRecords /\ Sound(mgr[l], "critical", Spawned(l))
      /\ "loop" \in PCs \ {"none"}
  BY <1>1, MgrHere DEF PCs
<1>3. Sound(mgr[l], "loop", Spawned(l))
  BY <1>2 DEF Sound
<1> QED BY <1>1, <1>2, <1>3, TellCritical, MgrQuietStep

LEMMA MgrLoopPreserves ==
    ASSUME IInv, NEW l \in Launches, MgrLoop(l)
    PROVE  IInv'
<1> DEFINE down == Head(box["servicemgr"]) = "Shutdown"
           m == IF down THEN Relaying ELSE mgr[l]
           to == IF down THEN "relay" ELSE "loop"
<1>1. /\ pc[<<"servicemgr", l>>] = "loop" /\ box["servicemgr"] # <<>>
      /\ pc' = [pc EXCEPT ![<<"servicemgr", l>>] = to] /\ mgr' = [mgr EXCEPT ![l] = m]
      /\ box' = Rest(box, "servicemgr") /\ UNCHANGED <<kernel, health, announced>>
  BY DEF MgrLoop
<1>2. BoxesOK(box') /\ (Backed(box, announced) => Backed(box', announced))
  BY <1>1, ReadOne, Names
<1>3. m \in MgrRecords /\ Sound(m, to, Spawned(l)) /\ to \in PCs \ {"none"}
  BY <1>1, MgrHere, BlankIsSound DEF PCs
<1> QED BY <1>1, <1>2, <1>3, MgrQuietStep

LEMMA MgrRelayPreserves ==
    ASSUME IInv, NEW l \in Launches, MgrRelay(l)
    PROVE  IInv'
<1>1. pc[<<"servicemgr", l>>] = "relay" /\ UNCHANGED <<kernel, health, announced>>
  BY DEF MgrRelay
<1>2. /\ mgr[l] \in MgrRecords /\ Sound(mgr[l], "relay", Spawned(l)) /\ BoxesOK(box)
      /\ mgr = [mgr EXCEPT ![l] = mgr[l]]
      /\ pc = [pc EXCEPT ![<<"servicemgr", l>>] = "relay"]
  BY <1>1, MgrHere
<1>3. CASE mgr[l].todo = {}
  <2>1. pc' = [pc EXCEPT ![<<"servicemgr", l>>] = "dead"] /\ UNCHANGED <<mgr, box>>
        /\ "dead" \in PCs \ {"none"}
    BY <1>3 DEF MgrRelay, PCs
  <2>2. Sound(mgr[l], "dead", Spawned(l))
    BY <1>2 DEF Sound
  <2>3. BoxesOK(box') /\ (Backed(box, announced) => Backed(box', announced))
        /\ mgr' = [mgr EXCEPT ![l] = mgr[l]]
    BY <1>2, <2>1
  <2> QED BY <1>1, <1>2, <2>1, <2>2, <2>3, MgrQuietStep
<1>4. CASE mgr[l].todo # {}
  <2>1. PICK s \in mgr[l].todo :
          /\ box' = Put(box, s, "relayed") /\ mgr' = [mgr EXCEPT ![l] = Skip(mgr[l], s)]
          /\ UNCHANGED pc
    BY <1>4 DEF MgrRelay
  <2> DEFINE m == Skip(mgr[l], s)
  <2>2. s \in Programs
    BY <1>2, Names DEF MgrRecords
  <2>3. BoxesOK(box') /\ (Backed(box, announced) => Backed(box', announced))
    BY <1>2, <2>1, <2>2, PutNote, Names
  <2>4. m \in MgrRecords /\ Sound(m, "relay", Spawned(l)) /\ "relay" \in PCs \ {"none"}
    BY <1>2 DEF MgrRecords, Sound, Skip, PCs
  <2>5. mgr' = [mgr EXCEPT ![l] = m] /\ pc' = [pc EXCEPT ![<<"servicemgr", l>>] = "relay"]
    BY <1>2, <2>1
  <2> HIDE DEF m
  <2> QED BY <1>1, <2>3, <2>4, <2>5, MgrQuietStep
<1> QED BY <1>3, <1>4

-----------------------------------------------------------------------------
(* The steps of a service. *)

LEMMA ServiceClaimPreserves ==
    ASSUME IInv, NEW s \in Services, NEW l \in Launches, ServiceClaim(s, l)
    PROVE  IInv'
<1>1. s \in Programs \ {"servicemgr"} /\ s \in Chans
  BY Names
<1>2. PICK to \in {"online", "dead"} : At(s, l, "claim", to)
  BY DEF ServiceClaim
<1>3. pc' = [pc EXCEPT ![<<s, l>>] = to] /\ to \in PCs \ {"none"}
      /\ box' = Claimed(box, s) /\ UNCHANGED <<kernel, mgr, health, announced>>
  BY <1>2 DEF ServiceClaim, At, PCs
<1>4. BoxesOK(box') /\ (Backed(box, announced) => Backed(box', announced))
  BY <1>1, <1>3, ClaimedOf DEF IInv, Types
<1> QED BY <1>1, <1>3, <1>4, QuietStep

LEMMA ServiceReadyPreserves ==
    ASSUME IInv, NEW s \in Services, NEW l \in Launches, ServiceReady(s, l)
    PROVE  IInv'
<1> DEFINE b == Put(box, "bootstrap", Status("ready", s))
<1>1. Types /\ BoxesOK(box)
  BY DEF IInv, Types
<1>2. /\ At(s, l, "online", "loop") /\ Announce(s)
      /\ box' = Put(b, "servicemgr", s) /\ UNCHANGED <<kernel, mgr, health>>
  BY DEF ServiceReady
<1>3. s \in Programs \ {"servicemgr"} /\ "servicemgr" \in Programs /\ s \in Notes
  BY Names
<1>4. BoxesOK(b)
  BY <1>1, <1>3, PutStatus, StatusFacts
<1>5. /\ announced \subseteq announced' /\ announced' \subseteq Programs
      /\ Backed(box, announced) /\ kernel.pc # "idle" => Backed(b, announced')
  BY <1>1, <1>2, <1>3, AnnounceKept
<1>6. BoxesOK(box') /\ (Backed(b, announced') => Backed(box', announced'))
  BY <1>2, <1>3, <1>4, PutNote
<1>7. /\ pc' \in [Instances -> PCs]
      /\ \A i \in Instances : pc[i] # "none" => pc'[i] # "none"
      /\ \A i \in Instances : i # <<s, l>> => pc'[i] = pc[i]
  BY <1>1, <1>2, <1>3, AtMoves DEF PCs
<1>8. Types'
  BY <1>1, <1>2, <1>5, <1>6, <1>7 DEF Types, KernelOK
<1>9. Earned' /\ CoreInOrder'
  BY <1>2, <1>3, <1>5, <1>6, <1>7, EarnedKept, OthersKeepCore
<1> QED BY <1>8, <1>9 DEF IInv

LEMMA ServePreserves ==
    ASSUME IInv, NEW s \in Services, NEW l \in Launches, Serve(s, l)
    PROVE  IInv'
<1> DEFINE down == Stops(s, Head(box[s]))
           to == IF down THEN "dead" ELSE "loop"
<1>1. s \in Programs \ {"servicemgr"} /\ s \in Chans
  BY Names
<1>2. /\ pc[<<s, l>>] = "loop" /\ box[s] # <<>>
      /\ pc' = [pc EXCEPT ![<<s, l>>] = to] /\ to \in PCs \ {"none"}
      /\ box' = IF down /\ s \in ByPayload
                  THEN Put(Rest(box, s), "bootstrap", Status("stop", s))
                  ELSE Rest(box, s)
      /\ UNCHANGED <<kernel, mgr, health, announced>>
  BY DEF Serve, PCs
<1>3. BoxesOK(Rest(box, s)) /\ (Backed(box, announced) => Backed(Rest(box, s), announced))
  BY <1>1, <1>2, RestOf DEF IInv, Types
<1>4. Status("stop", s) \in Reports /\ Status("stop", s).kind # "ready"
  BY <1>1, StatusFacts
<1>5. BoxesOK(box') /\ (Backed(box, announced) => Backed(box', announced))
  BY <1>2, <1>3, <1>4, PutStatus
<1> QED BY <1>1, <1>2, <1>5, QuietStep

-----------------------------------------------------------------------------
LEMMA NextPreserves == IInv /\ [Next]_vars => IInv'
<1> SUFFICES ASSUME IInv, [Next]_vars PROVE IInv'
  OBVIOUS
<1>1. CASE KernelNext
  BY <1>1, RecoverPreserves, NotifyPreserves, DrainPreserves, SpawnInitPreserves,
     ObservePreserves, DeadlinePreserves DEF KernelNext
<1>2. ASSUME NEW l \in Launches, InitNext(l) PROVE IInv'
  BY <1>2, InitOnlinePreserves, InitSpawnPreserves, InitPollPreserves,
     InitGiveUpPreserves DEF InitNext
<1>3. ASSUME NEW l \in Launches, MgrNext(l) PROVE IInv'
  BY <1>3, MgrOnlinePreserves, MgrSkipPreserves, MgrSpawnPreserves, MgrHearsPreserves,
     MgrTimeoutPreserves, MgrTailPreserves, MgrCriticalFailurePreserves,
     MgrLoopPreserves, MgrRelayPreserves DEF MgrNext
<1>4. ASSUME NEW s \in Services, NEW l \in Launches, ServiceNext(s, l) PROVE IInv'
  BY <1>4, ServiceClaimPreserves, ServiceReadyPreserves, ServePreserves DEF ServiceNext
<1>5. CASE UNCHANGED vars
  BY <1>5 DEF vars, IInv, Types, KernelOK, BoxesOK, Earned, Backed, OutcomeIsEarned,
              CoreInOrder, Spawned
<1> QED BY <1>1, <1>2, <1>3, <1>4, <1>5 DEF Next, UserNext

LEMMA Invariance == Spec => []IInv
<1> QED BY InitInv, NextPreserves, PTL DEF Spec

(* Every variable keeps its type: no ring holds more than RingSize         *)
(* messages, every message is of its channel's kind, and every task is     *)
(* somewhere its program can be.                                           *)
THEOREM FabricTypeCorrect == Spec => []TypeOK
<1>1. IInv => TypeOK
  <2> SUFFICES ASSUME IInv PROVE TypeOK
    OBVIOUS
  <2>1. box["bootstrap"] \in Seq(Reports) /\ \A c \in Programs : box[c] \in Seq(Notes)
    BY DEF IInv, Types, BoxesOK
  <2>2. \A i \in 1 .. Len(box["bootstrap"]) : box["bootstrap"][i] \in Statuses
    BY <2>1 DEF Reports
  <2>3. \A c \in Programs : \A i \in 1 .. Len(box[c]) : box[c][i] \in Notes
    BY <2>1
  <2> QED BY <2>2, <2>3 DEF IInv, Types, KernelOK, KernelRecords, BoxesOK, MgrRecords, TypeOK
<1> QED BY <1>1, Invariance, PTL

(* Whatever earlier launches left behind, a launch the kernel reports      *)
(* ready, or degraded but bootable, was announced by those it counts on    *)
(* (await_protected_bootstrap after                                        *)
(* drain_protected_bootstrap_status_channel).                              *)
THEOREM OutcomesAreEarned == Spec => []OutcomeIsEarned
<1>1. IInv => OutcomeIsEarned
  BY DEF IInv, Earned
<1> QED BY <1>1, Invariance, PTL

(* No optional service is launched before every critical one was spawned   *)
(* (launch_from_graph_manifest).                                           *)
THEOREM CoreAlwaysFirst == Spec => []CoreComesFirst
<1>1. IInv => CoreComesFirst
  BY DEF IInv, CoreInOrder, Sound, Spawned, CoreComesFirst
<1> QED BY <1>1, Invariance, PTL
=============================================================================
