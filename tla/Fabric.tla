------------------------------- MODULE Fabric -------------------------------
(***************************************************************************)
(* The protected fabric: how the kernel, init and servicemgr bring the     *)
(* user-space services up, and how a restart takes them down first.        *)
(* kernel/src/main.rs (launch, await, recover), userland.rs (spawn),       *)
(* registry/mod.rs (health) and userspace/protected/src/bin.               *)
(*                                                                         *)
(* A launch drains the bootstrap channel, spawns init and reads statuses   *)
(* until it can decide.  init spawns servicemgr; servicemgr spawns the     *)
(* critical services, waits for them, spawns the optional ones, waits, and *)
(* tells init.  A restart sends "shutdown" to the inboxes and launches     *)
(* again; it waits for nobody, and an inbox belongs to a name, so tasks of *)
(* two launches may read one inbox.                                        *)
(*                                                                         *)
(* A task is named by its program and by the launch its init belongs to.   *)
(* A step is one system call, or a receive with the status it leads to.    *)
(* Statuses nobody acts on (service-bound, fanout-complete, ...) are left  *)
(* out, and so is the preflight: every package is there.  Timeouts and     *)
(* retry budgets may run out whenever nothing is there to be read.         *)
(***************************************************************************)
EXTENDS Integers, Sequences, FiniteSets

CONSTANTS
    Critical, Optional,  \* the services of bootstrap.graph servicemgr launches
    Compositor,          \* the optional service that owns the display
    Watched,             \* the services the kernel's report has a bit for
    ByPayload,           \* services that stop on the payload "shutdown"; the
                         \* others stop on the kernel's tag only
    Notices,             \* the inboxes a restart notifies, in order
    Refusable, Mortal,   \* bound: programs whose spawn, services whose set-up may fail
    MaxLaunch,           \* bound: launches
    MaxLate,             \* bound: tasks still on their way when a restart begins
    RingSize             \* messages a channel holds

Services == Critical \cup Optional
Programs == {"init", "servicemgr"} \cup Services
Chans == Programs \cup {"bootstrap"}
Launches == 1 .. MaxLaunch
Instances == Programs \X Launches

ASSUME FabricAssumption ==
    /\ Critical \cap Optional = {} /\ Compositor \in Optional
    /\ Compositor \in Watched /\ Watched \subseteq Services
    /\ ByPayload \subseteq Services
    /\ Services \cap {"init", "servicemgr", "bootstrap"} = {}
    /\ Refusable \subseteq Programs /\ Mortal \subseteq Services
    /\ Notices \in Seq(Programs \ {Compositor})
    /\ MaxLaunch \in Nat \ {0} /\ RingSize \in Nat \ {0}

VARIABLES
    kernel,     \* the task that launches: the kernel's init, then the desktop
    pc,         \* where each task is; "none" before it is spawned
    mgr,        \* what each servicemgr knows of its launch
    box,        \* the channels
    health,     \* the registry, of the services: nobody asks for the others
    announced   \* history: who announced itself ready since the last drain

vars == <<kernel, pc, mgr, box, health, announced>>

-----------------------------------------------------------------------------
(* Channels and the registry. *)

\* channel_send: a full ring refuses, and no sender looks.
MutPut(b, c, m) == [b EXCEPT ![c] = Append(@, m)]    \* faulty: the ring has no end
Put(b, c, m) == IF Len(b[c]) < RingSize THEN [b EXCEPT ![c] = Append(@, m)] ELSE b
Status(kind, p) == [kind |-> kind, of |-> p]
Tell(kind, p) == box' = Put(box, "bootstrap", Status(kind, p))
Rest(b, c) == [b EXCEPT ![c] = Tail(@)]

\* claim_inbox takes one message, if there is one, and drops it.
Claimed(b, c) == IF b[c] = <<>> THEN b ELSE Rest(b, c)

Healths == {"reserved", "launched", "ready", "degraded", "missing", "failed",
            "stopped"}

\* service_ready_via_registry: health >= REGISTRY_HEALTH_LAUNCHED.
ReadyViaRegistry(p) == health[p] # "reserved"

-----------------------------------------------------------------------------
(* Spawning. *)

\* active_task_id_by_name counts Ready and Running tasks: one that is blocked
\* in its loop is not found.
Active(p) == \E l \in Launches : pc[<<p, l>>] \notin {"none", "dead", "loop"}
Idle(p) == \E l \in Launches : pc[<<p, l>>] = "loop"
Singleton(p) == p = Compositor

\* What spawn_named_service can come to: a singleton's task is found, a task
\* is created, or the image or a slot is missing.
SpawnResults(p, l) ==
    (IF Singleton(p) /\ (Active(p) \/ Idle(p)) THEN {"found"} ELSE {})
    \cup (IF Singleton(p) /\ Active(p) THEN {}
          ELSE {x \in {"refused"} : p \in Refusable \/ pc[<<p, l>>] # "none"}
               \cup (IF pc[<<p, l>>] = "none" THEN {"made"} ELSE {}))
Bound(h, r, p) == IF r = "made" /\ p \in Services THEN [h EXCEPT ![p] = "launched"] ELSE h
Started(f, r, p, l) == IF r = "made" THEN [f EXCEPT ![<<p, l>>] = "claim"] ELSE f
At(p, l, from, to) == pc[<<p, l>>] = from /\ pc' = [pc EXCEPT ![<<p, l>>] = to]

-----------------------------------------------------------------------------
(* The kernel's side. *)

Report == [seen |-> {}, degraded |-> FALSE, failure |-> FALSE]
Outcomes == {"none", "ready", "degraded", "failed", "unspawned"}
Supervisors == {"init", "servicemgr"}
Required == Supervisors \cup Watched

\* observe_protected_bootstrap_event.
Seen(rep, s) ==
    [seen |-> IF s.kind = "ready" /\ s.of \in Required THEN rep.seen \cup {s.of} ELSE rep.seen,
     degraded |-> rep.degraded \/ s.kind \in {"degraded", "missing"},
     failure |-> rep.failure \/ s.kind \in {"failed", "critical"}]
Marks == [ready |-> "ready", degraded |-> "degraded", missing |-> "missing",
          failed |-> "failed", stop |-> "stopped"]
Recorded(h, s) == IF s.of \in Services THEN [h EXCEPT ![s.of] = Marks[s.kind]] ELSE h

IsReady(rep) == ~rep.degraded /\ ~rep.failure /\ Required \subseteq rep.seen
IsDegradedBootable(rep) == ~rep.failure /\ Supervisors \cup {Compositor} \subseteq rep.seen
Verdict(rep) ==
    CASE IsReady(rep) -> "ready"
      [] IsDegradedBootable(rep) -> "degraded"
      [] rep.failure -> "failed"
      [] OTHER -> "none"

\* What follows an outcome: nothing, until the next restart.
Decide(o) == kernel' = [kernel EXCEPT !.pc = "idle", !.outcome = o, !.report = Report]

Unsettled == {i \in Instances : pc[i] \notin {"none", "loop", "dead"}}

\* recover_protected_fabric, after a failed boot or from the operator.
Recover ==
    /\ kernel.pc = "idle" /\ kernel.launch < MaxLaunch
    /\ Cardinality(Unsettled) <= MaxLate /\ Unsettled \subseteq Services \X Launches
    /\ kernel' = [kernel EXCEPT !.pc = "notify", !.left = Notices, !.outcome = "none"]
    /\ announced' = {}
    /\ UNCHANGED <<pc, mgr, box, health>>

\* graceful_protected_shutdown: one notice and a tick's sleep.
Notify ==
    /\ kernel.pc = "notify" /\ kernel.left # <<>>
    /\ box' = Put(box, Head(kernel.left), "Shutdown")
    /\ kernel' = [kernel EXCEPT !.left = Tail(@)]
    /\ UNCHANGED <<pc, mgr, health, announced>>

\* drain_protected_bootstrap_status_channel.
MutDrained(b) == b    \* faulty: what the last launch left is kept
Drained(b) == [b EXCEPT !["bootstrap"] = <<>>]
Drain ==
    /\ kernel.pc = "notify" /\ kernel.left = <<>>
    /\ box' = Drained(box) /\ announced' = {}
    /\ kernel' = [kernel EXCEPT !.pc = "spawn", !.launch = @ + 1]
    /\ UNCHANGED <<pc, mgr, health>>

SpawnInit ==
    /\ kernel.pc = "spawn"
    /\ \E r \in SpawnResults("init", kernel.launch) :
         /\ pc' = Started(pc, r, "init", kernel.launch)
         /\ health' = Bound(health, r, "init")
         /\ IF r = "made" THEN kernel' = [kernel EXCEPT !.pc = "await"]
            ELSE Decide("unspawned")
    /\ UNCHANGED <<mgr, box, announced>>

\* await_protected_bootstrap, one message.
Observe ==
    /\ kernel.pc = "await" /\ box["bootstrap"] # <<>>
    /\ LET s == Head(box["bootstrap"])
           rep == Seen(kernel.report, s)
       IN  /\ health' = Recorded(health, s)
           /\ IF Verdict(rep) = "none" THEN kernel' = [kernel EXCEPT !.report = rep]
              ELSE Decide(Verdict(rep))
    /\ box' = Rest(box, "bootstrap")
    /\ UNCHANGED <<pc, mgr, announced>>

\* The deadline.  Its degraded case asks for every program, and then an
\* earlier message has decided.
Deadline ==
    /\ kernel.pc = "await" /\ box["bootstrap"] = <<>>
    /\ Decide(IF Required \subseteq kernel.report.seen THEN "degraded" ELSE "failed")
    /\ UNCHANGED <<pc, mgr, box, health, announced>>

KernelNext == Recover \/ Notify \/ Drain \/ SpawnInit \/ Observe \/ Deadline

-----------------------------------------------------------------------------
(* init. *)

\* The history is kept until the launch is decided.
Announce(p) == announced' = IF kernel.pc = "idle" THEN announced ELSE announced \cup {p}

InitOnline(l) ==
    /\ At("init", l, "claim", "spawn")
    /\ box' = Put(Claimed(box, "init"), "bootstrap", Status("ready", "init"))
    /\ Announce("init")
    /\ UNCHANGED <<kernel, mgr, health>>

InitSpawn(l) ==
    /\ pc[<<"init", l>>] = "spawn"
    /\ \E r \in SpawnResults("servicemgr", l) :
         /\ health' = Bound(health, r, "servicemgr")
         /\ IF r = "made"
              THEN /\ pc' = [Started(pc, r, "servicemgr", l) EXCEPT ![<<"init", l>>] = "wait"]
                   /\ UNCHANGED box
              ELSE /\ pc' = [pc EXCEPT ![<<"init", l>>] = "dead"]
                   /\ Tell("critical", "servicemgr")
    /\ UNCHANGED <<kernel, mgr, announced>>

\* Up to 192 polls for fabric-ready; everything else is read and dropped.
InitPoll(l) ==
    /\ pc[<<"init", l>>] = "wait" /\ box["init"] # <<>>
    /\ pc' = [pc EXCEPT ![<<"init", l>>] = IF Head(box["init"]) = "fabric-ready" THEN "loop" ELSE @]
    /\ box' = Rest(box, "init")
    /\ UNCHANGED <<kernel, mgr, health, announced>>
InitGiveUp(l) ==
    /\ box["init"] = <<>>
    /\ At("init", l, "wait", "loop") /\ Tell("degraded", "servicemgr")
    /\ UNCHANGED <<kernel, mgr, health, announced>>
InitLoop(l) ==
    /\ pc[<<"init", l>>] = "loop" /\ box["init"] # <<>>
    /\ pc' = [pc EXCEPT ![<<"init", l>>] = IF Head(box["init"]) = "Shutdown" THEN "dead" ELSE @]
    /\ box' = Rest(box, "init")
    /\ UNCHANGED <<kernel, mgr, health, announced>>

-----------------------------------------------------------------------------
(* servicemgr. *)

Blank == [pass |-> "critical", todo |-> Critical, pending |-> {}, flawed |-> FALSE]
\* The notice is relayed under a tag that only ByPayload looks past: for the
\* others it is read and dropped, and not shown here.
Relaying == [Blank EXCEPT !.todo = ByPayload]

\* A pass in which nothing is left to launch or to wait for gives way to the
\* next one.
Onward(m) == IF m.pass = "critical" /\ m.todo = {} /\ m.pending = {}
               THEN [m EXCEPT !.pass = "optional", !.todo = Optional]
               ELSE m

\* What a pass does with one service, or with those that did not answer.
Skip(m, s) == [m EXCEPT !.todo = @ \ {s}]
Refuse(m, s) == [m EXCEPT !.todo = @ \ {s}, !.flawed = TRUE]
Launch(m, s) == [m EXCEPT !.todo = @ \ {s}, !.pending = @ \cup {s}]
Hear(m, s) == [m EXCEPT !.pending = @ \ {s}]
GiveUp(m, late) == [m EXCEPT !.pending = {}, !.flawed = @ \/ late # {}]

MgrOnline(l) ==
    /\ At("servicemgr", l, "claim", "launch")
    /\ box' = Put(Claimed(box, "servicemgr"), "bootstrap", Status("ready", "servicemgr"))
    /\ Announce("servicemgr")
    /\ UNCHANGED <<kernel, mgr, health>>

\* should_skip_manifest_spawn.
Skipped(s) == s = Compositor /\ ReadyViaRegistry(s)
MgrSkip(l, s) ==
    /\ pc[<<"servicemgr", l>>] = "launch" /\ s \in mgr[l].todo /\ Skipped(s)
    /\ mgr' = [mgr EXCEPT ![l] = Skip(mgr[l], s)]
    /\ UNCHANGED <<kernel, pc, box, health, announced>>

\* spawn_manifest_path and what its caller does: a critical service that
\* cannot be spawned ends the pass, an optional one is reported missing.
MutAfterRefusal(s) == "launch"    \* faulty: the pass goes on
AfterRefusal(s) == IF s \in Critical THEN "critical" ELSE "launch"
MgrSpawn(l, s) ==
    /\ pc[<<"servicemgr", l>>] = "launch" /\ s \in mgr[l].todo /\ ~Skipped(s)
    /\ \E r \in SpawnResults(s, l) :
         /\ health' = Bound(health, r, s)
         /\ IF r = "refused"
              THEN /\ pc' = [pc EXCEPT ![<<"servicemgr", l>>] = AfterRefusal(s)]
                   /\ mgr' = [mgr EXCEPT ![l] =
                                IF AfterRefusal(s) = "critical" THEN Blank
                                ELSE Onward(Refuse(mgr[l], s))]
                   /\ Tell(IF s \in Critical THEN "failed" ELSE "missing", s)
              ELSE /\ pc' = Started(pc, r, s, l)
                   /\ mgr' = [mgr EXCEPT ![l] = Launch(mgr[l], s)]
                   /\ UNCHANGED box
    /\ UNCHANGED <<kernel, announced>>

\* await_service_readiness, one message.
Awaiting(l) == pc[<<"servicemgr", l>>] = "launch" /\ mgr[l].todo = {} /\ mgr[l].pending # {}
MgrHears(l) ==
    /\ Awaiting(l) /\ box["servicemgr"] # <<>>
    /\ LET m == Head(box["servicemgr"])
       IN  /\ pc' = [pc EXCEPT ![<<"servicemgr", l>>] = IF m = "Shutdown" THEN "relay" ELSE @]
           /\ mgr' = [mgr EXCEPT ![l] = IF m = "Shutdown" THEN Relaying
                                        ELSE Onward(Hear(mgr[l], m))]
    /\ box' = Rest(box, "servicemgr")
    /\ UNCHANGED <<kernel, health, announced>>

\* READY_WAIT_IDLE_PASSES: those that have not answered are looked up.  None
\* is found wanting, since a spawned service is launched at the least.
MutOutOfPasses(l) == FALSE    \* faulty: idle passes are not counted
OutOfPasses(l) == box["servicemgr"] = <<>>
Late(l) == {s \in mgr[l].pending : ~ReadyViaRegistry(s)}
MgrTimeout(l) ==
    /\ Awaiting(l) /\ OutOfPasses(l)
    /\ mgr' = [mgr EXCEPT ![l] = Onward(GiveUp(mgr[l], Late(l)))]
    /\ pc' = [pc EXCEPT ![<<"servicemgr", l>>] =
                IF Late(l) \cap Critical = {} THEN @ ELSE "critical"]
    /\ box' = IF Late(l) = {} THEN box
              ELSE LET s == CHOOSE x \in Late(l) : TRUE
                   IN  Put(box, "bootstrap",
                           Status(IF s \in Critical THEN "failed" ELSE "missing", s))
    /\ UNCHANGED <<kernel, health, announced>>

PassDone(l) == pc[<<"servicemgr", l>>] = "launch" /\ mgr[l].todo = {} /\ mgr[l].pending = {}

\* The tail of _start: fabric-degraded or not, and fabric-ready to init.
MgrFlaw(l) ==
    /\ PassDone(l) /\ mgr[l].pass = "optional" /\ mgr[l].flawed
    /\ mgr' = [mgr EXCEPT ![l].flawed = FALSE]
    /\ Tell("degraded", "servicemgr")
    /\ UNCHANGED <<kernel, pc, health, announced>>
MgrFabricReady(l) ==
    /\ PassDone(l) /\ mgr[l].pass = "optional" /\ ~mgr[l].flawed
    /\ pc' = [pc EXCEPT ![<<"servicemgr", l>>] = "loop"]
    /\ mgr' = [mgr EXCEPT ![l] = Blank]
    /\ box' = Put(box, "init", "fabric-ready")
    /\ UNCHANGED <<kernel, health, announced>>
MgrCriticalFailure(l) ==
    /\ At("servicemgr", l, "critical", "loop") /\ Tell("critical", "servicemgr")
    /\ UNCHANGED <<kernel, mgr, health, announced>>

MgrLoop(l) ==
    /\ pc[<<"servicemgr", l>>] = "loop" /\ box["servicemgr"] # <<>>
    /\ LET down == Head(box["servicemgr"]) = "Shutdown"
       IN  /\ pc' = [pc EXCEPT ![<<"servicemgr", l>>] = IF down THEN "relay" ELSE @]
           /\ mgr' = [mgr EXCEPT ![l] = IF down THEN Relaying ELSE @]
    /\ box' = Rest(box, "servicemgr")
    /\ UNCHANGED <<kernel, health, announced>>

\* relay_shutdown, under a tag of its own, then exit.
MgrRelay(l) ==
    /\ pc[<<"servicemgr", l>>] = "relay"
    /\ IF mgr[l].todo = {}
         THEN /\ pc' = [pc EXCEPT ![<<"servicemgr", l>>] = "dead"]
              /\ UNCHANGED <<mgr, box>>
         ELSE \E s \in mgr[l].todo :
                /\ box' = Put(box, s, "relayed")
                /\ mgr' = [mgr EXCEPT ![l] = Skip(mgr[l], s)]
                /\ UNCHANGED pc
    /\ UNCHANGED <<kernel, health, announced>>

-----------------------------------------------------------------------------
(* A service: claim the inbox, restore or set up, announce, serve. *)

\* claim_inbox, and then the service restores its state or sets up; when that
\* fails it exits without a word.
ServiceClaim(s, l) ==
    /\ \E to \in {"online"} \cup {x \in {"dead"} : s \in Mortal} : At(s, l, "claim", to)
    /\ box' = Claimed(box, s)
    /\ UNCHANGED <<kernel, mgr, health, announced>>
ServiceReady(s, l) ==
    /\ At(s, l, "online", "loop")
    /\ box' = Put(Put(box, "bootstrap", Status("ready", s)), "servicemgr", s)
    /\ Announce(s)
    /\ UNCHANGED <<kernel, mgr, health>>
Stops(s, m) == m = "Shutdown" \/ (m = "relayed" /\ s \in ByPayload)
Serve(s, l) ==
    /\ pc[<<s, l>>] = "loop" /\ box[s] # <<>>
    /\ LET down == Stops(s, Head(box[s]))
       IN  /\ pc' = [pc EXCEPT ![<<s, l>>] = IF down THEN "dead" ELSE @]
           /\ box' = IF down /\ s \in ByPayload
                       THEN Put(Rest(box, s), "bootstrap", Status("stop", s))
                       ELSE Rest(box, s)
    /\ UNCHANGED <<kernel, mgr, health, announced>>

InitNext(l) ==
    \/ InitOnline(l) \/ InitSpawn(l) \/ InitPoll(l)
    \/ InitGiveUp(l) \/ InitLoop(l)
MgrNext(l) ==
    \/ MgrOnline(l)
    \/ \E s \in Services : MgrSkip(l, s) \/ MgrSpawn(l, s)
    \/ MgrHears(l) \/ MgrTimeout(l) \/ MgrFlaw(l)
    \/ MgrFabricReady(l) \/ MgrCriticalFailure(l) \/ MgrLoop(l) \/ MgrRelay(l)
ServiceNext(s, l) ==
    ServiceClaim(s, l) \/ ServiceReady(s, l) \/ Serve(s, l)

-----------------------------------------------------------------------------
Init ==
    /\ kernel = [pc |-> "notify", launch |-> 0, left |-> <<>>, outcome |-> "none",
                 report |-> Report]
    /\ pc = [i \in Instances |-> "none"]
    /\ mgr = [l \in Launches |-> Blank]
    /\ box = [c \in Chans |-> <<>>]
    /\ health = [p \in Services |-> "reserved"]
    /\ announced = {}

UserNext ==
    \E l \in Launches :
        InitNext(l) \/ MgrNext(l) \/ \E s \in Services : ServiceNext(s, l)
Next == KernelNext \/ UserNext

Spec == Init /\ [][Next]_vars

-----------------------------------------------------------------------------
(* Properties. *)

PCs == {"none", "claim", "online", "spawn", "wait", "launch", "critical",
        "relay", "loop", "dead"}
Statuses == [kind : {"ready", "degraded", "missing", "failed", "critical", "stop"},
             of : Programs]
Notes == {"Shutdown", "relayed", "fabric-ready"} \cup Services

\* Types: rings hold at most RingSize messages of their kind, a task is where
\* its program can be, and the registry holds a health for every program.
TypeOK ==
    /\ kernel \in [pc : {"idle", "notify", "spawn", "await"},
                   launch : 0 .. MaxLaunch, left : Seq(Programs), outcome : Outcomes,
                   report : [seen : SUBSET Programs, degraded : BOOLEAN, failure : BOOLEAN]]
    /\ pc \in [Instances -> PCs]
    /\ mgr \in [Launches -> [pass : {"critical", "optional"}, todo : SUBSET Services,
                             pending : SUBSET Services, flawed : BOOLEAN]]
    /\ \A c \in Chans : Len(box[c]) <= RingSize
    /\ \A c \in Programs : \A i \in 1 .. Len(box[c]) : box[c][i] \in Notes
    /\ \A i \in 1 .. Len(box["bootstrap"]) : box["bootstrap"][i] \in Statuses
    /\ health \in [Services -> Healths]
    /\ announced \subseteq Programs

\* A launch reported ready, or degraded but fit for the desktop, was earned in
\* that launch: whoever the report counts on announced itself after the drain,
\* whatever an earlier launch left in the bootstrap channel
\* (await_protected_bootstrap, is_ready, is_degraded_bootable).
OutcomeIsEarned ==
    /\ kernel.outcome = "ready" => Required \subseteq announced
    /\ kernel.outcome = "degraded" => Supervisors \cup {Compositor} \subseteq announced

\* servicemgr turns to the optional services only when every critical one of
\* its launch was spawned (launch_from_graph_manifest, critical pass first).
CoreComesFirst ==
    \A l \in Launches :
        mgr[l].pass = "optional" => \A c \in Critical : pc[<<c, l>>] # "none"

\* servicemgr never waits for ever for a service that died before it announced
\* itself: when nothing can move any more, every servicemgr has come to its main
\* loop or has exited (await_service_readiness).
ManagerSettles ==
    ~ENABLED (UserNext \/ KernelNext) =>
        \A l \in Launches : pc[<<"servicemgr", l>>] \in {"none", "loop", "dead"}

-----------------------------------------------------------------------------
(* Statements of the sources the code does not meet. *)

\* servicemgr.rs: "compositor already online; skipping duplicate launch": who
\* is skipped is running.
SkipMeansOnline ==
    [][\A l \in Launches, s \in Services :
         MgrSkip(l, s) => Active(s) \/ Idle(s)]_vars

\* servicemgr.rs: "Wait for the critical core to announce online": the
\* optional services are launched after every critical one announced itself.
CoreAnnouncedFirst ==
    \A l \in Launches :
        mgr[l].pass = "optional" =>
            \A c \in Critical : pc[<<c, l>>] \in {"loop", "dead"} /\ c \in announced
=============================================================================
