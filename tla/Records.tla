------------------------------ MODULE Records ------------------------------
(***************************************************************************)
(* What the metadata store promises the file system above it: a map from   *)
(* keys to values in which a put takes effect entirely or not at all.  A   *)
(* put reported ok has taken effect; one that failed, or that a crash cut  *)
(* off, either has or has not; nothing but a put changes a value.  Blocks, *)
(* the superblock and sequence numbers are the business of Store.          *)
(***************************************************************************)
CONSTANTS Keys, Values, Tasks, Absent, Nothing

VARIABLES
    value,      \* what a get of each key answers, Absent for an unknown key
    asked,      \* the put each task is in, or Nothing
    answer      \* "none", "ok" or "failed": the answer to each task's last put

vars == <<value, asked, answer>>

Init ==
    /\ value = [k \in Keys |-> Absent]
    /\ asked = [t \in Tasks |-> Nothing]
    /\ answer = [t \in Tasks |-> "none"]

Begin(t, k, v) ==
    /\ asked[t] = Nothing
    /\ asked' = [asked EXCEPT ![t] = [key |-> k, val |-> v]]
    /\ answer' = [answer EXCEPT ![t] = "none"]
    /\ UNCHANGED value

(* The put of t ends; only a failed one may have left no trace. *)
Finish(t, stored, ok) ==
    /\ asked[t] # Nothing
    /\ ok => stored
    /\ value' = IF stored THEN [value EXCEPT ![asked[t].key] = asked[t].val] ELSE value
    /\ asked' = [asked EXCEPT ![t] = Nothing]
    /\ answer' = [answer EXCEPT ![t] = IF ok THEN "ok" ELSE "failed"]

(* The machine stops: every put under way is dropped. *)
Crash ==
    /\ asked' = [t \in Tasks |-> Nothing]
    /\ answer' = [t \in Tasks |-> "none"]
    /\ UNCHANGED value

Next ==
    \/ \E t \in Tasks : \E k \in Keys, v \in Values : Begin(t, k, v)
    \/ \E t \in Tasks : \E stored, ok \in BOOLEAN : Finish(t, stored, ok)
    \/ Crash

Spec == Init /\ [][Next]_vars
=============================================================================
