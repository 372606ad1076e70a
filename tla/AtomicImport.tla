----------------------------- MODULE AtomicImport -----------------------------
(***************************************************************************)
(* What Import...IntoHelm of client.go promises about one object: a call   *)
(* relabels the object as it is at one instant of the call, and nothing    *)
(* else about it, or fails.  A failed call has no effect, unless it failed *)
(* because the answer to its update never came.                            *)
(***************************************************************************)
EXTENDS KubeClient

CONSTANTS Clients,   \* the callers of Import...IntoHelm
          Values     \* what the object may be found as, or made by others

VARIABLES object,    \* the object in the cluster
          outcome    \* of each client's last call

vars == <<object, outcome>>

Outcomes == {"idle", "pending", "ok", "failed"}

TypeOK ==
    /\ object \in KubeObject \cup {Absent}
    /\ outcome \in [Clients -> Outcomes]

Init ==
    /\ object \in Values
    /\ outcome = [c \in Clients |-> "idle"]

Call(c) ==
    /\ outcome[c] # "pending"
    /\ outcome' = [outcome EXCEPT ![c] = "pending"]
    /\ UNCHANGED object

\* The object keeps everything but the five entries that make it Helm's.
Import(c) ==
    /\ outcome[c] = "pending"
    /\ object # Absent
    /\ HelmPatch(object) = object \/ Admissible(HelmPatch(object))
    /\ object' = HelmPatch(object)
    /\ \E answer \in {"ok", "failed"} : outcome' = [outcome EXCEPT ![c] = answer]

Fail(c) ==
    /\ outcome[c] = "pending"
    /\ outcome' = [outcome EXCEPT ![c] = "failed"]
    /\ UNCHANGED object

OtherWrite ==
    /\ object' \in Values
    /\ UNCHANGED outcome

Next == OtherWrite \/ \E c \in Clients : Call(c) \/ Import(c) \/ Fail(c)

Spec == Init /\ [][Next]_vars
===============================================================================
