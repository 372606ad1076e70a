------------------------------ MODULE HelmImport ------------------------------
(***************************************************************************)
(* Import...IntoHelm of internal/provider/client.go, call by call: get the *)
(* object, relabel a copy, update, and start again when the update is      *)
(* refused because the object changed in between (RetryOnConflict with     *)
(* DefaultRetry, at most MaxTries attempts).  Any number of clients and    *)
(* other writers work on the same object.                                  *)
(*                                                                         *)
(* The API server is external.  Every write gives the object a             *)
(* resourceVersion it never had before and an update that does not carry   *)
(* the current one is refused, so of the version only this matters:        *)
(* "fresh", whether anything was written since the client's Get.           *)
(***************************************************************************)
EXTENDS KubeClient

CONSTANTS Clients,   \* the callers of Import...IntoHelm
          Values,    \* what the object may be found as, or made by others
          MaxTries   \* retry.DefaultRetry.Steps, which is 5

ASSUME ImportAssumption ==
    /\ Values \subseteq KubeObject \cup {Absent}
    /\ MaxTries \in Nat \ {0}

VARIABLES object,    \* the object in the cluster
          client     \* the call each client is in

vars == <<object, client>>

NoRequest == Absent

Init ==
    /\ object \in Values
    /\ client = [c \in Clients |->
                    [pc |-> "idle", tries |-> 0, request |-> NoRequest, fresh |-> FALSE]]

\* Leave the loop with answer a, or go round it again.
Return(c, a) ==
    client' = [client EXCEPT ![c] =
                  [pc |-> a, tries |-> 0, request |-> NoRequest, fresh |-> FALSE]]

\* A write makes every copy of the object stale.
Written == [d \in Clients |-> [client[d] EXCEPT !.fresh = FALSE]]

Call(c) ==
    /\ client[c].pc \in {"idle", "ok", "failed"}
    /\ client' = [client EXCEPT ![c] = [@ EXCEPT !.pc = "get", !.tries = 1]]
    /\ UNCHANGED object

\* Get, then patchFunc on a deep copy.  Not found is not a conflict: no retry.
Get(c) ==
    /\ client[c].pc = "get"
    /\ IF object = Absent THEN Return(c, "failed")
       ELSE IF HelmPatch(object) = object THEN Return(c, "ok")
       ELSE client' = [client EXCEPT ![c] =
                          [@ EXCEPT !.pc = "update", !.fresh = TRUE,
                                    !.request = HelmPatch(object)]]
    /\ UNCHANGED object

\* Mutants: one try too many; after a conflict the same copy is sent again under
\* the new resourceVersion.
OneMore(c) == client[c].tries > MaxTries

ForceUpdate(c) ==
    /\ client[c].pc = "update" /\ object # Absent /\ ~client[c].fresh
    /\ client' = [client EXCEPT ![c] = [@ EXCEPT !.fresh = TRUE]]
    /\ UNCHANGED object

Exhausted(c) == client[c].tries = MaxTries

\* The server refuses the update because the object changed since the Get.
UpdateConflict(c) ==
    /\ client[c].pc = "update" /\ object # Absent /\ ~client[c].fresh
    /\ IF Exhausted(c)
       THEN Return(c, "failed")
       ELSE client' = [client EXCEPT ![c] =
                          [client[c] EXCEPT !.pc = "get", !.tries = @ + 1, !.request = NoRequest]]
    /\ UNCHANGED object

\* Mutant: every refusal is retried, and none is counted.
RetryAnyError(c) ==
    /\ client[c].pc = "update"
    /\ object = Absent \/ (client[c].fresh /\ ~Admissible(client[c].request))
    /\ client' = [client EXCEPT ![c] =
                     [@ EXCEPT !.pc = "get", !.request = NoRequest, !.fresh = FALSE]]
    /\ UNCHANGED object

\* The object is gone, or the server finds the update invalid: no retry.
UpdateRejected(c) ==
    /\ client[c].pc = "update"
    /\ object = Absent \/ (client[c].fresh /\ ~Admissible(client[c].request))
    /\ Return(c, "failed")
    /\ UNCHANGED object

\* The update takes effect; its answer may be lost on the way back.
UpdateApplied(c) ==
    /\ client[c].pc = "update" /\ object # Absent
    /\ client[c].fresh /\ Admissible(client[c].request)
    /\ object' = client[c].request
    /\ \E answer \in {"ok", "failed"} :
          client' = [Written EXCEPT ![c] =
              [pc |-> answer, tries |-> 0, request |-> NoRequest, fresh |-> FALSE]]

\* Any other API error, without effect.
Unavailable(c) ==
    /\ client[c].pc \in {"get", "update"}
    /\ Return(c, "failed")
    /\ UNCHANGED object

OtherWrite ==
    /\ object' \in Values \ {object}
    /\ client' = Written

Running(c) == Get(c) \/ UpdateConflict(c) \/ UpdateRejected(c) \/ UpdateApplied(c)

Next == OtherWrite \/ \E c \in Clients : Call(c) \/ Running(c) \/ Unavailable(c)

\* A call that can go on does: it runs in a goroutine that only waits for answers.
Fairness == \A c \in Clients : WF_vars(Running(c))

Spec == Init /\ [][Next]_vars

FairSpec == Spec /\ Fairness

-----------------------------------------------------------------------------
(* Properties.                                                             *)

Calls == [pc : {"idle", "get", "update", "ok", "failed"}, tries : 0..MaxTries,
          request : KubeObject \cup {Absent}, fresh : BOOLEAN]

\* The type invariant.
TypeOK ==
    /\ object \in KubeObject \cup {Absent}
    /\ client \in [Clients -> Calls]

\* A copy that is still fresh differs from the object by the patch and nothing
\* else, however many writers there are.
FreshRequest ==
    \A c \in Clients :
        client[c].fresh =>
            /\ client[c].pc = "update" /\ object # Absent
            /\ client[c].request = HelmPatch(object)

outcome == [c \in Clients |-> IF client[c].pc \in {"get", "update"}
                              THEN "pending" ELSE client[c].pc]

Atomic == INSTANCE AtomicImport WITH object <- object, outcome <- outcome

\* The loop of get, patch and update relabels the object at one instant: no
\* change another writer made is overwritten, no deleted object comes back.
ImplementsAtomicImport == Atomic!Spec

\* How many calls of the API a client may still make: a Get and an Update for each
\* try that is left.
CallsLeft(c) ==
    IF client[c].pc \notin {"get", "update"} THEN 0
    ELSE 2 * (MaxTries - client[c].tries) + (IF client[c].pc = "get" THEN 2 ELSE 1)

\* An import makes two calls of the API a try and no more, and uses one up whenever
\* it goes on: no other client and no other writer gives it new ones by changing
\* the object under it.
CallsRunOut ==
    [][\A c \in Clients :
          /\ Call(c) => CallsLeft(c)' = 2 * MaxTries
          /\ ~Call(c) => CallsLeft(c)' <= CallsLeft(c)
          /\ Running(c) => CallsLeft(c)' < CallsLeft(c)]_vars

\* A call returns, even if the object changes before each of its updates.
CallReturns ==
    \A c \in Clients :
        client[c].pc \in {"get", "update"} ~> client[c].pc \in {"ok", "failed"}
===============================================================================
