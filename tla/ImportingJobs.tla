----------------------------- MODULE ImportingJobs -----------------------------
(***************************************************************************)
(* The handlers of cleaneks_job with the imports made call by call: where  *)
(* JobResource relabels an object in one step, the handler here goes round *)
(* the loop of Import...IntoHelm (client.go), as in HelmImport, while      *)
(* other jobs and other writers change or delete the object under it.      *)
(* The handlers' own variables are those of JobResource, which this module *)
(* implements.                                                             *)
(***************************************************************************)
EXTENDS JobResource

CONSTANT MaxTries   \* retry.DefaultRetry.Steps, which is 5

ASSUME TriesAssumption == MaxTries \in Nat \ {0}

VARIABLE loop   \* the import each job is in, NoLoop if it is in none

loopVars == <<vars, loop>>

\* conflicts so far; the patched copy it asks the server to take, Absent before
\* the Get; and whether the object is still as the Get found it.
NoLoop == [conflicts |-> 0, request |-> Absent, fresh |-> FALSE]

LoopInit == Init /\ loop = [j \in Jobs |-> NoLoop]

\* The object job j is about to import.
Importing(j, k) == IsNext(j, Step("import", k))

\* The object job i imports is as the Get found it, and this step leaves it so.
AsFound(i) ==
    loop[i].fresh /\ \A k \in CoreDns : Importing(i, k) => cluster'[k] = cluster[k]

\* Job j is out of its loop.  A write makes the copies of the others stale.
Leave(j) ==
    loop' = [i \in Jobs |->
                IF i = j THEN NoLoop ELSE [loop[i] EXCEPT !.fresh = AsFound(i)]]

-----------------------------------------------------------------------------
(* The loop.                                                               *)

\* Get, then patchFunc on a deep copy.
Get(j, k) ==
    /\ Importing(j, k) /\ loop[j].request = Absent
    /\ cluster[k] # Absent /\ HelmPatch(cluster[k]) # cluster[k]
    /\ loop' = [loop EXCEPT ![j] = [@ EXCEPT !.request = HelmPatch(cluster[k]),
                                            !.fresh = TRUE]]
    /\ UNCHANGED vars

\* Nothing is left to patch: the import is done without an Update.
GetImported(j, k) ==
    /\ loop[j].request = Absent
    /\ cluster[k] # Absent /\ HelmPatch(cluster[k]) = cluster[k]
    /\ Write(j, Step("import", k), k, cluster[k])
    /\ Leave(j)

\* Mutant: the copy is sent whether it is stale or not.
ForceUpdate(j, k) ==
    /\ loop[j].request # Absent /\ cluster[k] # Absent
    /\ Write(j, Step("import", k), k, loop[j].request)
    /\ Leave(j)

\* The Update takes effect; its answer may be lost.
UpdateApplied(j, k) ==
    /\ loop[j].request # Absent /\ loop[j].fresh /\ Admissible(loop[j].request)
    /\ cluster[k] # Absent
    /\ Write(j, Step("import", k), k, loop[j].request)
    /\ Leave(j)

\* Mutants: one try too many; a conflict that is not counted.
OneMoreTry(j) == loop[j].conflicts < MaxTries

UncountedConflict(j, k) ==
    /\ Importing(j, k) /\ loop[j].request # Absent
    /\ cluster[k] # Absent /\ ~loop[j].fresh
    /\ loop' = [loop EXCEPT ![j] = NoLoop]
    /\ UNCHANGED vars

MayRetry(j) == loop[j].conflicts + 1 < MaxTries

\* The object changed since the Get.
UpdateConflict(j, k) ==
    /\ Importing(j, k) /\ loop[j].request # Absent
    /\ cluster[k] # Absent /\ ~loop[j].fresh /\ MayRetry(j)
    /\ loop' = [loop EXCEPT ![j] = [NoLoop EXCEPT !.conflicts = loop[j].conflicts + 1]]
    /\ UNCHANGED vars

\* The object is gone, the server finds the update invalid, or this was the last
\* try: the handler ends with a diagnostic.
ImportFails(j, k) ==
    /\ Importing(j, k)
    /\ \/ cluster[k] = Absent
       \/ loop[j].request # Absent /\ loop[j].fresh /\ ~Admissible(loop[j].request)
       \/ loop[j].request # Absent /\ ~loop[j].fresh /\ ~MayRetry(j)
    /\ ApiError(j)
    /\ Leave(j)

LoopStep(j) ==
    \E k \in CoreDns :
        \/ Get(j, k) \/ GetImported(j, k)
        \/ UpdateApplied(j, k) \/ UpdateConflict(j, k) \/ ImportFails(j, k)

-----------------------------------------------------------------------------
(* The handlers around it.                                                 *)

\* Every other call a handler makes.
OtherCall(j) ==
    /\ Call(j) /\ ~\E k \in CoreDns : Importing(j, k)
    /\ Leave(j)

Return(j) == StoreState(j) /\ Leave(j)

\* Terraform calls a handler, or forgets the job.
Start(j) ==
    /\ BeginCreate(j) \/ BeginUpdate(j) \/ BeginRead(j) \/ ImportState(j) \/ Delete(j)
    /\ Leave(j)

\* Any other API error, also in the loop.
Unavailable(j) == ApiError(j) /\ Leave(j)

OtherWriter ==
    /\ Drift
    /\ loop' = [i \in Jobs |-> [loop[i] EXCEPT !.fresh = AsFound(i)]]

Progress(j) == LoopStep(j) \/ OtherCall(j) \/ Return(j)

LoopNext == OtherWriter \/ \E j \in Jobs : Start(j) \/ Progress(j) \/ Unavailable(j)

\* A handler that can go on does: it is a goroutine that only waits for answers.
\* Nothing is assumed of Terraform, of other writers and of API errors.
LoopFairness == \A j \in Jobs : WF_loopVars(Progress(j))

LoopSpec == LoopInit /\ [][LoopNext]_loopVars /\ LoopFairness

-----------------------------------------------------------------------------
(* Properties.                                                             *)

\* A copy that is still fresh is of the object the job imports now, and differs
\* from it by the patch alone, whatever other jobs and other writers did.
FreshCopy(j) ==
    loop[j].fresh =>
        \E k \in CoreDns :
            /\ Importing(j, k) /\ cluster[k] # Absent
            /\ loop[j].request = HelmPatch(cluster[k])

\* The type invariant; a job that is not about to import is in no loop.
LoopTypeOK ==
    /\ TypeOK
    /\ loop \in [Jobs -> [conflicts : 0..(MaxTries - 1),
                          request : KubeObject \cup {Absent}, fresh : BOOLEAN]]
    /\ \A j \in Jobs :
          loop[j] # NoLoop => \E k \in CoreDns : Importing(j, k)

\* What holds of handlers that relabel in one step holds of these: the loop adds
\* no behaviour that a job, another job or another writer could tell apart.
ImplementsJobs == Init /\ [][Next]_vars

\* How many calls of the API the import of a job may still make.
LoopLeft(j) ==
    2 * (MaxTries - loop[j].conflicts) - (IF loop[j].request = Absent THEN 0 ELSE 1)

\* A handler never has more ahead of it than before: whatever it does next ends it,
\* takes a call off its list for good, or uses up a part of a try; and nothing that
\* other jobs and other writers do adds a call or a try.
HandlersAdvance ==
    [][\A j \in Jobs :
          job[j].op # "none" =>
             \/ job'[j].op = "none"
             \/ job'[j].todo \subseteq job[j].todo /\ job'[j].todo # job[j].todo
             \/ /\ job'[j] = job[j] /\ LoopLeft(j)' <= LoopLeft(j)
                /\ Progress(j) => LoopLeft(j)' < LoopLeft(j)]_loopVars

\* A handler that was called returns, with or without a diagnostic, even if every
\* object it imports is rewritten before each of its updates.
HandlersReturn == \A j \in Jobs : job[j].op # "none" ~> job[j].op = "none"
===============================================================================
