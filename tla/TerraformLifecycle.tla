-------------------------- MODULE TerraformLifecycle ---------------------------
(***************************************************************************)
(* Terraform applying a configuration with cleaneks_job resources again    *)
(* and again: refresh (Read), plan, and Create, Update or Delete as the    *)
(* plan has it.  The handlers are those of JobResource; this module says   *)
(* when Terraform calls which, with what settings, and what it makes of    *)
(* the answer.  terraform import is left out here.                         *)
(*                                                                         *)
(* Terraform is external.  Two of its rules matter for this resource:      *)
(* settings are planned as configured, and a handler that stores others is *)
(* an error ("inconsistent result after apply"), which makes what a Create *)
(* stored tainted: it is replaced by the next apply.                       *)
(*                                                                         *)
(* What can go wrong counts as a fault: somebody else writes the cluster,  *)
(* a call fails or loses its answer.  So does an edit of the configuration.*)
(* MaxFaults bounds them, so that every behaviour has a quiet end.         *)
(***************************************************************************)
EXTENDS JobResource

CONSTANT MaxFaults   \* the bound on faults

ASSUME FaultAssumption == MaxFaults \in Nat

VARIABLES
    config,    \* the settings each job is configured with, NoState if it is not
    phase,     \* of the command under way for each job
    tainted,   \* is what the state records of each job to be replaced
    faults     \* how many faults there have been

lifeVars == <<vars, config, phase, tainted, faults>>

LifeInit ==
    /\ Init
    /\ config \in [Jobs -> Plans]
    /\ phase = [j \in Jobs |-> "quiet"]
    /\ tainted = [j \in Jobs |-> FALSE]
    /\ faults = 0

\* The command for j goes on to phase p.
Enter(j, p) == phase' = [phase EXCEPT ![j] = p]

-----------------------------------------------------------------------------
(* terraform apply.                                                        *)

\* What is in the state is read first.
Refresh(j) ==
    /\ phase[j] = "quiet"
    /\ IF state[j] = NoState THEN Enter(j, "plan") /\ UNCHANGED vars
                             ELSE Enter(j, "refresh") /\ BeginRead(j)
    /\ UNCHANGED <<config, tainted, faults>>

Refreshed(j) ==
    /\ phase[j] = "refresh" /\ StoreState(j)
    /\ Enter(j, "plan")
    /\ UNCHANGED <<config, tainted, faults>>

\* The plan is to create the job, to update it, or to do nothing.
PlanCreate(j) ==
    /\ phase[j] = "plan" /\ config[j] # NoState
    /\ BeginCreate(j) /\ job'[j].plan = config[j]
    /\ Enter(j, "apply")
    /\ UNCHANGED <<config, tainted, faults>>

PlanUpdate(j) ==
    /\ phase[j] = "plan" /\ config[j] # NoState /\ ~tainted[j]
    /\ BeginUpdate(j) /\ job'[j].plan = config[j]
    /\ Enter(j, "apply")
    /\ UNCHANGED <<config, tainted, faults>>

\* A job that is no longer configured is destroyed; a tainted one is destroyed
\* and created again.
PlanDelete(j) ==
    /\ phase[j] = "plan" /\ (config[j] = NoState \/ tainted[j])
    /\ Delete(j)
    /\ tainted' = [tainted EXCEPT ![j] = FALSE]
    /\ UNCHANGED <<config, phase, faults>>

\* Does the state say what the configuration says.
NoDifference(j) ==
    IF config[j] = NoState THEN state[j] = NoState
    ELSE state[j] # NoState /\ state[j].settings = config[j] /\ ~tainted[j]

NoChanges(j) ==
    /\ phase[j] = "plan" /\ NoDifference(j)
    /\ Enter(j, "quiet")
    /\ UNCHANGED <<vars, config, tainted, faults>>

\* The handler has stored its result.
Applied(j) ==
    /\ phase[j] = "apply" /\ StoreState(j)
    /\ tainted' = [tainted EXCEPT ![j] =
                      job[j].op = "create" /\ state'[j].settings # config[j]]
    /\ Enter(j, "quiet")
    /\ UNCHANGED <<config, faults>>

\* The handler under way makes its next call and gets the answer.
Proceed(j) ==
    /\ Call(j) /\ job'[j].op # "none"
    /\ UNCHANGED <<config, phase, tainted, faults>>

\* An object that is to be imported is gone, or cannot be: the command fails.
Refuse(j) ==
    /\ \E k \in CoreDns : IsNext(j, Step("import", k)) /\ ~Importable(cluster[k])
    /\ ApiError(j)
    /\ Enter(j, "quiet")
    /\ UNCHANGED <<config, tainted, faults>>

Advance(j) ==
    \/ Refresh(j) \/ Refreshed(j) \/ Proceed(j) \/ Refuse(j)
    \/ PlanCreate(j) \/ PlanUpdate(j) \/ PlanDelete(j) \/ NoChanges(j) \/ Applied(j)

-----------------------------------------------------------------------------
(* Faults.                                                                 *)

Fault == faults < MaxFaults /\ faults' = faults + 1

\* A call fails, or takes effect and loses its answer: the command ends.
CallFails(j) ==
    /\ Fault
    /\ ApiError(j) \/ (Call(j) /\ job'[j].op = "none")
    /\ Enter(j, "quiet")
    /\ UNCHANGED <<config, tainted>>

EditConfig(j) ==
    /\ Fault
    /\ phase[j] = "quiet"
    /\ \E c \in (Plans \cup {NoState}) \ {config[j]} : config' = [config EXCEPT ![j] = c]
    /\ UNCHANGED <<vars, phase, tainted>>

OtherWriter ==
    /\ Fault
    /\ Drift
    /\ UNCHANGED <<config, phase, tainted>>

LifeNext ==
    \/ OtherWriter
    \/ \E j \in Jobs : Advance(j) \/ CallFails(j) \/ EditConfig(j)

\* Somebody keeps applying, and a command goes on as long as it can: a handler is
\* a goroutine that only waits for answers.  Nothing is assumed of faults.
LifeFairness == \A j \in Jobs : WF_lifeVars(Advance(j))

LifeSpec == LifeInit /\ [][LifeNext]_lifeVars /\ LifeFairness

-----------------------------------------------------------------------------
(* Properties.                                                             *)

\* The type invariant: a handler runs exactly while its command is in a phase
\* that has one, and with the settings Terraform planned.
LifeTypeOK ==
    /\ TypeOK
    /\ config \in [Jobs -> Plans \cup {NoState}]
    /\ tainted \in [Jobs -> BOOLEAN]
    /\ faults \in 0..MaxFaults
    /\ \A j \in Jobs :
          \/ phase[j] \in {"quiet", "plan"} /\ job[j].op = "none"
          \/ phase[j] = "refresh" /\ job[j].op = "read"
          \/ phase[j] = "apply" /\ job[j].op \in {"create", "update"}
                                /\ job[j].plan = config[j]

Settled(j) == NoDifference(j) /\ (config[j] # NoState => Cleaned(config[j]))

\* Once faults stop, applying the same configuration again and again ends with a
\* plan that has no changes and a cluster that is as configured, wherever the
\* faults left the state and the cluster, and stays there.
Converges == <>[] \A j \in Jobs : Settled(j)

\* Whatever failed or lost its answer before, in this command or in earlier ones,
\* a plan that shows nothing to do is right: where nobody but jobs writes, nothing
\* that is configured is left undone.
EmptyPlanIsRight ==
    [][\A j \in Jobs : NoChanges(j) /\ config[j] # NoState => Cleaned(config[j])]_lifeVars

\* Every object whose metadata is reported is Helm's or does not exist.
AllHelms == \A k \in CoreDns : ImportedIntoHelm(cluster[MarkedObject(k)]) = Marks

\* What a refresh has seen so far is in favour of the settings it was given, and
\* stays so if it finds the metadata it has not looked at yet to be Helm's.
BearsOut(r) ==
    LET marks == [k \in CoreDns |-> IF Step("imported", k) \in r.todo
                                    THEN Marks ELSE r.marks[k]]
    IN  UpdateModel([r EXCEPT !.marks = marks]).settings = r.plan

\* The job is as configured, and so is the cluster.
AtRest(j) ==
    /\ phase[j] # "apply" /\ Settled(j)
    /\ config[j] # NoState =>
          /\ config[j].importCorednsToHelm => AllHelms
          /\ phase[j] = "refresh" => BearsOut(job[j])

\* A job at rest stays there: only another writer or an edit of its configuration
\* changes that.  Refreshing it does not, a failed call does not, and no more does
\* anything other jobs do to the cluster they share with it.
RestLasts ==
    [][\A j \in Jobs :
          AtRest(j) /\ ~OtherWriter /\ config'[j] = config[j] => AtRest(j)']_lifeVars

\* One apply that ends well brings a job to rest, unless somebody else wrote while
\* its handler was running; an import does so only if there is no object that was
\* neither Amazon's nor Helm's, and a Create that leaves AWS CNI alone only where
\* there is one.
AppliedSettles ==
    [][\A j \in Jobs :
          /\ Applied(j) /\ ~touched[j]
          /\ config[j].importCorednsToHelm => AllHelms
          /\ job[j].op = "create" =>
                config[j].removeAwsCni \/ cluster["awsNode"] # Absent
          => AtRest(j)']_lifeVars

\* A plan does not call a job as configured that was undone: after a refresh nobody
\* disturbed the recorded settings are no longer the configured ones if what they
\* ask is all back, and an import was lost if any object is not Helm's.  (Only all
\* of it: the run partial_drift is about the rest.)
DriftShows ==
    [][\A j \in Jobs :
          /\ Refreshed(j) /\ ~touched[j]
          /\ config[j] # NoState /\ state'[j].settings = config[j]
          => /\ config[j].removeAwsCni => cluster["awsNode"] = Absent
             /\ config[j].removeKubeProxy =>
                   ~({"kubeProxy", "kubeProxyConfig"} \subseteq Present)
             /\ config[j].removeCoreDns => ~(CoreDns \subseteq Present)
             /\ config[j].importCorednsToHelm => AllHelms]_lifeVars
===============================================================================
