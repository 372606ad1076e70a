----------------------------- MODULE JobResource ------------------------------
(***************************************************************************)
(* The cleaneks_job resource (internal/provider/resource_job.go): the      *)
(* handlers Create, Read, Update, Delete and ImportState of any number of  *)
(* job resources that work on one EKS cluster.                             *)
(*                                                                         *)
(* A handler is a straight line of Kubernetes API calls; a call that fails *)
(* ends the run with a diagnostic and leaves the Terraform state alone.    *)
(* Other jobs and other writers of the cluster can act between two calls.  *)
(* A run is therefore the set of calls it still has to make, "todo", and   *)
(* Rank gives the order in which the handler makes them.  A call the       *)
(* handler skips because an earlier answer told it to leaves todo when     *)
(* that answer arrives.  The loops inside Import...IntoHelm are modelled   *)
(* in HelmImport, which implements the single step they are here.          *)
(*                                                                         *)
(* Terraform itself is external: it runs one handler at a time per         *)
(* resource, calls Update only when a configured attribute differs from    *)
(* the state, and stores what a handler returned only if it returned no    *)
(* error.  Host, id and the client set are in ProviderSession.             *)
(***************************************************************************)
EXTENDS KubeClient

CONSTANTS Jobs,             \* the cleaneks_job resources on this cluster
          Plans,            \* the settings their configurations may ask for
          InitialClusters,  \* the clusters the provider may find
          Drifts,           \* the <<object, value>> other writers may put
          NoState           \* a job that is not in the Terraform state

Settings == [removeAwsCni : BOOLEAN, removeKubeProxy : BOOLEAN,
             removeCoreDns : BOOLEAN, importCorednsToHelm : BOOLEAN]

Models ==
    [settings : Settings, exists : SUBSET Objects,
     marks : [CoreDns -> SUBSET Marks], ips : Seq(Address)]

Clusters == [Objects -> KubeObject \cup {Absent}]

ASSUME JobAssumption ==
    /\ NoState \notin Models
    /\ Plans \subseteq Settings
    /\ InitialClusters \subseteq Clusters
    /\ Drifts \subseteq Objects \X (KubeObject \cup {Absent})

VARIABLES
    cluster,   \* the objects of the cluster
    job,       \* the handler run of each job, Idle if there is none
    state,     \* what the Terraform state records of each job
    touched    \* history: did another writer change the cluster during the run

vars == <<cluster, job, state, touched>>

-----------------------------------------------------------------------------
(* The calls of a run.                                                     *)

Verbs == {"check", "probe", "delete", "remove", "import",
          "exists", "isAws", "imported"}

Step(verb, obj) == [verb |-> verb, obj |-> obj]

Steps == [verb : Verbs, obj : Objects]

Position == [awsNode |-> 1, kubeProxy |-> 2, kubeProxyConfig |-> 3,
             deployment |-> 1, service |-> 2, serviceAccount |-> 3,
             configMap |-> 4, kubernetes |-> 5, podDisruptionBudget |-> 6]

\* Mutant: the read-back before the writes.
PhaseReadingFirst ==
    [check |-> 4, probe |-> 2, delete |-> 3, remove |-> 5, import |-> 6,
     exists |-> 1, isAws |-> 8, imported |-> 9]

Phase == [check |-> 4, probe |-> 2, delete |-> 3, remove |-> 5, import |-> 6,
          exists |-> 7, isAws |-> 8, imported |-> 9]

\* Create and Update look at the service before anything else; Read falls back
\* on default/kubernetes between the config map and the disruption budget.
Rank(op, s) ==
    IF s = Step("check", "service") THEN 1
    ELSE 10 * (IF s.verb = "probe" /\ op \in {"read", "import"}
               THEN Phase["isAws"] ELSE Phase[s.verb]) + Position[s.obj]

\* The settings of a model whose attributes are all null (JobResource.Read).
DefaultSettings == [removeAwsCni |-> TRUE, removeKubeProxy |-> TRUE,
                    removeCoreDns |-> TRUE, importCorednsToHelm |-> FALSE]

ObserveSteps ==
    {Step("exists", o) : o \in AddOns} \cup
    {Step("isAws", k) : k \in CoreDns} \cup {Step("imported", k) : k \in CoreDns}

\* Mutant: the configuration of kube-proxy is forgotten.
DaemonsetsOnly(p) ==
    {o \in {"awsNode", "kubeProxy"} : IF o = "awsNode" THEN p.removeAwsCni
                                                      ELSE p.removeKubeProxy}

RequestedAddOns(p) ==
    {o \in AddOns : IF o = "awsNode" THEN p.removeAwsCni ELSE p.removeKubeProxy}

\* Mutant: kube-dns is taken to be there.
NoFallback == {}

\* The fallback for the addresses of kube-dns.
AddressSteps == {Step("probe", "kubernetes")}

\* With both settings on, removal wins and nothing is imported.
WriteSteps(p) ==
    {Step("check", k) : k \in IF p.removeCoreDns \/ p.importCorednsToHelm
                              THEN CoreDns ELSE {"service"}} \cup
    AddressSteps \cup
    {Step("delete", o) : o \in RequestedAddOns(p)} \cup
    {Step("remove", k) : k \in IF p.removeCoreDns THEN CoreDns ELSE {}} \cup
    {Step("import", k) : k \in IF p.importCorednsToHelm /\ ~p.removeCoreDns
                               THEN CoreDns ELSE {}} \cup
    ObserveSteps

\* Only a model without recorded addresses makes Read ask default/kubernetes.
ReadSteps(op) ==
    ObserveSteps \cup
    (IF op = "import" THEN AddressSteps ELSE {})

-----------------------------------------------------------------------------
(* What a finished run returns to Terraform.                               *)

Unseen == [k \in CoreDns |-> {}]

Idle == [op |-> "none", plan |-> DefaultSettings, todo |-> {},
         ips |-> <<>>, exists |-> {}, marks |-> Unseen]

\* Mutants: the setting says what was found, not what was asked; or only what
\* was asked.
FoundGone(asked, back) == ~back
OnlyAsked(asked, back) == asked

\* A setting stays on if it was asked for and its objects are not all (back).
StillMet(asked, back) == asked /\ ~back

UpdateModel(r) ==
    [settings |->
        [removeAwsCni    |-> StillMet(r.plan.removeAwsCni, "awsNode" \in r.exists),
         removeKubeProxy |-> StillMet(r.plan.removeKubeProxy,
                                      {"kubeProxy", "kubeProxyConfig"} \subseteq r.exists),
         removeCoreDns   |-> StillMet(r.plan.removeCoreDns, CoreDns \subseteq r.exists),
         importCorednsToHelm |-> r.plan.importCorednsToHelm /\
                                 \A k \in CoreDns : r.marks[k] = Marks],
     exists |-> r.exists,
     marks  |-> r.marks,
     ips    |-> r.ips]

\* Create reports remove_aws_cni and aws_cni_daemonset_exists differently.
CreateModel(r) ==
    [UpdateModel(r) EXCEPT
        !.settings.removeAwsCni = "awsNode" \notin r.exists,
        !.exists = IF r.plan.removeAwsCni THEN @ ELSE @ \ {"awsNode"}]

\* Mutant: a refresh that finds no address records none.
ReadModelAnew(r, old) == UpdateModel(r)

\* Read keeps the recorded addresses when the cluster has none to offer.
ReadModel(r, old) ==
    [UpdateModel(r) EXCEPT
        !.ips = IF r.ips = <<>> /\ old # NoState THEN old.ips ELSE r.ips]

-----------------------------------------------------------------------------
Init ==
    /\ cluster \in InitialClusters
    /\ job = [j \in Jobs |-> Idle]
    /\ state = [j \in Jobs |-> NoState]
    /\ touched = [j \in Jobs |-> FALSE]

(***************************************************************************)
(* Terraform calls a handler.                                              *)
(***************************************************************************)
Begin(j, op, plan, todo) ==
    /\ job[j].op = "none"
    /\ job' = [job EXCEPT ![j] = [Idle EXCEPT !.op = op, !.plan = plan, !.todo = todo]]
    /\ UNCHANGED <<cluster, state, touched>>

BeginCreate(j) ==
    /\ state[j] = NoState
    /\ \E p \in Plans : Begin(j, "create", p, WriteSteps(p))

BeginUpdate(j) ==
    /\ state[j] # NoState
    /\ \E p \in Plans \ {state[j].settings} : Begin(j, "update", p, WriteSteps(p))

\* Mutant: the recorded settings are not looked at.
BeginReadAnew(j) ==
    /\ state[j] # NoState
    /\ Begin(j, "read", DefaultSettings, ReadSteps("read"))

BeginRead(j) ==
    /\ state[j] # NoState
    /\ Begin(j, "read", state[j].settings, ReadSteps("read"))

\* terraform import: ImportState yields a model with nothing but the id, and
\* Terraform reads it before it stores anything.
ImportState(j) ==
    /\ state[j] = NoState
    /\ Begin(j, "import", DefaultSettings, ReadSteps("import"))

\* terraform destroy: the handler does nothing, Terraform forgets the resource.
Delete(j) ==
    /\ job[j].op = "none" /\ state[j] # NoState
    /\ state' = [state EXCEPT ![j] = NoState]
    /\ UNCHANGED <<cluster, job, touched>>

(***************************************************************************)
(* The calls of a run, in order.                                           *)
(***************************************************************************)
IsNext(j, s) ==
    /\ s \in job[j].todo
    /\ \A t \in job[j].todo : Rank(job[j].op, s) <= Rank(job[j].op, t)

\* A Get: the run keeps what it was told, nothing else changes.
Observed(j, s, r) ==
    /\ IsNext(j, s)
    /\ job' = [job EXCEPT ![j] = [r EXCEPT !.todo = @ \ {s}]]
    /\ UNCHANGED <<cluster, state, touched>>

\* A write by run j.  It is a disturbance to every other run, and its answer can
\* be lost: then the run ends with an error although the write took effect.
Write(j, s, o, v) ==
    /\ IsNext(j, s)
    /\ cluster' = [cluster EXCEPT ![o] = v]
    /\ \E answered \in BOOLEAN :
          /\ job' = [job EXCEPT ![j] = IF answered
                                   THEN [job[j] EXCEPT !.todo = @ \ {s}] ELSE Idle]
          /\ touched' = [i \in Jobs |->
                IF i = j THEN touched[j] /\ answered
                ELSE touched[i] \/ (job[i].op # "none" /\ cluster' # cluster)]
    /\ UNCHANGED state

\* Mutants: one object that is not Amazon's stands for all of them; an object
\* that is not Amazon's is removed all the same.
SkipAll(k) == {Step(verb, c) : verb \in {"remove", "import"}, c \in CoreDns}
SkipImport(k) == {Step("import", k)}

SkippedWith(k) == {Step("remove", k), Step("import", k)}

\* ...ExistsAndIsAwsOne before the writes.  An object that is not Amazon's is
\* neither removed nor imported later on.  The service also gives its addresses.
CheckIsAwsOne(j, k) ==
    LET ips  == IF k = "service" THEN ServiceClusterIps(cluster[k]) ELSE job[j].ips
        skip == (IF ExistsAndIsAwsOne(cluster[k]) THEN {} ELSE SkippedWith(k))
                \cup (IF ips = <<>> THEN {} ELSE AddressSteps)
    IN  Observed(j, Step("check", k),
                 [job[j] EXCEPT !.todo = @ \ skip, !.ips = ips])

\* No address for kube-dns: derive one from service default/kubernetes.
ProbeKubernetes(j) ==
    Observed(j, Step("probe", "kubernetes"),
             [job[j] EXCEPT !.ips = DnsClusterIps(ServiceClusterIps(cluster["kubernetes"]))])

\* aws-node and kube-proxy go without a look at their labels.
DeleteAddOn(j, o) == Write(j, Step("delete", o), o, Absent)

\* Deleted by name: what is there now, not what the check saw.
RemoveCoreDns(j, k) == Write(j, Step("remove", k), k, Absent)

\* A missing object and a refused update are errors.
Importable(o) ==
    o # Absent /\ (HelmPatch(o) = o \/ Admissible(HelmPatch(o)))

\* Import...IntoHelm, as the one atomic relabelling it amounts to.  If it cannot
\* be done, only ApiError can end the run.
ImportCoreDns(j, k) ==
    /\ Importable(cluster[k])
    /\ Write(j, Step("import", k), k, HelmPatch(cluster[k]))

ObserveExists(j, o) ==
    Observed(j, Step("exists", o),
             [job[j] EXCEPT !.exists = IF cluster[o] = Absent THEN @ ELSE @ \cup {o}])

\* Read takes the addresses of kube-dns from this call.
ObserveIsAws(j, k) ==
    LET reading == job[j].op \in {"read", "import"}
        ips     == IF reading /\ k = "service"
                   THEN ServiceClusterIps(cluster[k]) ELSE job[j].ips
    IN  Observed(j, Step("isAws", k),
                 [job[j] EXCEPT
                    !.exists = IF ExistsAndIsAwsOne(cluster[k]) THEN @ \cup {k} ELSE @,
                    !.ips    = ips,
                    !.todo   = IF ips = <<>> THEN @ ELSE @ \ AddressSteps])

\* The object whose metadata is reported for k: for the disruption budget all
\* three handlers ask ConfigMapImportedIntoHelm.
MarkedObject(k) == IF k = "podDisruptionBudget" THEN "configMap" ELSE k

ObserveImported(j, k) ==
    Observed(j, Step("imported", k),
             [job[j] EXCEPT !.marks[k] = ImportedIntoHelm(cluster[MarkedObject(k)])])

\* The run ends: with the model stored, or with a diagnostic and no state.
Finish(j) ==
    /\ job' = [job EXCEPT ![j] = Idle]
    /\ touched' = [touched EXCEPT ![j] = FALSE]
    /\ UNCHANGED cluster

StoreState(j) ==
    /\ job[j].op # "none" /\ job[j].todo = {}
    /\ state' = [state EXCEPT ![j] =
                    IF job[j].op = "create" THEN CreateModel(job[j])
                    ELSE IF job[j].op = "update" THEN UpdateModel(job[j])
                    ELSE ReadModel(job[j], state[j])]
    /\ Finish(j)

\* Mutant: what the run knows by then is stored together with the error.
StoresAnyway(j) ==
    /\ job[j].todo # {}
    /\ state' = [state EXCEPT ![j] = UpdateModel(job[j])]
    /\ Finish(j)

ApiError(j) ==
    /\ job[j].todo # {}
    /\ UNCHANGED state
    /\ Finish(j)

(***************************************************************************)
(* Everybody else: EKS reinstalling an add-on, Helm or Argo CD deploying a *)
(* chart, a person with kubectl.                                           *)
(***************************************************************************)
Drift ==
    \E d \in Drifts :
        /\ cluster[d[1]] # d[2]
        /\ cluster' = [cluster EXCEPT ![d[1]] = d[2]]
        /\ touched' = [j \in Jobs |-> touched[j] \/ job[j].op # "none"]
        /\ UNCHANGED <<job, state>>

Call(j) ==
    \/ ProbeKubernetes(j)
    \/ \E o \in AddOns : DeleteAddOn(j, o) \/ ObserveExists(j, o)
    \/ \E k \in CoreDns :
          \/ CheckIsAwsOne(j, k) \/ RemoveCoreDns(j, k) \/ ImportCoreDns(j, k)
          \/ ObserveIsAws(j, k)  \/ ObserveImported(j, k)

JobNext(j) ==
    \/ BeginCreate(j) \/ BeginUpdate(j) \/ BeginRead(j) \/ ImportState(j) \/ Delete(j)
    \/ Call(j) \/ StoreState(j) \/ ApiError(j)

Next == Drift \/ \E j \in Jobs : JobNext(j)

Spec == Init /\ [][Next]_vars

-----------------------------------------------------------------------------
(* Properties.                                                             *)

Runs ==
    [op : {"none", "create", "update", "read", "import"}, plan : Settings,
     todo : SUBSET Steps, ips : Seq(Address), exists : SUBSET Objects,
     marks : [CoreDns -> SUBSET Marks]]

\* The type invariant: the cluster, the runs and the Terraform state.
TypeOK ==
    /\ cluster \in Clusters
    /\ job \in [Jobs -> Runs]
    /\ state \in [Jobs -> Models \cup {NoState}]
    /\ touched \in [Jobs -> BOOLEAN]

\* A job takes away a CoreDNS object only while it is Amazon's ("We only want
\* to delete the Amazon CoreDNS and not any further deployed versions"): the
\* checks are made several calls before the deletes that rely on them.
OnlyAmazonCoreDnsRemoved ==
    [][\A k \in CoreDns :
          /\ cluster[k] # Absent /\ cluster'[k] = Absent
          /\ job' # job
          => ExistsAndIsAwsOne(cluster[k])]_vars

\* A run nobody disturbed has stored its result.
StoredUndisturbed(j, ops) ==
    StoreState(j) /\ ~touched[j] /\ job[j].op \in ops

\* What the cluster looks like to the ...Exist and ...IsAwsOne functions.
Present ==
    {o \in AddOns : cluster[o] # Absent} \cup
    {k \in CoreDns : ExistsAndIsAwsOne(cluster[k])}

\* The cluster is as the plan asks.
Cleaned(p) ==
    /\ p.removeAwsCni => cluster["awsNode"] = Absent
    /\ p.removeKubeProxy => {"kubeProxy", "kubeProxyConfig"} \cap Present = {}
    /\ p.removeCoreDns \/ p.importCorednsToHelm => CoreDns \cap Present = {}

\* A Create or Update that reports success has left nothing undone, whatever
\* an earlier, failed attempt already did: no requested add-on is left and no
\* CoreDNS object is Amazon's, unless someone else wrote during the run.
SuccessMeansCleaned ==
    [][\A j \in Jobs :
          StoredUndisturbed(j, {"create", "update"}) => Cleaned(job[j].plan)]_vars

\* The computed attributes a run stores describe the cluster as it is, unless
\* someone else wrote during the run.  Left out: the marks of the disruption
\* budget, and Create when it is told to leave AWS CNI alone, which reports the
\* daemonset as missing.
StateIsHonest ==
    [][\A j \in Jobs :
          /\ StoredUndisturbed(j, {"create", "update", "read", "import"})
          /\ job[j].op = "create" => job[j].plan.removeAwsCni
          => /\ state'[j].exists = Present
             /\ \A k \in CoreDns \ {"podDisruptionBudget"} :
                   state'[j].marks[k] = ImportedIntoHelm(cluster[k])]_vars

\* Terraform refuses a provider that stores another value than it planned.  An
\* undisturbed Create or Update stores the planned settings, provided every
\* CoreDNS object the marks are read from is Helm's by then or does not exist,
\* and that Create is not told to leave alone a daemonset that does not exist.
PlanIsKept ==
    [][\A j \in Jobs :
          /\ StoredUndisturbed(j, {"create", "update"})
          /\ job[j].plan.importCorednsToHelm =>
                \A k \in CoreDns \ {"podDisruptionBudget"} :
                   ImportedIntoHelm(cluster[k]) = Marks
          /\ job[j].op = "create" =>
                job[j].plan.removeAwsCni \/ cluster["awsNode"] # Absent
          => state'[j].settings = job[j].plan]_vars

\* A refresh that finds the cluster as the state already describes it changes
\* no setting, so that Terraform shows no difference where there is none.
RefreshIsStable ==
    [][\A j \in Jobs :
          /\ StoredUndisturbed(j, {"read"})
          /\ state[j].exists = Present
          /\ \A k \in CoreDns \ {"podDisruptionBudget"} :
                state[j].marks[k] = ImportedIntoHelm(cluster[k])
          => state'[j].settings = state[j].settings]_vars

\* The recorded addresses are the cluster's DNS addresses even if the service
\* was deleted by an attempt that failed afterwards and recorded nothing.
StoredIpsServeDns ==
    \A j \in Jobs :
        state[j] # NoState =>
            state[j].ips = DnsClusterIps(cluster["kubernetes"].ips)

\* Jobs that share a cluster nobody else writes to all get what they asked for,
\* in whatever order their calls interleave: a job that reports success has
\* left nothing behind even if other jobs removed or imported objects under it.
JobsTogetherClean ==
    [][\A j \in Jobs :
          StoreState(j) /\ job[j].op \in {"create", "update"}
          => Cleaned(job[j].plan)]_vars

\* The addresses of Amazon's DNS service, while it is there.
AmazonIps ==
    IF ExistsAndIsAwsOne(cluster["service"]) THEN cluster["service"].ips ELSE <<>>

\* "List of cluster ips of AWS CoreDNS service": what is recorded survives the
\* service.  A run nobody disturbed records the addresses of Amazon's service, or
\* has them by the time it takes that service away itself, never records nothing,
\* and a refresh that finds no service keeps what is on record.
AddressesOutliveService ==
    [][\A j \in Jobs :
          /\ StoredUndisturbed(j, {"create", "update", "read", "import"}) =>
                /\ AmazonIps # <<>> => state'[j].ips = AmazonIps
                /\ state'[j].ips # <<>>
          /\ StoredUndisturbed(j, {"read"}) /\ cluster["service"] = Absent =>
                state'[j].ips = state[j].ips
          /\ /\ job[j].op # "none" /\ ~touched[j] /\ job'[j] # job[j]
             /\ AmazonIps # <<>> /\ AmazonIps' = <<>>
             => job[j].ips = AmazonIps]_vars

(***************************************************************************)
(* What the documentation promises and the handlers do not keep.           *)
(***************************************************************************)

\* "By importing CoreDNS into Helm, we don't loose DNS at any point": a job
\* told to import CoreDNS never takes its deployment or its service away.
ImportNeverDropsDns ==
    [][\A j \in Jobs, k \in {"deployment", "service"} :
          /\ job[j].op \in {"create", "update"} /\ job[j].plan.importCorednsToHelm
          /\ job'[j] # job[j] /\ cluster[k] # Absent
          => cluster'[k] # Absent]_vars

\* coredns_pod_disruption_budget_label_...: nobody disturbs the run, so what it
\* says of the disruption budget's metadata should be so.
BudgetMarksAreReported ==
    [][\A j \in Jobs :
          StoredUndisturbed(j, {"create", "update", "read", "import"})
          => state'[j].marks["podDisruptionBudget"]
                = ImportedIntoHelm(cluster["podDisruptionBudget"])]_vars
===============================================================================
