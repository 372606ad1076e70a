# Verification of terraform-provider-cleaneks

TLA+ models of the Terraform provider in `src/internal/provider`, the TLC runs
that check them on small instances, and TLAPS proofs of what holds for every
instance. `PROJECT.json` lists the components, the runs, the lines of code each
definition stands for, the hazards and the theorems.

    tlc -config JobAlone.cfg MCJobs        # one run
    tlapm JobResourceProofs.tla            # one module of proofs

Code is cited by file and line; in tables `R` is `resource_job.go`, `C` is
`client.go` and `PC` is `provider_configure.go`, all in `src/internal/provider`.

## 1. The system

The provider has one resource, `cleaneks_job`. Applying it takes the add-ons EKS
preinstalls off a cluster (AWS CNI, kube-proxy, CoreDNS), or hands CoreDNS over
to Helm by relabelling its five objects. Terraform calls Create, Read, Update,
Delete and ImportState over gRPC; each is a straight line of Kubernetes API
calls, and each call can fail and end the handler.

| Component | State it keeps | Operations | Code |
|---|---|---|---|
| Kubernetes object helpers | none (the cluster's objects) | `...Exist`, `...ExistsAndIsAwsOne`, `Delete...`, `...ImportedIntoHelm` | `client.go` 26-501 |
| Import into Helm | a copy of one object during a call | `Import...IntoHelm` | `client.go` 503-824 |
| `cleaneks_job` resource | four settings and 29 computed attributes, kept by Terraform | Create, Read, Update, Delete, ImportState | `resource_job.go` 302-1666 |
| Terraform (external) | configuration, plan, state | refresh, plan, apply, import, destroy | - |
| Provider session | the provider model, a cached client set | `Configure`, `GetClientSet` | `provider.go` 272-285, `provider_configure.go` 23-100, `resource_job.go` 343-400 |
| Client configuration | none | `newKubernetesClientConfig` | `provider_configure.go` 102-233 |
| Schemas, defaults, conversions | none | `Schema`, `EnvDefault...`, `conversion.go` | `provider.go`, `resource_job.go` 82-300, `*_env_defaults.go` |
| Entry point | none | `main` | `main.go` |

**How they interact.** Terraform holds what a handler returned and passes it to
the next one. All handlers of all jobs share one provider object (its client
set, host and `insecure`), without a lock. Handlers and everybody else who may
write the cluster (EKS, Helm, Argo CD, people) share the objects of the
cluster; the API server is the only thing that orders their calls.

**What is hard.**

- *Check, then act.* Create and Update ask whether five objects are Amazon's and
  delete or relabel them, by name, several calls later.
- *Partial failure.* Any of up to eight writes can fail, or take effect and lose
  its answer; nothing is stored then, and the next attempt meets a half-cleaned
  cluster, without the service whose addresses it has to record.
- *Several actors.* Jobs and other writers act between any two calls.
- *Read-back.* The state is assembled from thirteen Gets, two per CoreDNS object,
  in code that three handlers repeat by hand.
- *Terraform's contract.* An apply must store the settings that were planned; a
  refresh must not change them without reason.
- *Optimistic concurrency.* An import retries on conflict, at most five times.
- *A shared, lazily made client.* The host may be unknown when a plan is made;
  a Read then puts its own id in its place, for all resources, in a data race.
- *Convergence.* Whatever failed, the next refresh and plan have to find out what
  is left to do, from settings that Read itself rewrites.

**What makes each component correct.**

- Import into Helm: no change of another writer is lost, no deleted object comes
  back, success means that the object was relabelled, every call returns.
- `cleaneks_job`: success means that what was asked is done; only Amazon's
  CoreDNS is removed; what is stored describes the cluster; the recorded
  addresses are those of the cluster's DNS even after failed attempts; planned
  settings are kept; a refresh is stable; no job leaves behind what another was asked to clean.
- Provider session: all handlers talk to the configured cluster, or while it is unknown to the
  one their job was applied to, and store the host they talked to.
- Terraform's loop: applying the same configuration again and again converges, and a plan
  without changes means that what is configured is done.

## 2. The modules

| Module | Models | Extends |
|---|---|---|
| `KubeClient` | objects, and what `client.go` computes from one API answer | - |
| `JobResource` | the handlers, call by call, for any number of jobs | `KubeClient` |
| `MCJobs` | clusters, settings and drifts for TLC | `JobResource` |
| `JobResourceProofs` | proofs: types, cleaning, removal | `JobResource` |
| `JobStateProofs` | proofs: what the state says | `JobResourceProofs` |
| `AddressProofs` | proofs: the recorded addresses | `JobStateProofs` |
| `AtomicImport` | what an import promises | `KubeClient` |
| `HelmImport` | the retry loop; implements `AtomicImport` | `KubeClient` |
| `MCImport`, `HelmImportProofs` | objects for TLC; proofs | `HelmImport` |
| `ImportingJobs` | the handlers with that loop inside; implements `JobResource` | `JobResource` |
| `MCImporting`, `ImportingProofs` | clusters for TLC; proofs | `ImportingJobs` (the proofs `AddressProofs` too) |
| `TerraformLifecycle` | refresh, plan, apply, again and again, around the handlers | `JobResource` |
| `MCLifecycle`, `LifecycleProofs` | settings and faults for TLC; proofs | `TerraformLifecycle` (the proofs `AddressProofs` too) |
| `ClientConfig` | which server a client made from the settings talks to | - |
| `ProviderSession` | the provider object and the concurrent handlers that share it | `ClientConfig` |
| `MCSession`, `ProviderSessionProofs` | servers, files and configurations for TLC; proofs | `ProviderSession` |

**KubeClient.** An object is the metadata the provider looks at: which Helm
annotations have the required value, which labels it has, for a deployment the
labels of the pod template and of the selector, for a service its addresses. A
wrong annotation value counts as missing, as in the code. An address is a network
and the number in its last segment, the only part the code replaces (by `.10` or
`:a`, both the number ten). Helpers that `client.go` repeats for five kinds are one operator here;
`ServiceClusterIps` keeps the service's early return for an object without labels.

**JobResource.** `job[j]` is the handler run of job `j`: the operation, its
settings, the set `todo` of calls still to be made, and what the calls answered
so far. `Rank` is the order in which the handler makes them: `IsNext(j, s)` says
that `s` is the first of `todo`. A call that an earlier answer makes
superfluous leaves `todo` with that answer. So `BeginCreate`, `BeginUpdate`,
`BeginRead` and `ImportState` choose the calls (the `if removeAwsCni ...` of the
code), each call is one action, and `StoreState` is `res.State.Set`:

| Action | Code in Create (Update and Read have the same text elsewhere) |
|---|---|
| `CheckIsAwsOne` | service 424-432, the others 495-534 |
| `ProbeKubernetes` | 434-460; Read makes it between config map and disruption budget, 1010-1036 |
| `DeleteAddOn` | 462-493 |
| `RemoveCoreDns` | 536-590 |
| `ImportCoreDns` | 591-646, as one atomic step: `ImportingJobs` shows that this is enough |
| `ObserveExists`, `ObserveIsAws` | 651-735 |
| `ObserveImported` | 737-804; the disruption budget's marks come from the config map (792) |
| `StoreState` | 806-826, `CreateModel`, `UpdateModel` and `ReadModel` for the three handlers' differences |
| `ApiError` | every `res.Diagnostics.AddError(...); return` |

`Write` also covers the lost answer: the write took effect, the run ends with an
error. `touched[j]` is a history variable: whether anybody else changed the
cluster during the run. `Drift` is everybody else.

**HelmImport.** One call of `Import...IntoHelm` per client. The server's
resourceVersion is reduced to `fresh`: whether nothing was written since the
client's Get. A conflict goes back to the Get, at most `MaxTries` times;
not found, invalid and other errors are not retried.

**ImportingJobs** puts that loop into the handlers. `loop[j]` is the import job
`j` is in: the conflicts so far, the patched copy it is about to send, and whether
the object is as the Get found it. `Get` and `UpdateConflict` change nothing that
`JobResource` speaks of; `GetImported`, `UpdateApplied` and `ImportFails` are one of
its steps. Every step that writes an object makes the copies others hold of it
stale (`Leave`, `AsFound`). The refinement mapping is the identity on the handlers' variables.

**TerraformLifecycle** is Terraform as far as the handlers depend on it. `phase[j]` says how
far the command for job `j` has come: `Refresh` starts Read for a job that has a state,
then the plan is one of `PlanCreate`, `PlanUpdate`, `PlanDelete` and `NoChanges`, and
`Applied` compares what was stored with `config[j]`: after a Create, other settings
taint the job, and the next plan replaces it. `Proceed` is any call of `JobResource`
in between. Faults are failing calls and lost answers (`CallFails`), other writers
and edits of the configuration; an import that cannot succeed is none (`Refuse`).

**ClientConfig** is `newKubernetesClientConfig` as a function: from `config_path`,
`config_paths`, `KUBE_CONFIG_PATHS`, the context, the cluster and the host to a server,
`ErrEmptyConfig` or another error. What `clientcmd` makes of several files (the first
that says something wins, missing ones are skipped, a single one must be there, a
static
host overrides them) belongs to k8s.io/client-go: external, modelled as the code uses it. Three error
returns are left out, of a path or a host that cannot be parsed (PC 121-124, 180-182) and of
`NewForConfig`: like the errors that are there they end the call without a client set.

**ProviderSession.** `model` and `clientSet` are the fields of the one provider, `run[j]`
the handler run of job `j`, `id[j]` the host Terraform has on record for it.

| Action | Code |
|---|---|
| `Configure` | PC 23-100: a client set that is there is kept |
| `CheckHost`, `AdoptPart` | R 345-347, 848-849 and their copy in Update: an unknown host becomes the id |
| `UseCached`, `Connect`, `Cache` | `GetClientSet`, `provider.go` 272-285 |
| `EmptyConfig` | Read's warning, R 895-905, and the errors of the others |
| `Store` | `model.ID = Host`, when the handler stores its result |

`Host` is a struct of a flag and a string that other goroutines read without a lock. `AdoptPart`
writes the two in either order, with steps of others in between; that is the data race's outcome the
property is about. `Persistent` says whether the process stays for several commands
(`-debug`). Jobs may be on record with different hosts: a command whose plan was made while the host
was unknown does not read again the jobs it leaves alone, and one that fails leaves the rest.
What the handler does with the cluster between `UseCached` and `Store` is `JobResource`.

## 3. What the runs check

| Run | Expect | Properties | Shows |
|---|---|---|---|
| `job_alone` | pass | `TypeOK`, `SuccessMeansCleaned`, `StateIsHonest`, `PlanIsKept`, `RefreshIsStable`, `AddressesOutliveService`, `OnlyAmazonCoreDnsRemoved` | one job through any sequence of handlers, failures and lost answers |
| `jobs_together` | pass | `StoredIpsServeDns`, `JobsTogetherClean`, `EmptyPlanIsRight`, `RestLasts`, `Converges` | a removing and an importing job applied at the same time, call by call: nothing of Amazon's is left where either reports success or has nothing to do, and neither puts the other to work again |
| `import_loop` | pass | `TypeOK`, `FreshRequest`, `ImplementsAtomicImport`, `CallsRunOut`, `CallReturns` | the retry loop is one atomic relabelling, nobody can prolong it, and it ends |
| `importing_alone` | pass | `LoopTypeOK`, `ImplementsJobs`, `HandlersAdvance`, `HandlersReturn` | a handler with the loop inside is one of `JobResource`, only gets nearer to its end, and returns |
| `lifecycle` | pass | `LifeTypeOK`, `Converges`, `RestLasts`, `AppliedSettles`, `DriftShows` | one undisturbed apply settles a job, it stays so until somebody else writes, what is undone shows in the next plan, and applying again and again ends, whatever went wrong before |
| `session_shared` | pass | `TypeOK`, `ConfiguredHost`, `HostStaysOnRecord` | two concurrent jobs talk to the configured server while the cluster moves, and while it is unknown no handler stores a host that is on nobody's record |
| `handover_race` | violation | `OnlyAmazonCoreDnsRemoved` | an object replaced between check and delete is deleted |
| `import_example` | violation | `ImportNeverDropsDns` | the documented import deletes CoreDNS |
| `budget_marks` | violation | `BudgetMarksAreReported` | the budget's attributes describe the config map |
| `partial_drift` | violation | `Converges` | a kube-proxy daemonset that comes back without its config map stays for ever |
| `session_ids` | violation | `IdIsHost` | while the host is unknown, a job is read from another job's host, and recorded with it |
| `session_torn` | violation | `UnknownHostIsNoError` | a refresh fails because another one is filling in the host |

`AtRest(j)` is what the lifecycle is about: the recorded settings are the configured ones, what is configured to be
imported is Helm's, and a refresh under way has seen nothing that speaks against it. It is more than the
absence of changes in a plan, which another job's or a failed command's calls could end.

What `jobs_together` does not show: that an imported CoreDNS survives a job that removes it. A remover
whose checks came first still deletes what the importer has just relabelled. An object that does not
exist counts as cleaned (`Cleaned`) and as Helm's (`AllHelms`), in the code as here: its
`...ImportedIntoHelm` answers `true` "as Helm chart can be deployed". The deletion itself is the race of
`handover_race`.

Each violated property states what the documentation or a comment says; the
finding in `PROJECT.json` quotes it. The configuration of a run has its name,
in capitals (`job_alone`: `JobAlone.cfg`).

**Bounds.** *JobAlone*: one job; the cluster EKS hands out, or one without add-ons where
a person runs a `kube-dns` without labels; four settings (the documented example, whose calls are those of the
defaults, an import, a job that keeps AWS CNI, one that does nothing); at any moment EKS can bring `aws-node` back, or the DNS
service at the usual address instead of the one the cluster had. The constraint `DisturbedWhileRemoving`
cuts a behaviour when somebody else writes during a run, unless the run still has a CoreDNS object to
remove: most properties say nothing about disturbed runs, `OnlyAmazonCoreDnsRemoved` does, and the theorems below
need no such constraint. One job is enough for them because another job only counts as another writer.
*JobsTogether*: two jobs, CoreDNS reduced to deployment and service
and kube-proxy to its daemonset: two objects are enough for a check of one to lie
between check and write of the other. It has two faults, failing calls or edits, one of which may turn
the remover into an importer or the reverse. *ImportLoop*: two clients and other writers,
six values of the object, and the real five attempts. *ImportingAlone*: one job, five
attempts, a deployment that others label, take over, delete and bring back, or whose selector
forbids the relabelling; other writers are enough to make every copy stale, so a second job is left
to the proof. *Lifecycle*: one job, three faults at any point (`MaxFaults`, in the guard
`Fault`: the only bound inside an action): enough for an edit, a failing call and a drift to meet in
one command. *SessionShared*: two servers, two jobs, nine configurations: with and
without files, a missing file, a missing context, and an unknown host. *SessionIds*, *SessionTorn*: the same without files.

**Where it does not converge.** *Lifecycle* leaves out four cases:

- a drift that brings back only one of several objects, which no plan notices: `partial_drift`;
- `remove_aws_cni = false` on a cluster without AWS CNI: row R 661 below;
- an import where an object is neither Amazon's nor Helm's, such as a `kube-dns` somebody deployed by
  hand: it is not imported, its marks are read all the same, and every apply stores `import_coredns_to_helm =
  false`, which Terraform refuses (`AppliedSettles` and `PlanIsKept` exclude the case by name);
- an import of a deployment whose selector names Amazon's label: row C 541 below, the command fails
  each time.

**Fairness.** `import_loop`: weak fairness of `Running(c)`; `importing_alone`: of
`Progress(j)`. A call runs in the goroutine of its handler and only waits for the
API server, so one that can go on does. The `lifecycle` runs assume weak
fairness of `Advance(j)`: somebody keeps applying. Nothing is assumed
of other writers, of edits, of errors, or (outside the lifecycle) of new calls.
Safety runs have none.

**Deadlock** is checked in every run: a job can always be created, read or
destroyed, and a run with calls left can always fail.

**Deviations without a run of their own.** Plain slips, or behaviour under assumptions the passing
runs exclude. Each can be seen by changing one run as stated:

| Code | What it does | To see it |
|---|---|---|
| R 659 | Create stores `removeAwsCni && exists` for `aws_cni_daemonset_exists`, so it denies a daemonset it was told to keep (`docs/resources/job.md` 56) | drop the exception in `StateIsHonest` |
| R 661 | `remove_aws_cni = false` on a cluster without AWS CNI: Create stores `true`, Terraform taints and replaces the job, every time | *Lifecycle*: `Plans <- KeepCniPlans`, `InitialClusters <- EmptyClusters`, `Drifts <- NoDrifts` violates `Converges` |
| C 541 | the pod label is taken off though the selector names it (the comment at 562 says it is not); the update is refused | `ImportFails` in *ImportingAlone* |
| C 133, R 982 | the recorded addresses are those of any labelled service, a chart's too (`job.md` 61: "of the AWS CoreDNS service") | *JobAlone*: in `AddressesOutliveService`, `~ExistsAndIsAwsOne(cluster["service"])` for `cluster["service"] = Absent` |
| PC 78 | a process that stays keeps the client set of its first configuration | *SessionShared*: `Persistent = TRUE`, `Configs <- PlainConfigs` violates `ConfiguredHost` |
| R 849, R 821 | a handler stores the host it finds by the end, which another handler can have changed since it got its client set | *SessionIds*, with `IdNamesCluster` of `ProviderSessionProofs` as the property |
| PC 78, R 849 | a kubeconfig file read while the host is unknown wins over the recorded id | *SessionShared*: `Configs <- FileConfigs` violates `HostStaysOnRecord` |

## 4. What is proved

All proofs hold for every value of the constants: any number of jobs, any settings,
any initial clusters, any drift, any number of tries and faults, any configurations
and files. The assumptions are those the modules name: `Absent` is no object, `NoState` no
state and no settings, and settings, clusters, drifts, configurations and files have their types.
Further assumptions are premises of the theorem, and each is needed:

| Premise | Says | Without it |
|---|---|---|
| `Drifts = {}` | nobody else writes the cluster | what was removed is simply put back |
| `NoHandover` | no job imports, others only delete CoreDNS objects or put Amazon's | `handover_race` |
| `NoContradiction` | no configuration asks to remove what it asks to import | `import_example` |
| `OneAtATime` | one handler at a time, as with `terraform apply -parallelism=1` | `session_torn`, `session_ids` |
| `~Persistent` | a process for each command | row PC 78 of the table above |
| `NoStrayFile` | no kubeconfig file can be read while the host is unknown | last row of the table above |
| `OneDnsAddress` | `default/kubernetes` always leads to one DNS address, and every DNS service, labelled or not, is given it | another address is recorded, row C 133 of the table above |
| `KubernetesAnswers` | `default/kubernetes` exists and has an address, always | a run that has to fall back on it records no address at all |

**Handlers** (`JobResourceProofs`)

- `TypeCorrect`: the types, `Spec => []TypeOK`; so in every module.
- `CleanSuccess`: `Spec => SuccessMeansCleaned`. The property alone is not
  inductive: that a finished run has cleaned depends on what every call did.
  `CleaningInv` says, of each Create or Update, that an object still to be checked
  is still to be removed or imported (`StillChosen`), and, unless somebody else
  wrote, that each deletion no longer in `todo` is done and each CoreDNS object
  with no call left is not Amazon's (`WorkDone`). When `todo` is empty the latter is
  the property. The steps of a run are first reduced to three shapes (`CallShapes`:
  a call looks, checks or writes), then each shape keeps the invariant.
- `CleanTogether`: with `Drifts = {}`, `Spec => JobsTogetherClean`. The same
  invariant: no call of any job brings an object back or makes it Amazon's
  (`CallCleans`), so another job cannot undo `WorkDone`.
- `OnlyAmazonRemoved`: under `NoHandover` (no job imports, other writers only
  delete CoreDNS objects or put Amazon's), `Spec => OnlyAmazonCoreDnsRemoved`, from
  the inductive `RemovalInv` (`ChecksHold`): an object still to be removed is still
  to be checked, or is gone, or is Amazon's. `handover_race` shows that the
  assumption on the other writers is needed.
- `RunsAsPlanned`: a run that writes works on configured settings and has no call ahead that
  its handler does not make for them (`PlannedInv`). From it, `ImportKeepsDns`: under `NoContradiction`,
  `Spec => ImportNeverDropsDns`. The documentation's promise, broken by its own example, holds
  for whoever also turns `remove_core_dns` off.

**What the state says** (`JobStateProofs`)

- `IpsServeDns`: under `OneDnsAddress` (the DNS service, initially and as drifts put it, has the address that
  `default/kubernetes` leads to, and no drift writes `default/kubernetes`), `Spec => []StoredIpsServeDns`, from
  `AddressInvariant`: a run holds this address or has still to ask for it. A service without labels
  is held to it too: the code reports no addresses of it, but an import that finds it in the place of the one
  it checked labels it.
- `HonestState`: `Spec => StateIsHonest`. `SeenInv`: what a run has observed is still
  so until somebody else writes, since its own writes come first (`LooksLast`).
- `StableRefresh`: `Spec => RefreshIsStable`. Two facts meet: every recorded
  state fits together (`StateInv`: its settings do not contradict what it says is there), and a Read
  starts from the recorded settings (`ReadInv`).
- `PlanKept`: `Spec => PlanIsKept`, from what is proved of cleaning and of observing.
- `AddressesOutlive` (`AddressProofs`): under `KubernetesAnswers`, `Spec => AddressesOutliveService`, for
  any services whatever. The inductive `FollowInv` says that a run without an address is still to ask
  `default/kubernetes`, and that an undisturbed run which has asked the DNS service holds what it offered,
  and takes the service away or imports it only then (`TakerKnows`). That the check comes
  before the removal, and the look of a refresh before the fallback, is what carries it; the import is what is
  not obvious: it changes the labels on which it depends whether a service tells its addresses.

**Imports** (`HelmImportProofs`, `ImportingProofs`)

- `FreshCopies`: `Spec => []FreshRequest`; `LoopIsAtomic`: `Spec => ImplementsAtomicImport`,
  every step of the loop maps to a step of `AtomicImport` or to a stutter, with
  `outcome` as the refinement mapping; `FreshRequest` makes an applied update an
  atomic relabelling.
- `CallsAreBounded`: `Spec => CallsRunOut`. `CallsLeft` is the variant of a call: at most two calls of the API a
  try, one used up by every step, and nothing that others do adds to it.
- `LoopsImplementJobs`: `LoopSpec => ImplementsJobs`, from `LoopInv`: a fresh copy is
  the patched object the job imports now. Hence `LoopHandlersAsSpecified` (`LoopSpec => Spec`), and
  with the loops inside holds what is proved of the handlers: `CleanSuccessWithLoops`, `RecordsWithLoops`,
  `CleanTogetherWithLoops`, `OnlyAmazonRemovedWithLoops`, `AddressesWithLoops`.
- `HandlersComeToAnEnd`: `LoopSpec => HandlersAdvance`. The variant of a whole handler is lexicographic: the calls
  in `todo`, then `LoopLeft` of the import it is in. Every step of its own lowers it, no step of anybody raises it.

**Lifecycle** (`LifecycleProofs`)

- `HandlersAsSpecified`: `LifeSpec => Spec`, Terraform calls handlers only as `JobResource` lets it.
- `LifeTypes` and, from it, the phases (`PhaseInv`).
- `EmptyPlansRight`: with `Drifts = {}`, `LifeSpec => EmptyPlanIsRight`: where only jobs write the cluster, a plan
  without changes is right however many applies failed half way. The inductive `RecordsAreSo` (`RecordsHold`) says
  that what is recorded of a job that is not tainted is so at every instant: a failed handler
  records nothing, one that ends well records no more than it was told (`RecordsNoMore`) and has done that, a refresh
  only takes back, and no call of any job brings an object back. A tainted job is excepted,
  since Create may record a `remove_aws_cni` it was not asked for.
- `RestIsKept`: `LifeSpec => RestLasts`, and from it `RestForGood`: once at rest, a job is at rest for ever if
  nobody else writes and its configuration is not edited. The steps are of three kinds:
  the job's own (`OwnStepRests`: with a refresh under way nothing seen contradicts the settings, so
  the state it stores has them), other jobs' (`OtherStepRests`: they delete or relabel, and neither can
  turn a setting off or take an import back), and Terraform's.
- `ApplySettles`: `LifeSpec => AppliedSettles`, one apply that ends well is enough. `RefreshShowsDrift`:
  `LifeSpec => DriftShows`, a plan without changes after an undisturbed refresh means that nothing is all back.
  Both rest on `SeenInv`: what a run has observed is still so.
- What is proved of the handlers, for commands: `RecordsOfCommands`, `CommandsCleanTogether`,
  `CommandsRemoveOnlyAmazon`, `CommandsKeepDns`, `AddressesOfCommands`, `AddressesServeDns`.

So of `Converges` the parts that are safety are proved: an undisturbed apply that ends well
settles a job (`AppliedSettles`), a settled job stays settled (`RestForGood`), and the handler in between cannot go on
for ever (`HandlersAdvance`). That Terraform does apply, and that it is left alone at last, is the rest.

**Session** (`ProviderSessionProofs`)

- `CallsReachHost`: under `~Persistent`, `Spec => []ConfiguredHost`, whatever hosts the jobs have on record and
  whatever files there are. The inductive `KnownInv` says that once the host is configured the provider keeps it and
  all client sets talk to it.
- `HostsStayOnRecord`: under `~Persistent` and `NoStrayFile`, `Spec => HostStaysOnRecord`, for any number of jobs whose
  recorded hosts differ and whose handlers interleave in any way, the torn write included. `RecordInv` says of a
  command with an unknown host that the provider's host, once there is one, is on some job's record, that a Read goes by
  the id of its own job, and that whoever holds a client set finds a host. That the host is in place before
  the client set is used, although the write of it is not atomic, is the step that needs the order of the two parts and
  the files. *Which* job's host it is, is open: `session_ids`.
- `SerialIdsNameClusters`: under `~Persistent`, `NoStrayFile` and `[]OneAtATime`, `Spec => IdNamesCluster`: the
  id that is stored names the server the calls went to, if not the one the job was applied to.
- `SerialReadsFindHost`: under `[]OneAtATime`, `Spec => UnknownHostIsNoError`, and even `NoReadLacksHost`: no Read
  comes to the warning at R 900. The inductive `HostInv` says that a handler which is past its check of an
  unknown host finds one.

Every invariant was checked with TLC before it was proved.

**Only model-checked:** the liveness properties `Converges`, `CallReturns` and `HandlersReturn`. The proofs
show their variants and their stability; the step from there under weak fairness needs ENABLED, which is out of the
prover's reach. So are induction over data and RECURSIVE operators; no module uses either.
`BudgetMarksAreReported` and `IdIsHost` are false of the code and have no theorem; nor has `Converges` for `partial_drift`,
of which `DriftShows` states what is left.

## 5. What is not modelled

- TLS, credentials, proxy, exec plugins, and the fallback for `insecure` (R 349-351):
  they decide how a client talks to its server, not to which one.
- The in-cluster fallback of `clientcmd`, which needs a configuration that is empty and a pod.
- `bool_env_defaults.go`, `string_env_defaults.go`: a default is a value handed to the
  plugin framework, which alone decides when to use it. `conversion.go` is never called.
- `terraform import` in the lifecycle (the handler is in `JobResource`), workspaces, and
  a state that is edited by hand.
- Schemas, descriptions, wording of diagnostics, logging; `main` beyond `-debug`.
- `PodDisruptionBudgetImportedIntoHelm` and `DaemonsetExistsAndIsAwsOne`: never called.

## 6. What is left

The plan of the modules is done, and every safety property a passing run checks is proved. What could be added:

- the composition of `ProviderSession` with `JobResource`, so that jobs of one provider
  work on different clusters at the same time; today a cluster is one server's.
- the lifecycle over `ImportingJobs` instead of `JobResource`; the proofs compose, no run does.
- `importing_alone` with two jobs, and `lifecycle` with more faults: both are larger
  than a run should be, and their safety part is proved.
- what of `Converges` holds of imports where others have deployed objects of their own.
- `terraform import` as a command of the lifecycle.
