-------------------------- MODULE JobResourceProofs --------------------------
(* What the handlers of cleaneks_job guarantee for any number of jobs, any  *)
(* settings, any cluster and any other writers.                             *)
EXTENDS JobResource, TLAPS

-----------------------------------------------------------------------------
(* Types.                                                                  *)

\* What client.go computes from an object or from nothing has its type.
LEMMA ClientTypes ==
    ASSUME NEW o \in KubeObject \cup {Absent}
    PROVE  /\ ServiceClusterIps(o) \in Seq(Address)
           /\ ImportedIntoHelm(o) \in SUBSET Marks
           /\ o # Absent => HelmPatch(o) \in KubeObject
<1>1. ServiceClusterIps(o) \in Seq(Address)
  BY DEF ServiceClusterIps, KubeObject
<1>2. ImportedIntoHelm(o) \in SUBSET Marks
  BY DEF ImportedIntoHelm, KubeObject, Marks, Annotations
<1>3. o # Absent => HelmPatch(o) \in KubeObject
  BY DEF HelmPatch, KubeObject, Annotations, Labels
<1>4. QED
  BY <1>1, <1>2, <1>3

\* The derived DNS address is an address.
LEMMA DnsType ==
    ASSUME NEW ips \in Seq(Address) PROVE DnsClusterIps(ips) \in Seq(Address)
<1>1. CASE ips = <<>>
  BY <1>1 DEF DnsClusterIps
<1>2. CASE ips # <<>>
  <2>1. ips[1] \in Address
    BY <1>2
  <2>2. [ips[1] EXCEPT !.host = 10] \in Address
    BY <2>1 DEF Address
  <2>3. QED
    BY <1>2, <2>2 DEF DnsClusterIps
<1>3. QED
  BY <1>1, <1>2

\* The runs a handler starts with, and the idle one.
LEMMA StepTypes ==
    /\ DefaultSettings \in Settings
    /\ Idle \in Runs
    /\ \A p \in Settings : WriteSteps(p) \in SUBSET Steps
    /\ \A op : ReadSteps(op) \in SUBSET Steps
<1>1. DefaultSettings \in Settings
  BY DEF DefaultSettings, Settings
<1>2. Idle \in Runs
  <2>1. Unseen \in [CoreDns -> SUBSET Marks]
    BY DEF Unseen
  <2>2. QED
    BY <1>1, <2>1 DEF Idle, Runs
<1>3. ObserveSteps \in SUBSET Steps
  BY DEF ObserveSteps, Steps, Step, Verbs, Objects
<1>4. \A op : ReadSteps(op) \in SUBSET Steps
  BY <1>3 DEF ReadSteps, AddressSteps, Steps, Step, Verbs, Objects
<1>5. \A p \in Settings : WriteSteps(p) \in SUBSET Steps
  BY <1>3 DEF WriteSteps, AddressSteps, Steps, Step, Verbs, Objects, RequestedAddOns, CoreDns
<1>6. QED
  BY <1>1, <1>2, <1>4, <1>5

\* What a finished run stores is a model.
LEMMA ModelTypes ==
    ASSUME NEW r \in Runs
    PROVE  /\ UpdateModel(r) \in Models
           /\ CreateModel(r) \in Models
           /\ \A old \in Models \cup {NoState} : ReadModel(r, old) \in Models
<1>1. UpdateModel(r) \in Models
  <2>1. UpdateModel(r).settings \in Settings
    BY DEF UpdateModel, StillMet, Runs, Settings
  <2>2. QED
    BY <2>1 DEF UpdateModel, Runs, Models
<1>2. CreateModel(r) \in Models
  BY <1>1 DEF CreateModel, Models, Settings, Runs
<1>3. ASSUME NEW old \in Models \cup {NoState} PROVE ReadModel(r, old) \in Models
  <2>1. (IF r.ips = <<>> /\ old # NoState THEN old.ips ELSE r.ips) \in Seq(Address)
    BY DEF Models, Runs
  <2>2. QED
    BY <1>1, <2>1 DEF ReadModel, Models
<1>4. QED
  BY <1>1, <1>2, <1>3

\* A Get leaves well-typed runs.
LEMMA ObservedType ==
    ASSUME TypeOK, NEW j \in Jobs, NEW s, NEW r \in Runs, Observed(j, s, r)
    PROVE  TypeOK'
<1>1. [r EXCEPT !.todo = r.todo \ {s}] \in Runs
  BY DEF Runs
<1>2. QED
  BY <1>1 DEF Observed, TypeOK

\* So does a write, and the cluster is well-typed after it.
LEMMA WriteType ==
    ASSUME TypeOK, NEW j \in Jobs, NEW s, NEW o \in Objects,
           NEW v \in KubeObject \cup {Absent}, Write(j, s, o, v)
    PROVE  TypeOK'
<1>1. cluster' \in Clusters
  BY DEF Write, TypeOK, Clusters
<1>2. job' \in [Jobs -> Runs]
  <2>1. PICK answered \in BOOLEAN :
           job' = [job EXCEPT ![j] = IF answered
                     THEN [job[j] EXCEPT !.todo = job[j].todo \ {s}] ELSE Idle]
    BY DEF Write
  <2>2. [job[j] EXCEPT !.todo = job[j].todo \ {s}] \in Runs
    BY DEF TypeOK, Runs
  <2>3. QED
    BY <2>1, <2>2, StepTypes DEF TypeOK
<1>3. touched' \in [Jobs -> BOOLEAN]
  BY DEF Write, TypeOK
<1>4. QED
  BY <1>1, <1>2, <1>3 DEF Write, TypeOK

\* The types hold at the start.
LEMMA TypeInit == Init => TypeOK
BY JobAssumption, StepTypes DEF Init, TypeOK

\* Every step keeps them.
LEMMA TypeStep == TypeOK /\ [Next]_vars => TypeOK'
<1> SUFFICES ASSUME TypeOK, [Next]_vars PROVE TypeOK'
  OBVIOUS
<1>1. CASE Drift
  <2>1. PICK d \in Drifts : cluster' = [cluster EXCEPT ![d[1]] = d[2]]
    BY <1>1 DEF Drift
  <2>2. d[2] \in KubeObject \cup {Absent}
    BY JobAssumption
  <2>3. cluster' \in Clusters
    BY <2>1, <2>2 DEF TypeOK, Clusters
  <2>4. touched' \in [Jobs -> BOOLEAN] /\ UNCHANGED <<job, state>>
    BY <1>1 DEF Drift, TypeOK
  <2>5. QED
    BY <2>3, <2>4 DEF TypeOK
<1>2. ASSUME NEW j \in Jobs,
             BeginCreate(j) \/ BeginUpdate(j) \/ BeginRead(j) \/ ImportState(j)
      PROVE  TypeOK'
  <2>1. state[j] # NoState => state[j].settings \in Settings
    BY DEF TypeOK, Models
  <2>2. PICK op \in {"create", "update", "read", "import"}, p \in Settings,
             todo \in SUBSET Steps : Begin(j, op, p, todo)
    <3>1. CASE BeginCreate(j)
      <4>1. PICK p \in Plans : Begin(j, "create", p, WriteSteps(p))
        BY <3>1 DEF BeginCreate
      <4>2. p \in Settings
        BY JobAssumption
      <4>3. QED
        BY <4>1, <4>2, StepTypes
    <3>2. CASE BeginUpdate(j)
      <4>1. PICK p \in Plans : Begin(j, "update", p, WriteSteps(p))
        BY <3>2 DEF BeginUpdate
      <4>2. p \in Settings
        BY JobAssumption
      <4>3. QED
        BY <4>1, <4>2, StepTypes
    <3>3. CASE BeginRead(j)
      BY <3>3, <2>1, StepTypes DEF BeginRead
    <3>4. CASE ImportState(j)
      BY <3>4, StepTypes DEF ImportState
    <3>5. QED
      BY <1>2, <3>1, <3>2, <3>3, <3>4
  <2>3. [Idle EXCEPT !.op = op, !.plan = p, !.todo = todo] \in Runs
    BY StepTypes DEF Runs
  <2>4. QED
    BY <2>2, <2>3 DEF Begin, TypeOK
<1>3. ASSUME NEW j \in Jobs, Delete(j) PROVE TypeOK'
  BY <1>3 DEF Delete, TypeOK
<1>4. ASSUME NEW j \in Jobs, Call(j) PROVE TypeOK'
  <2>1. /\ job[j] \in Runs
        /\ \A o \in Objects : cluster[o] \in KubeObject \cup {Absent}
    BY DEF TypeOK, Clusters
  <2>2. CASE ProbeKubernetes(j)
    <3>1. DnsClusterIps(ServiceClusterIps(cluster["kubernetes"])) \in Seq(Address)
      BY <2>1, ClientTypes, DnsType DEF Objects
    <3>2. QED
      BY <2>1, <2>2, <3>1, ObservedType DEF ProbeKubernetes, Runs
  <2>3. ASSUME NEW o \in AddOns, DeleteAddOn(j, o) PROVE TypeOK'
    BY <2>3, WriteType DEF DeleteAddOn, Objects
  <2>4. ASSUME NEW o \in AddOns, ObserveExists(j, o) PROVE TypeOK'
    <3>1. [job[j] EXCEPT !.exists = IF cluster[o] = Absent
              THEN job[j].exists ELSE job[j].exists \cup {o}] \in Runs
      BY <2>1 DEF Runs, Objects
    <3>2. QED
      BY <2>4, <3>1, ObservedType DEF ObserveExists
  <2>5. ASSUME NEW k \in CoreDns, CheckIsAwsOne(j, k) PROVE TypeOK'
    <3> DEFINE ips == IF k = "service"
                      THEN ServiceClusterIps(cluster[k]) ELSE job[j].ips
    <3>1. ips \in Seq(Address)
      BY <2>1, ClientTypes DEF Objects, Runs
    <3>2. \A skip : [job[j] EXCEPT !.todo = job[j].todo \ skip, !.ips = ips] \in Runs
      BY <2>1, <3>1 DEF Runs
    <3>3. PICK skip : Observed(j, Step("check", k),
                         [job[j] EXCEPT !.todo = job[j].todo \ skip, !.ips = ips])
      BY <2>5 DEF CheckIsAwsOne
    <3>4. QED
      BY <3>2, <3>3, ObservedType
  <2>6. ASSUME NEW k \in CoreDns, RemoveCoreDns(j, k) PROVE TypeOK'
    BY <2>6, WriteType DEF RemoveCoreDns, Objects
  <2>7. ASSUME NEW k \in CoreDns, ImportCoreDns(j, k) PROVE TypeOK'
    <3>1. HelmPatch(cluster[k]) \in KubeObject
      BY <2>1, <2>7, ClientTypes DEF ImportCoreDns, Importable, Objects
    <3>2. QED
      BY <2>7, <3>1, WriteType DEF ImportCoreDns, Objects
  <2>8. ASSUME NEW k \in CoreDns, ObserveIsAws(j, k) PROVE TypeOK'
    <3> DEFINE ips == IF job[j].op \in {"read", "import"} /\ k = "service"
                      THEN ServiceClusterIps(cluster[k]) ELSE job[j].ips
               exists == IF ExistsAndIsAwsOne(cluster[k])
                         THEN job[j].exists \cup {k} ELSE job[j].exists
               todo == IF ips = <<>> THEN job[j].todo
                       ELSE job[j].todo \ {Step("probe", "kubernetes")}
    <3>1. ips \in Seq(Address)
      BY <2>1, ClientTypes DEF Objects, Runs
    <3>2. exists \in SUBSET Objects /\ todo \in SUBSET Steps
      BY <2>1 DEF Objects, Runs
    <3>3. [job[j] EXCEPT !.exists = exists, !.ips = ips, !.todo = todo] \in Runs
      <4> HIDE DEF ips, exists, todo
      <4> QED BY <2>1, <3>1, <3>2 DEF Runs
    <3>4. Observed(j, Step("isAws", k),
             [job[j] EXCEPT !.exists = exists, !.ips = ips, !.todo = todo])
      BY <2>8 DEF ObserveIsAws, AddressSteps
    <3>5. QED
      BY <3>3, <3>4, ObservedType
  <2>9. ASSUME NEW k \in CoreDns, ObserveImported(j, k) PROVE TypeOK'
    <3>1. ImportedIntoHelm(cluster[MarkedObject(k)]) \in SUBSET Marks
      BY <2>1, ClientTypes DEF MarkedObject, Objects, CoreDns
    <3>2. [job[j] EXCEPT !.marks[k] = ImportedIntoHelm(cluster[MarkedObject(k)])] \in Runs
      BY <2>1, <3>1 DEF Runs
    <3>3. QED
      BY <2>9, <3>2, ObservedType DEF ObserveImported
  <2>10. QED
    BY <1>4, <2>2, <2>3, <2>4, <2>5, <2>6, <2>7, <2>8, <2>9 DEF Call
<1>5. ASSUME NEW j \in Jobs, StoreState(j) PROVE TypeOK'
  <2>1. /\ CreateModel(job[j]) \in Models
        /\ UpdateModel(job[j]) \in Models
        /\ ReadModel(job[j], state[j]) \in Models
    BY ModelTypes DEF TypeOK
  <2>2. QED
    BY <1>5, <2>1, StepTypes DEF StoreState, Finish, TypeOK
<1>6. ASSUME NEW j \in Jobs, ApiError(j) PROVE TypeOK'
  BY <1>6, StepTypes DEF ApiError, Finish, TypeOK
<1>7. CASE UNCHANGED vars
  BY <1>7 DEF vars, TypeOK
<1>8. QED
  BY <1>1, <1>2, <1>3, <1>4, <1>5, <1>6, <1>7 DEF Next, JobNext

\* The cluster, the runs and the Terraform state keep their types.
THEOREM TypeCorrect == Spec => []TypeOK
BY TypeInit, TypeStep, PTL DEF Spec

-----------------------------------------------------------------------------
(* The steps of a run, as the invariants below see them.                   *)

Writing(j) == job[j].op \in {"create", "update"}

\* A check comes before the write that relies on it.
LEMMA CheckFirst ==
    ASSUME NEW k \in CoreDns, NEW verb \in {"remove", "import"},
           NEW op \in {"create", "update"}
    PROVE  ~(Rank(op, Step(verb, k)) <= Rank(op, Step("check", k)))
<1>1. Position[k] \in 1..6
  BY DEF Position, CoreDns
<1>2. Phase["check"] = 4 /\ Phase[verb] \in {5, 6}
  BY DEF Phase
<1>3. Rank(op, Step(verb, k)) = 10 * Phase[verb] + Position[k]
  BY DEF Rank, Step
<1>4. Rank(op, Step("check", k)) \in {1, 10 * Phase["check"] + Position[k]}
  BY DEF Rank, Step
<1>5. QED
  BY <1>1, <1>2, <1>3, <1>4

\* What every API call of run i leaves alone: the plan and the operation of a
\* run that goes on, the other runs, and calls are only taken off its list.
OthersStay(i) ==
    \A j \in Jobs \ {i} : job'[j] = job[j] /\ (touched[j] => touched'[j])

GoesOn(i) ==
    /\ job'[i].op = job[i].op /\ job'[i].plan = job[i].plan
    /\ touched'[i] = touched[i]

\* No call brings an object back or makes it Amazon's.
OnlyCleans ==
    \A o \in Objects :
        /\ cluster[o] = Absent => cluster'[o] = Absent
        /\ ~ExistsAndIsAwsOne(cluster[o]) => ~ExistsAndIsAwsOne(cluster'[o])

\* What a Get of run i changes: its own run, and nothing of anybody else.
LEMMA GetStep ==
    ASSUME TypeOK, NEW i \in Jobs, NEW s, NEW r \in Runs, Observed(i, s, r),
           r.op = job[i].op, r.plan = job[i].plan
    PROVE  /\ UNCHANGED cluster /\ OthersStay(i) /\ GoesOn(i)
           /\ job'[i].todo = r.todo \ {s}
<1>1. job'[i] = [r EXCEPT !.todo = r.todo \ {s}]
  BY DEF Observed, TypeOK
<1>2. OthersStay(i) /\ UNCHANGED <<cluster, touched>>
  BY DEF Observed, OthersStay, TypeOK
<1>3. QED
  BY <1>1, <1>2 DEF GoesOn, Runs

\* What a write of run i changes; it can end the run.
LEMMA WriteStep ==
    ASSUME TypeOK, NEW i \in Jobs, NEW s, NEW o \in Objects, NEW v, Write(i, s, o, v)
    PROVE  /\ cluster' = [cluster EXCEPT ![o] = v] /\ OthersStay(i)
           /\ \/ job'[i] = Idle
              \/ GoesOn(i) /\ job'[i].todo = job[i].todo \ {s}
<1>1. PICK answered \in BOOLEAN :
         /\ job' = [job EXCEPT ![i] = IF answered
                      THEN [job[i] EXCEPT !.todo = job[i].todo \ {s}] ELSE Idle]
         /\ touched' = [j \in Jobs |->
               IF j = i THEN touched[i] /\ answered
               ELSE touched[j] \/ (job[j].op # "none" /\ cluster' # cluster)]
  BY DEF Write
<1>2. cluster' = [cluster EXCEPT ![o] = v]
  BY DEF Write
<1>3. OthersStay(i)
  BY <1>1 DEF OthersStay, TypeOK
<1>4. CASE answered
  <2>1. job'[i] = [job[i] EXCEPT !.todo = job[i].todo \ {s}]
    BY <1>1, <1>4 DEF TypeOK
  <2>2. job'[i].op = job[i].op /\ job'[i].plan = job[i].plan
        /\ job'[i].todo = job[i].todo \ {s}
    BY <2>1 DEF TypeOK, Runs
  <2>3. touched'[i] = touched[i]
    BY <1>1, <1>4 DEF TypeOK
  <2>4. QED
    BY <1>2, <1>3, <2>2, <2>3 DEF GoesOn
<1>5. CASE ~answered
  BY <1>1, <1>2, <1>3, <1>5 DEF TypeOK
<1>6. QED
  BY <1>4, <1>5

\* A call that only looks, and only takes calls that look off the list.
ReadVerbs == {"probe", "exists", "isAws", "imported"}

ReadOnly(i) ==
    /\ UNCHANGED cluster /\ GoesOn(i)
    /\ \E S : /\ \A s \in S : s.verb \in ReadVerbs
             /\ job'[i].todo = job[i].todo \ S

\* The check of k takes itself and the calls in skip off the list: what is to be
\* removed or imported stays on it if it is Amazon's and leaves it if it is not.
Skips(i, k, skip) ==
    /\ skip \subseteq {Step("remove", k), Step("import", k), Step("probe", "kubernetes")}
    /\ IF ExistsAndIsAwsOne(cluster[k])
       THEN skip \cap {Step("remove", k), Step("import", k)} = {}
       ELSE {Step("remove", k), Step("import", k)} \subseteq skip
    /\ job'[i].todo = job[i].todo \ ({Step("check", k)} \cup skip)

Checked(i, k) ==
    /\ UNCHANGED cluster /\ GoesOn(i)
    /\ Step("check", k) \in job[i].todo
    /\ \E skip : Skips(i, k, skip)

\* Every call looks, checks or writes.
LEMMA CallShapes ==
    ASSUME TypeOK, NEW i \in Jobs, Call(i)
    PROVE  \/ ReadOnly(i)
           \/ \E k \in CoreDns : Checked(i, k) \/ RemoveCoreDns(i, k) \/ ImportCoreDns(i, k)
           \/ \E o \in AddOns : DeleteAddOn(i, o)
<1>1. /\ job[i] \in Runs
      /\ \A o \in Objects : cluster[o] \in KubeObject \cup {Absent}
  BY DEF TypeOK, Clusters
<1>2. ASSUME ProbeKubernetes(i) PROVE ReadOnly(i)
  <2> DEFINE s == Step("probe", "kubernetes")
             r == [job[i] EXCEPT !.ips =
                     DnsClusterIps(ServiceClusterIps(cluster["kubernetes"]))]
  <2>1. r \in Runs
    BY <1>1, ClientTypes, DnsType DEF Runs, Objects
  <2>2. r.op = job[i].op /\ r.plan = job[i].plan /\ r.todo = job[i].todo
    BY <1>1 DEF Runs
  <2>3. Observed(i, s, r)
    BY <1>2 DEF ProbeKubernetes
  <2>4. \A t \in {s} : t.verb \in ReadVerbs
    BY DEF Step, ReadVerbs
  <2> HIDE DEF s, r
  <2>5. UNCHANGED cluster /\ GoesOn(i) /\ job'[i].todo = job[i].todo \ {s}
    BY <2>1, <2>2, <2>3, GetStep
  <2>6. QED
    BY <2>4, <2>5, Zenon DEF ReadOnly
<1>3. ASSUME NEW o \in AddOns, ObserveExists(i, o) PROVE ReadOnly(i)
  <2> DEFINE s == Step("exists", o)
             r == [job[i] EXCEPT !.exists = IF cluster[o] = Absent
                     THEN job[i].exists ELSE job[i].exists \cup {o}]
  <2>1. r \in Runs
    BY <1>1 DEF Runs, Objects
  <2>2. r.op = job[i].op /\ r.plan = job[i].plan /\ r.todo = job[i].todo
    BY <1>1 DEF Runs
  <2>3. Observed(i, s, r)
    BY <1>3 DEF ObserveExists
  <2>4. \A t \in {s} : t.verb \in ReadVerbs
    BY DEF Step, ReadVerbs
  <2> HIDE DEF s, r
  <2>5. UNCHANGED cluster /\ GoesOn(i) /\ job'[i].todo = job[i].todo \ {s}
    BY <2>1, <2>2, <2>3, GetStep
  <2>6. QED
    BY <2>4, <2>5, Zenon DEF ReadOnly
<1>4. ASSUME NEW k \in CoreDns, ObserveImported(i, k) PROVE ReadOnly(i)
  <2> DEFINE s == Step("imported", k)
             marks == ImportedIntoHelm(cluster[MarkedObject(k)])
             r == [job[i] EXCEPT !.marks[k] = marks]
  <2>1. r \in Runs
    <3>1. marks \in SUBSET Marks
      BY <1>1, ClientTypes DEF MarkedObject, Objects, CoreDns
    <3>2. QED
      BY <1>1, <3>1 DEF Runs
  <2>2. r.op = job[i].op /\ r.plan = job[i].plan /\ r.todo = job[i].todo
    BY <1>1 DEF Runs
  <2>3. Observed(i, s, r)
    BY <1>4 DEF ObserveImported
  <2>4. \A t \in {s} : t.verb \in ReadVerbs
    BY DEF Step, ReadVerbs
  <2> HIDE DEF s, r
  <2>5. UNCHANGED cluster /\ GoesOn(i) /\ job'[i].todo = job[i].todo \ {s}
    BY <2>1, <2>2, <2>3, GetStep
  <2>6. QED
    BY <2>4, <2>5, Zenon DEF ReadOnly
<1>5. ASSUME NEW k \in CoreDns, ObserveIsAws(i, k) PROVE ReadOnly(i)
  <2> DEFINE s == Step("isAws", k)
             probe == Step("probe", "kubernetes")
             ips == IF job[i].op \in {"read", "import"} /\ k = "service"
                    THEN ServiceClusterIps(cluster[k]) ELSE job[i].ips
             S == {s} \cup (IF ips = <<>> THEN {} ELSE {probe})
             exists == IF ExistsAndIsAwsOne(cluster[k])
                       THEN job[i].exists \cup {k} ELSE job[i].exists
             todo == IF ips = <<>> THEN job[i].todo ELSE job[i].todo \ {probe}
             r == [job[i] EXCEPT !.exists = exists, !.ips = ips, !.todo = todo]
  <2>1. ips \in Seq(Address)
    BY <1>1, ClientTypes DEF Runs, Objects
  <2>2. exists \in SUBSET Objects /\ todo \in SUBSET Steps
    BY <1>1 DEF Runs, Objects
  <2>3. r \in Runs /\ r.op = job[i].op /\ r.plan = job[i].plan /\ r.todo = todo
    <3> HIDE DEF ips, exists, todo
    <3> QED BY <1>1, <2>1, <2>2 DEF Runs
  <2>4. Observed(i, s, r)
    BY <1>5 DEF ObserveIsAws, AddressSteps
  <2>5. todo \ {s} = job[i].todo \ S
    OBVIOUS
  <2>6. \A t \in S : t.verb \in ReadVerbs
    BY DEF Step, ReadVerbs
  <2> HIDE DEF r, S, todo, s
  <2>7. QED
    BY <2>3, <2>4, <2>5, <2>6, GetStep DEF ReadOnly
<1>6. ASSUME NEW k \in CoreDns, CheckIsAwsOne(i, k) PROVE Checked(i, k)
  <2> DEFINE s == Step("check", k)
             ips == IF k = "service" THEN ServiceClusterIps(cluster[k]) ELSE job[i].ips
             skip == (IF ExistsAndIsAwsOne(cluster[k])
                      THEN {} ELSE {Step("remove", k), Step("import", k)})
                     \cup (IF ips = <<>> THEN {} ELSE {Step("probe", "kubernetes")})
             todo == job[i].todo \ skip
             r == [job[i] EXCEPT !.todo = todo, !.ips = ips]
  <2>1. ips \in Seq(Address)
    BY <1>1, ClientTypes DEF Runs, Objects
  <2>2. todo \in SUBSET Steps
    BY <1>1 DEF Runs
  <2>3. r \in Runs /\ r.op = job[i].op /\ r.plan = job[i].plan /\ r.todo = todo
    <3> HIDE DEF ips, todo
    <3> QED BY <1>1, <2>1, <2>2 DEF Runs
  <2>4. Observed(i, s, r)
    BY <1>6 DEF CheckIsAwsOne, SkippedWith, AddressSteps
  <2>5. todo \ {s} = job[i].todo \ ({s} \cup skip)
    OBVIOUS
  <2>6. /\ skip \subseteq {Step("remove", k), Step("import", k), Step("probe", "kubernetes")}
        /\ IF ExistsAndIsAwsOne(cluster[k])
           THEN skip \cap {Step("remove", k), Step("import", k)} = {}
           ELSE {Step("remove", k), Step("import", k)} \subseteq skip
    BY DEF Step
  <2>7. s \in job[i].todo
    BY <2>4 DEF Observed, IsNext
  <2> HIDE DEF r, skip, todo
  <2>8. UNCHANGED cluster /\ GoesOn(i) /\ job'[i].todo = job[i].todo \ ({s} \cup skip)
    BY <2>3, <2>4, <2>5, GetStep
  <2>9. QED
    BY <2>6, <2>7, <2>8 DEF Checked, Skips
<1>7. QED
  BY <1>2, <1>3, <1>4, <1>5, <1>6 DEF Call

\* A call keeps the run, or ends it.
LEMMA CallGoesOn ==
    ASSUME TypeOK, NEW i \in Jobs, Call(i)
    PROVE  GoesOn(i) \/ job'[i] = Idle
<1>1. ASSUME NEW o \in Objects,
             DeleteAddOn(i, o) \/ RemoveCoreDns(i, o) \/ ImportCoreDns(i, o)
      PROVE  GoesOn(i) \/ job'[i] = Idle
  BY <1>1, WriteStep DEF DeleteAddOn, RemoveCoreDns, ImportCoreDns
<1>2. QED
  BY <1>1, CallShapes DEF ReadOnly, Checked, Objects

\* A call keeps the operation of its run, or ends the run.
LEMMA CallKeepsOp ==
    ASSUME TypeOK, NEW i \in Jobs, Call(i)
    PROVE  job'[i].op \in {job[i].op, "none"}
BY CallGoesOn DEF GoesOn, Idle

\* No call undoes the work of another run, or ends it.
LEMMA CallCleans ==
    ASSUME TypeOK, NEW i \in Jobs, Call(i)
    PROVE  OnlyCleans /\ OthersStay(i)
<1>1. /\ job[i] \in Runs
      /\ \A o \in Objects : cluster[o] \in KubeObject \cup {Absent}
  BY DEF TypeOK, Clusters
<1>2. ASSUME NEW s, NEW r, Observed(i, s, r) PROVE OnlyCleans /\ OthersStay(i)
  BY <1>2 DEF Observed, OnlyCleans, OthersStay, TypeOK
<1>3. ASSUME NEW s, NEW o \in Objects, Write(i, s, o, Absent)
      PROVE  OnlyCleans /\ OthersStay(i)
  <2>1. cluster' = [cluster EXCEPT ![o] = Absent]
    BY <1>3 DEF Write
  <2>2. OnlyCleans
    BY <2>1 DEF OnlyCleans, ExistsAndIsAwsOne, TypeOK, Clusters
  <2>3. QED
    BY <1>3, <2>2, WriteStep
<1>4. ASSUME NEW k \in CoreDns, ImportCoreDns(i, k) PROVE OnlyCleans /\ OthersStay(i)
  <2>1. cluster[k] # Absent /\ Write(i, Step("import", k), k, HelmPatch(cluster[k]))
    BY <1>4 DEF ImportCoreDns, Importable
  <2>2. cluster' = [cluster EXCEPT ![k] = HelmPatch(cluster[k])]
    BY <2>1 DEF Write
  <2>3. "amazon" \notin HelmPatch(cluster[k]).labels
    BY <1>1, <2>1 DEF HelmPatch, KubeObject, Objects
  <2>4. OnlyCleans
    BY <2>1, <2>2, <2>3 DEF OnlyCleans, ExistsAndIsAwsOne, TypeOK, Clusters
  <2>5. OthersStay(i)
    BY <2>1, WriteStep DEF Objects
  <2>6. QED
    BY <2>4, <2>5
<1>5. QED
  BY <1>2, <1>3, <1>4
  DEF Call, ProbeKubernetes, DeleteAddOn, ObserveExists, CheckIsAwsOne, RemoveCoreDns,
      ObserveIsAws, ObserveImported, Objects

\* What a handler step of job i leaves to the other jobs.
LEMMA OtherRunsStay ==
    ASSUME TypeOK, NEW i \in Jobs, JobNext(i) PROVE \A j \in Jobs \ {i} : job'[j] = job[j]
<1>1. CASE Call(i)
  BY <1>1, CallCleans DEF OthersStay
<1>2. CASE ~Call(i)
  BY <1>2
  DEF JobNext, BeginCreate, BeginUpdate, BeginRead, ImportState, Begin, Delete,
      StoreState, ApiError, Finish, TypeOK
<1>3. QED
  BY <1>1, <1>2

-----------------------------------------------------------------------------
(* A run leaves nothing undone.                                            *)

\* Nobody but the jobs has written since run j began.
Quiet(j) == ~touched[j] \/ Drifts = {}

TouchesCoreDns(p) == p.removeCoreDns \/ p.importCorednsToHelm

\* An object still to be checked is still to be removed or imported.
StillChosen(j) ==
    TouchesCoreDns(job[j].plan) =>
        \A k \in CoreDns :
            Step("check", k) \in job[j].todo =>
                Step("remove", k) \in job[j].todo \/ Step("import", k) \in job[j].todo

\* What the run has behind it is done, whether it or somebody else did it.
WorkDone(j) ==
    /\ \A o \in RequestedAddOns(job[j].plan) :
          Step("delete", o) \notin job[j].todo => cluster[o] = Absent
    /\ TouchesCoreDns(job[j].plan) =>
          \A k \in CoreDns :
              /\ Step("check", k) \notin job[j].todo
              /\ Step("remove", k) \notin job[j].todo
              /\ Step("import", k) \notin job[j].todo
              => ~ExistsAndIsAwsOne(cluster[k])

RunInv(j) == Writing(j) => StillChosen(j) /\ (Quiet(j) => WorkDone(j))

CleaningInv == \A j \in Jobs : RunInv(j)

\* The calls of other jobs do not undo what a run has done.
LEMMA OthersKeepRunInv ==
    ASSUME TypeOK, NEW j \in Jobs, RunInv(j), OnlyCleans,
           job'[j] = job[j], touched[j] => touched'[j]
    PROVE  RunInv(j)'
BY DEF RunInv, Writing, Quiet, StillChosen, WorkDone, OnlyCleans, RequestedAddOns, Objects

\* Nor does a call of the run that only looks.
LEMMA ReadsKeepRunInv ==
    ASSUME NEW j \in Jobs, RunInv(j), ReadOnly(j)
    PROVE  RunInv(j)'
<1> PICK S : /\ \A s \in S : s.verb \in ReadVerbs
             /\ job'[j].todo = job[j].todo \ S
  BY DEF ReadOnly
<1>1. \A o : /\ Step("check", o) \in job'[j].todo <=> Step("check", o) \in job[j].todo
             /\ Step("delete", o) \in job'[j].todo <=> Step("delete", o) \in job[j].todo
             /\ Step("remove", o) \in job'[j].todo <=> Step("remove", o) \in job[j].todo
             /\ Step("import", o) \in job'[j].todo <=> Step("import", o) \in job[j].todo
  BY DEF Step, ReadVerbs
<1>2. StillChosen(j) => StillChosen(j)'
  BY <1>1 DEF StillChosen, GoesOn, ReadOnly
<1>3. WorkDone(j) => WorkDone(j)'
  BY <1>1 DEF WorkDone, GoesOn, ReadOnly
<1>4. QED
  BY <1>2, <1>3 DEF RunInv, Writing, Quiet, GoesOn, ReadOnly

\* The calls of the run itself.
LEMMA OwnCallKeepsRunInv ==
    ASSUME TypeOK, NEW j \in Jobs, RunInv(j), Call(j), Writing(j), Writing(j)'
    PROVE  RunInv(j)'
<1> DEFINE Left(S) == job'[j].todo = job[j].todo \ S
<1>1. /\ job[j] \in Runs
      /\ \A o \in Objects : cluster[o] \in KubeObject \cup {Absent}
  BY DEF TypeOK, Clusters
<1>2. Idle.op = "none"
  BY DEF Idle
<1>3. ASSUME NEW s, NEW o \in Objects, NEW v, Write(j, s, o, v)
      PROVE  /\ GoesOn(j) /\ Left({s})
             /\ cluster' = [cluster EXCEPT ![o] = v]
  <2>1. \/ job'[j] = Idle
        \/ GoesOn(j) /\ Left({s})
    BY <1>3, WriteStep
  <2>2. job'[j] # Idle
    BY <1>2 DEF Writing
  <2>3. QED
    BY <1>3, <2>1, <2>2 DEF Write
<1>4. CASE ReadOnly(j)
  BY <1>4, ReadsKeepRunInv
<1>5. ASSUME NEW k \in CoreDns, Checked(j, k) PROVE RunInv(j)'
  <2>1. PICK skip : Skips(j, k, skip)
    BY <1>5 DEF Checked
  <2>2. UNCHANGED cluster /\ GoesOn(j)
    BY <1>5 DEF Checked
  <2>3. Step("check", k) \in job[j].todo /\ Step("check", k) \notin job'[j].todo
    BY <1>5, <2>1 DEF Checked, Skips
  <2>4. \A o \in AddOns :
           Step("delete", o) \in job'[j].todo <=> Step("delete", o) \in job[j].todo
    BY <2>1 DEF Step, Skips
  <2>5. \A c \in CoreDns \ {k} :
           /\ Step("check", c) \in job'[j].todo <=> Step("check", c) \in job[j].todo
           /\ Step("remove", c) \in job'[j].todo <=> Step("remove", c) \in job[j].todo
           /\ Step("import", c) \in job'[j].todo <=> Step("import", c) \in job[j].todo
    BY <2>1 DEF Step, Skips
  <2>6. ExistsAndIsAwsOne(cluster[k]) =>
           /\ Step("remove", k) \in job'[j].todo <=> Step("remove", k) \in job[j].todo
           /\ Step("import", k) \in job'[j].todo <=> Step("import", k) \in job[j].todo
    BY <2>1 DEF Step, Skips
  <2>7. StillChosen(j) => StillChosen(j)'
    BY <2>2, <2>3, <2>5 DEF StillChosen, GoesOn
  <2>8. StillChosen(j) /\ WorkDone(j) => WorkDone(j)'
    BY <2>2, <2>3, <2>4, <2>5, <2>6 DEF StillChosen, WorkDone, GoesOn, RequestedAddOns
  <2>9. QED
    BY <2>2, <2>7, <2>8 DEF RunInv, Writing, Quiet, GoesOn
<1>6. ASSUME NEW o \in AddOns, DeleteAddOn(j, o) PROVE RunInv(j)'
  <2>1. /\ GoesOn(j) /\ Left({Step("delete", o)})
        /\ cluster' = [cluster EXCEPT ![o] = Absent]
    BY <1>3, <1>6 DEF DeleteAddOn, Objects
  <2>2. \A c, verb : verb # "delete" \/ c # o =>
           (Step(verb, c) \in job'[j].todo <=> Step(verb, c) \in job[j].todo)
    BY <2>1 DEF Step
  <2>3. cluster'[o] = Absent /\ \A c \in Objects \ {o} : cluster'[c] = cluster[c]
    BY <2>1 DEF TypeOK, Clusters, Objects
  <2>4. o \notin CoreDns
    BY DEF AddOns, CoreDns
  <2>5. StillChosen(j) => StillChosen(j)'
    BY <2>1, <2>2 DEF StillChosen, GoesOn
  <2>6. WorkDone(j) => WorkDone(j)'
    <3>1. ASSUME WorkDone(j), NEW c \in RequestedAddOns(job[j].plan),
                 Step("delete", c) \notin job'[j].todo
          PROVE  cluster'[c] = Absent
      BY <2>2, <2>3, <3>1 DEF WorkDone, RequestedAddOns, Objects
    <3>2. QED
      BY <2>1, <2>2, <2>3, <2>4, <3>1 DEF WorkDone, GoesOn, Objects
  <2>7. QED
    BY <2>1, <2>5, <2>6 DEF RunInv, Writing, Quiet, GoesOn
<1>7. ASSUME NEW k \in CoreDns, NEW verb \in {"remove", "import"}, NEW v,
              Write(j, Step(verb, k), k, v), ~ExistsAndIsAwsOne(v)
       PROVE  RunInv(j)'
  <2>1. /\ GoesOn(j) /\ Left({Step(verb, k)})
        /\ cluster' = [cluster EXCEPT ![k] = v]
    BY <1>3, <1>7 DEF Objects
  <2>2. Step("check", k) \notin job[j].todo
    BY <1>7, CheckFirst DEF Write, IsNext, Writing
  <2>3. \A c, w : c # k \/ w # verb =>
           (Step(w, c) \in job'[j].todo <=> Step(w, c) \in job[j].todo)
    BY <2>1 DEF Step
  <2>4. cluster'[k] = v /\ \A c \in Objects \ {k} : cluster'[c] = cluster[c]
    BY <2>1 DEF TypeOK, Clusters, Objects
  <2>5. k \notin AddOns
    BY DEF AddOns, CoreDns
  <2>6. StillChosen(j) => StillChosen(j)'
    BY <2>1, <2>2, <2>3 DEF StillChosen, GoesOn
  <2>7. WorkDone(j) => WorkDone(j)'
    <3>1. ASSUME WorkDone(j), NEW c \in RequestedAddOns(job[j].plan),
                 Step("delete", c) \notin job'[j].todo
          PROVE  cluster'[c] = Absent
      BY <2>3, <2>4, <2>5, <3>1 DEF WorkDone, RequestedAddOns, Objects
    <3>2. ASSUME WorkDone(j), TouchesCoreDns(job[j].plan), NEW c \in CoreDns,
                 Step("check", c) \notin job'[j].todo,
                 Step("remove", c) \notin job'[j].todo,
                 Step("import", c) \notin job'[j].todo
          PROVE  ~ExistsAndIsAwsOne(cluster'[c])
      BY <1>7, <2>3, <2>4, <3>2 DEF WorkDone, Objects
    <3>3. QED
      BY <2>1, <3>1, <3>2 DEF WorkDone, GoesOn
  <2>8. QED
    BY <2>1, <2>6, <2>7 DEF RunInv, Writing, Quiet, GoesOn
<1>8. ASSUME NEW k \in CoreDns, RemoveCoreDns(j, k) PROVE RunInv(j)'
  BY <1>7, <1>8 DEF RemoveCoreDns, ExistsAndIsAwsOne
<1>9. ASSUME NEW k \in CoreDns, ImportCoreDns(j, k) PROVE RunInv(j)'
  <2>1. Write(j, Step("import", k), k, HelmPatch(cluster[k])) /\ cluster[k] # Absent
    BY <1>9 DEF ImportCoreDns, Importable
  <2>2. ~ExistsAndIsAwsOne(HelmPatch(cluster[k]))
    BY <1>1, <2>1 DEF ExistsAndIsAwsOne, HelmPatch, KubeObject, Objects
  <2>3. QED
    BY <1>7, <2>1, <2>2
<1>10. QED
  BY <1>4, <1>5, <1>6, <1>8, <1>9, CallShapes

\* A run that begins has everything ahead of it.
LEMMA BeginRunInv ==
    ASSUME TypeOK, NEW j \in Jobs, NEW p \in Settings, NEW op,
           Begin(j, op, p, WriteSteps(p))
    PROVE  RunInv(j)'
<1>1. job'[j] = [Idle EXCEPT !.op = op, !.plan = p, !.todo = WriteSteps(p)]
  BY DEF Begin, TypeOK
<1>2. job'[j].plan = p /\ job'[j].todo = WriteSteps(p)
  BY <1>1 DEF Idle
<1>3. /\ \A o \in RequestedAddOns(p) : Step("delete", o) \in WriteSteps(p)
      /\ TouchesCoreDns(p) =>
            \A k \in CoreDns :
               /\ Step("check", k) \in WriteSteps(p)
               /\ Step("remove", k) \in WriteSteps(p) \/ Step("import", k) \in WriteSteps(p)
  BY DEF WriteSteps, TouchesCoreDns, Settings
<1>4. QED
  BY <1>2, <1>3 DEF RunInv, StillChosen, WorkDone

\* At every point of every run, what the run has behind it is done.
THEOREM CleaningInvariant == Spec => []CleaningInv
<1>1. Init => CleaningInv
  BY DEF Init, CleaningInv, RunInv, Writing, Idle
<1>2. TypeOK /\ CleaningInv /\ [Next]_vars => CleaningInv'
  <2> SUFFICES ASSUME TypeOK, CleaningInv, [Next]_vars, NEW j \in Jobs
               PROVE  RunInv(j)'
    BY DEF CleaningInv
  <2>1. RunInv(j)
    BY DEF CleaningInv
  <2>2. CASE Drift
    <3>1. Drifts # {} /\ job' = job
      BY <2>2 DEF Drift
    <3>2. Writing(j) => touched'[j]
      BY <2>2 DEF Drift, Writing
    <3>3. QED
      BY <2>1, <3>1, <3>2 DEF RunInv, Writing, StillChosen, Quiet
  <2>3. ASSUME NEW i \in Jobs, Call(i) PROVE RunInv(j)'
    <3>1. CASE i = j
      <4>1. CASE Writing(j) /\ Writing(j)'
        BY <2>1, <2>3, <3>1, <4>1, OwnCallKeepsRunInv
      <4>2. CASE ~Writing(j)'
        BY <4>2 DEF RunInv
      <4>3. CASE ~Writing(j)
        BY <2>3, <3>1, <4>3, CallKeepsOp DEF RunInv, Writing
      <4>4. QED
        BY <4>1, <4>2, <4>3
    <3>2. CASE i # j
      <4>1. OnlyCleans /\ OthersStay(i)
        BY <2>3, CallCleans
      <4>2. QED
        BY <2>1, <3>2, <4>1, OthersKeepRunInv DEF OthersStay
    <3>3. QED
      BY <3>1, <3>2
  <2>4. ASSUME NEW i \in Jobs,
               BeginCreate(i) \/ BeginUpdate(i) \/ BeginRead(i) \/ ImportState(i)
        PROVE  RunInv(j)'
    <3>1. CASE i # j
      <4>1. UNCHANGED cluster /\ job'[j] = job[j] /\ touched' = touched
        BY <2>4, <3>1
        DEF BeginCreate, BeginUpdate, BeginRead, ImportState, Begin, TypeOK
      <4>2. QED
        BY <2>1, <4>1, OthersKeepRunInv DEF OnlyCleans
    <3>2. CASE i = j /\ (BeginCreate(i) \/ BeginUpdate(i))
      <4>1. PICK p \in Plans, op \in {"create", "update"} : Begin(j, op, p, WriteSteps(p))
        BY <3>2 DEF BeginCreate, BeginUpdate
      <4>2. p \in Settings
        BY JobAssumption
      <4>3. QED
        BY <4>1, <4>2, BeginRunInv
    <3>3. CASE i = j /\ (BeginRead(i) \/ ImportState(i))
      <4>1. PICK op \in {"read", "import"} : \E p, todo : Begin(j, op, p, todo)
        <5>1. CASE BeginRead(i)
          BY <3>3, <5>1 DEF BeginRead
        <5>2. CASE ImportState(i)
          BY <3>3, <5>2 DEF ImportState
        <5>3. QED
          BY <3>3, <5>1, <5>2
      <4>2. job'[j].op = op
        BY <4>1 DEF Begin, Idle, TypeOK
      <4>3. QED
        BY <4>2 DEF RunInv, Writing
    <3>4. QED
      BY <2>4, <3>1, <3>2, <3>3
  <2>5. ASSUME NEW i \in Jobs, Delete(i) PROVE RunInv(j)'
    BY <2>1, <2>5 DEF Delete, RunInv, Writing, StillChosen, WorkDone, Quiet
  <2>6. ASSUME NEW i \in Jobs, StoreState(i) \/ ApiError(i) PROVE RunInv(j)'
    <3>1. UNCHANGED cluster /\ Finish(i)
      BY <2>6 DEF StoreState, ApiError, Finish
    <3>2. CASE i # j
      <4>1. job'[j] = job[j] /\ touched'[j] = touched[j]
        BY <3>1, <3>2 DEF Finish, TypeOK
      <4>2. QED
        BY <2>1, <3>1, <4>1, OthersKeepRunInv DEF OnlyCleans
    <3>3. CASE i = j
      BY <3>1, <3>3 DEF Finish, Idle, TypeOK, RunInv, Writing
    <3>4. QED
      BY <3>2, <3>3
  <2>7. CASE UNCHANGED vars
    BY <2>1, <2>7 DEF vars, RunInv, Writing, StillChosen, WorkDone, Quiet
  <2>8. QED
    BY <2>2, <2>3, <2>4, <2>5, <2>6, <2>7 DEF Next, JobNext
<1>3. QED
  BY <1>1, <1>2, TypeCorrect, PTL DEF Spec

\* Everything done and nothing ahead: the cluster is as the plan asks.
LEMMA FinishedMeansCleaned ==
    ASSUME TypeOK, CleaningInv, NEW j \in Jobs, StoreState(j), Writing(j), Quiet(j)
    PROVE  Cleaned(job[j].plan)
<1>1. WorkDone(j) /\ job[j].todo = {} /\ job[j].plan \in Settings
  BY DEF CleaningInv, RunInv, StoreState, TypeOK, Runs
<1>2. \A o \in RequestedAddOns(job[j].plan) : cluster[o] = Absent
  BY <1>1 DEF WorkDone
<1>3. TouchesCoreDns(job[j].plan) =>
         \A k \in CoreDns : ~ExistsAndIsAwsOne(cluster[k])
  BY <1>1 DEF WorkDone
<1>4. job[j].plan.removeAwsCni => "awsNode" \in RequestedAddOns(job[j].plan)
  BY DEF RequestedAddOns, AddOns
<1>5. job[j].plan.removeKubeProxy =>
         {"kubeProxy", "kubeProxyConfig"} \subseteq RequestedAddOns(job[j].plan)
  BY DEF RequestedAddOns, AddOns
<1>6. CoreDns \cap AddOns = {}
  BY DEF CoreDns, AddOns
<1>7. QED
  BY <1>2, <1>3, <1>4, <1>5, <1>6 DEF Cleaned, Present, TouchesCoreDns, AddOns, CoreDns

\* A Create or Update that reports success has left nothing undone, unless
\* another writer changed the cluster during the run.
THEOREM CleanSuccess == Spec => SuccessMeansCleaned
<1>1. TypeOK /\ CleaningInv =>
        [\A j \in Jobs : StoredUndisturbed(j, {"create", "update"})
                             => Cleaned(job[j].plan)]_vars
  BY FinishedMeansCleaned DEF StoredUndisturbed, Writing, Quiet
<1>2. QED
  BY <1>1, TypeCorrect, CleaningInvariant, PTL DEF SuccessMeansCleaned

\* On a cluster only the jobs write to, every success leaves nothing undone,
\* however the jobs interleave.
THEOREM CleanTogether ==
    ASSUME Drifts = {} PROVE Spec => JobsTogetherClean
<1>1. TypeOK /\ CleaningInv =>
        [\A j \in Jobs : StoreState(j) /\ job[j].op \in {"create", "update"}
                             => Cleaned(job[j].plan)]_vars
  BY FinishedMeansCleaned DEF Writing, Quiet
<1>2. QED
  BY <1>1, TypeCorrect, CleaningInvariant, PTL DEF JobsTogetherClean

-----------------------------------------------------------------------------
(* A job takes away only what is Amazon's.                                 *)

\* Nobody hands a CoreDNS object over: no job imports, and other writers only
\* delete objects or put Amazon's.  Without this the run HandoverRace shows that
\* the time between check and delete is enough to lose somebody else's object.
NoHandover ==
    /\ \A p \in Plans : p.importCorednsToHelm => p.removeCoreDns
    /\ \A d \in Drifts : d[1] \in CoreDns => d[2] = Absent \/ ExistsAndIsAwsOne(d[2])

\* What the check of k said still holds when k is about to be removed.
CheckHolds(j, k) ==
    /\ Step("import", k) \notin job[j].todo
    /\ Step("remove", k) \in job[j].todo =>
          /\ Writing(j)
          /\ \/ Step("check", k) \in job[j].todo
             \/ cluster[k] = Absent
             \/ ExistsAndIsAwsOne(cluster[k])

RemovalInv == \A j \in Jobs, k \in CoreDns : CheckHolds(j, k)

\* An object that was not handed over is gone, Amazon's, or as it was.
NotHandedOver(k) ==
    cluster'[k] = cluster[k] \/ cluster'[k] = Absent \/ ExistsAndIsAwsOne(cluster'[k])

\* No call turns an object of Amazon's into somebody else's.
LEMMA WriteKeepsOwner ==
    ASSUME TypeOK, RemovalInv, NEW i \in Jobs, Call(i), NEW k \in CoreDns
    PROVE  NotHandedOver(k)
<1>1. CASE UNCHANGED cluster
  BY <1>1 DEF NotHandedOver
<1>2. ASSUME NEW o \in Objects, NEW s, Write(i, s, o, Absent) PROVE NotHandedOver(k)
  BY <1>2 DEF Write, NotHandedOver, TypeOK, Clusters, Objects
<1>3. ASSUME NEW c \in CoreDns, ImportCoreDns(i, c) PROVE FALSE
  BY <1>3 DEF ImportCoreDns, Write, IsNext, RemovalInv, CheckHolds
<1>4. QED
  BY <1>1, <1>2, <1>3, CallShapes
  DEF ReadOnly, Checked, DeleteAddOn, RemoveCoreDns, Objects

\* A run takes calls off its list, and k is checked before it is removed.
LEMMA OwnCallKeepsCheck ==
    ASSUME TypeOK, RemovalInv, NEW j \in Jobs, Call(j), NEW k \in CoreDns,
           NotHandedOver(k)
    PROVE  CheckHolds(j, k)'
<1>1. CheckHolds(j, k)
  BY DEF RemovalInv
<1>2. CASE ReadOnly(j)
  <2>1. PICK S : /\ \A s \in S : s.verb \in ReadVerbs
                 /\ job'[j].todo = job[j].todo \ S
    BY <1>2 DEF ReadOnly
  <2>2. Step("check", k) \notin S
    BY <2>1 DEF Step, ReadVerbs
  <2>3. QED
    BY <1>1, <1>2, <2>1, <2>2 DEF CheckHolds, ReadOnly, GoesOn, Writing
<1>3. ASSUME NEW c \in CoreDns, Checked(j, c) PROVE CheckHolds(j, k)'
  <2>1. PICK skip : Skips(j, c, skip)
    BY <1>3 DEF Checked
  <2>2. UNCHANGED cluster /\ GoesOn(j)
    BY <1>3 DEF Checked
  <2>3. CASE c = k
    BY <1>1, <2>1, <2>2, <2>3 DEF CheckHolds, Skips, GoesOn, Writing
  <2>4. CASE c # k
    <3>1. Step("check", k) \in job[j].todo => Step("check", k) \in job'[j].todo
      BY <2>1, <2>4 DEF Skips, Step
    <3>2. job'[j].todo \subseteq job[j].todo
      BY <2>1 DEF Skips
    <3>3. QED
      BY <1>1, <2>2, <3>1, <3>2 DEF CheckHolds, GoesOn, Writing
  <2>5. QED
    BY <2>3, <2>4
<1>4. ASSUME NEW o \in Objects, NEW verb \in {"delete", "remove", "import"}, NEW v,
             Write(j, Step(verb, o), o, v)
      PROVE  CheckHolds(j, k)'
  <2>1. \/ job'[j] = Idle
        \/ GoesOn(j) /\ job'[j].todo = job[j].todo \ {Step(verb, o)}
    BY <1>4, WriteStep
  <2>2. CASE job'[j] = Idle
    BY <2>2 DEF CheckHolds, Idle
  <2>3. CASE GoesOn(j) /\ job'[j].todo = job[j].todo \ {Step(verb, o)}
    <3>1. Step("check", k) \in job[j].todo => Step("check", k) \in job'[j].todo
      BY <2>3 DEF Step
    <3>2. job'[j].todo \subseteq job[j].todo
      BY <2>3
    <3>3. QED
      BY <1>1, <2>3, <3>1, <3>2 DEF CheckHolds, GoesOn, Writing, NotHandedOver
  <2>4. QED
    BY <2>1, <2>2, <2>3
<1>5. QED
  BY <1>2, <1>3, <1>4, CallShapes DEF DeleteAddOn, RemoveCoreDns, ImportCoreDns, Objects

\* While nobody hands objects over, the answer of every check still holds when
\* the removal that relies on it is made, whatever other jobs do in between.
THEOREM ChecksHold ==
    ASSUME NoHandover PROVE Spec => []RemovalInv
<1>1. Init => RemovalInv
  BY DEF Init, RemovalInv, CheckHolds, Idle
<1>2. TypeOK /\ RemovalInv /\ [Next]_vars => RemovalInv'
  <2> SUFFICES ASSUME TypeOK, RemovalInv, [Next]_vars, NEW j \in Jobs, NEW k \in CoreDns
               PROVE  CheckHolds(j, k)'
    BY DEF RemovalInv
  <2>1. CheckHolds(j, k)
    BY DEF RemovalInv
  <2>2. ASSUME job'[j] = job[j], NotHandedOver(k) PROVE CheckHolds(j, k)'
    BY <2>1, <2>2 DEF CheckHolds, Writing, NotHandedOver
  <2>3. CASE Drift
    <3>1. PICK d \in Drifts : cluster' = [cluster EXCEPT ![d[1]] = d[2]] /\ job' = job
      BY <2>3 DEF Drift
    <3>2. NotHandedOver(k)
      BY <3>1, NoHandover DEF NoHandover, NotHandedOver, TypeOK, Clusters, Objects
    <3>3. QED
      BY <2>2, <3>1, <3>2
  <2>4. ASSUME NEW i \in Jobs, Call(i) PROVE CheckHolds(j, k)'
    <3>1. NotHandedOver(k)
      BY <2>4, WriteKeepsOwner
    <3>2. CASE i = j
      BY <2>4, <3>1, <3>2, OwnCallKeepsCheck
    <3>3. CASE i # j
      <4>1. OthersStay(i)
        BY <2>4, CallCleans
      <4>2. QED
        BY <2>2, <3>1, <3>3, <4>1 DEF OthersStay
    <3>4. QED
      BY <3>2, <3>3
  <2>5. ASSUME NEW i \in Jobs,
               BeginCreate(i) \/ BeginUpdate(i) \/ BeginRead(i) \/ ImportState(i)
        PROVE  CheckHolds(j, k)'
    <3>1. NotHandedOver(k)
      BY <2>5
      DEF BeginCreate, BeginUpdate, BeginRead, ImportState, Begin, NotHandedOver
    <3>2. CASE i # j
      <4>1. job'[j] = job[j]
        BY <2>5, <3>2
        DEF BeginCreate, BeginUpdate, BeginRead, ImportState, Begin, TypeOK
      <4>2. QED
        BY <2>2, <3>1, <4>1
    <3>3. CASE i = j /\ (BeginCreate(i) \/ BeginUpdate(i))
      <4>1. PICK p \in Plans, op \in {"create", "update"} : Begin(j, op, p, WriteSteps(p))
        BY <3>3 DEF BeginCreate, BeginUpdate
      <4>2. job'[j].op = op /\ job'[j].todo = WriteSteps(p)
        BY <4>1 DEF Begin, Idle, TypeOK
      <4>3. Step("import", k) \notin WriteSteps(p)
        BY NoHandover
        DEF NoHandover, WriteSteps, ObserveSteps, AddressSteps, Step
      <4>4. Step("remove", k) \in WriteSteps(p) => Step("check", k) \in WriteSteps(p)
        BY DEF WriteSteps, ObserveSteps, AddressSteps, Step
      <4>5. QED
        BY <4>2, <4>3, <4>4 DEF CheckHolds, Writing
    <3>4. CASE i = j /\ (BeginRead(i) \/ ImportState(i))
      <4>1. job'[j].todo \in {ReadSteps("read"), ReadSteps("import")}
        BY <3>4 DEF BeginRead, ImportState, Begin, Idle, TypeOK
      <4>2. Step("import", k) \notin job'[j].todo /\ Step("remove", k) \notin job'[j].todo
        BY <4>1 DEF ReadSteps, ObserveSteps, AddressSteps, Step
      <4>3. QED
        BY <4>2 DEF CheckHolds
    <3>5. QED
      BY <2>5, <3>2, <3>3, <3>4
  <2>6. ASSUME NEW i \in Jobs, Delete(i) PROVE CheckHolds(j, k)'
    BY <2>2, <2>6 DEF Delete, NotHandedOver
  <2>7. ASSUME NEW i \in Jobs, StoreState(i) \/ ApiError(i) PROVE CheckHolds(j, k)'
    <3>1. UNCHANGED cluster /\ Finish(i)
      BY <2>7 DEF StoreState, ApiError, Finish
    <3>2. CASE i = j
      BY <3>1, <3>2 DEF Finish, Idle, TypeOK, CheckHolds
    <3>3. CASE i # j
      BY <2>2, <3>1, <3>3 DEF Finish, TypeOK, NotHandedOver
    <3>4. QED
      BY <3>2, <3>3
  <2>8. CASE UNCHANGED vars
    BY <2>2, <2>8 DEF vars, NotHandedOver
  <2>9. QED
    BY <2>3, <2>4, <2>5, <2>6, <2>7, <2>8 DEF Next, JobNext
<1>3. QED
  BY <1>1, <1>2, TypeCorrect, PTL DEF Spec

\* "We only want to delete the Amazon CoreDNS": the time between a check and the
\* removal is harmless for any number of jobs, unless objects are handed over.
THEOREM OnlyAmazonRemoved ==
    ASSUME NoHandover PROVE Spec => OnlyAmazonCoreDnsRemoved
<1>1. TypeOK /\ RemovalInv /\ [Next]_vars =>
        [\A k \in CoreDns :
            /\ cluster[k] # Absent /\ cluster'[k] = Absent
            /\ job' # job
            => ExistsAndIsAwsOne(cluster[k])]_vars
  <2> SUFFICES ASSUME TypeOK, RemovalInv, Next, NEW k \in CoreDns,
                      cluster[k] # Absent, cluster'[k] = Absent, job' # job
               PROVE  ExistsAndIsAwsOne(cluster[k])
    OBVIOUS
  <2>1. ~Drift
    BY DEF Drift
  <2>2. PICK i \in Jobs : JobNext(i)
    BY <2>1 DEF Next
  <2>3. Call(i)
    BY <2>2
    DEF JobNext, BeginCreate, BeginUpdate, BeginRead, ImportState, Begin, Delete,
        StoreState, ApiError, Finish
  <2>4. ASSUME NEW o \in Objects, NEW s, NEW v, Write(i, s, o, v)
        PROVE  o = k
    BY <2>4 DEF Write, TypeOK, Clusters, Objects
  <2>5. RemoveCoreDns(i, k)
    <3>1. ASSUME NEW o \in AddOns, DeleteAddOn(i, o) PROVE FALSE
      BY <2>4, <3>1 DEF DeleteAddOn, Objects, AddOns, CoreDns
    <3>2. ASSUME NEW c \in CoreDns, ImportCoreDns(i, c) PROVE FALSE
      BY <3>2 DEF ImportCoreDns, Write, IsNext, RemovalInv, CheckHolds
    <3>3. ASSUME NEW c \in CoreDns, RemoveCoreDns(i, c) PROVE c = k
      BY <2>4, <3>3 DEF RemoveCoreDns, Objects
    <3>4. QED
      BY <2>3, <3>1, <3>2, <3>3, CallShapes DEF ReadOnly, Checked
  <2>6. CheckHolds(i, k)
    BY DEF RemovalInv
  <2>7. Step("remove", k) \in job[i].todo
    BY <2>5 DEF RemoveCoreDns, Write, IsNext
  <2>8. Step("check", k) \notin job[i].todo
    BY <2>5, <2>6, <2>7, CheckFirst DEF RemoveCoreDns, Write, IsNext, CheckHolds, Writing
  <2>9. QED
    BY <2>6, <2>7, <2>8 DEF CheckHolds
<1>2. Spec => []RemovalInv
  BY ChecksHold
<1>3. QED
  BY <1>1, <1>2, TypeCorrect, PTL DEF Spec, OnlyAmazonCoreDnsRemoved

-----------------------------------------------------------------------------
(* A run makes only the calls its settings ask for.                        *)

\* The calls ahead of a run are those its handler makes.
OwnCalls(j) ==
    /\ Writing(j) => job[j].todo \subseteq WriteSteps(job[j].plan)
    /\ job[j].op \in {"read", "import"} => job[j].todo \subseteq ReadSteps(job[j].op)

PlannedInv == \A j \in Jobs : OwnCalls(j) /\ (Writing(j) => job[j].plan \in Plans)

\* Calls are only taken off the list of a run.
LEMMA CallsLeave ==
    ASSUME TypeOK, NEW i \in Jobs, Call(i)
    PROVE  job'[i] = Idle \/ (GoesOn(i) /\ job'[i].todo \subseteq job[i].todo)
<1>1. ASSUME NEW o \in Objects,
             DeleteAddOn(i, o) \/ RemoveCoreDns(i, o) \/ ImportCoreDns(i, o)
      PROVE  job'[i] = Idle \/ (GoesOn(i) /\ job'[i].todo \subseteq job[i].todo)
  BY <1>1, WriteStep DEF DeleteAddOn, RemoveCoreDns, ImportCoreDns
<1>2. ASSUME ReadOnly(i) \/ \E k \in CoreDns : Checked(i, k)
      PROVE  GoesOn(i) /\ job'[i].todo \subseteq job[i].todo
  BY <1>2 DEF ReadOnly, Checked, Skips
<1>3. QED
  BY <1>1, <1>2, CallShapes DEF Objects

\* A run that writes works on settings that were configured, and makes the calls
\* its handler makes for them; one that reads makes those of a read.
THEOREM RunsAsPlanned == Spec => []PlannedInv
<1>1. Init => PlannedInv
  BY DEF Init, PlannedInv, OwnCalls, Writing, Idle
<1>2. TypeOK /\ PlannedInv /\ [Next]_vars => PlannedInv'
  <2> SUFFICES ASSUME TypeOK, PlannedInv, [Next]_vars PROVE PlannedInv'
    OBVIOUS
  <2>1. ASSUME NEW i \in Jobs, JobNext(i),
               OwnCalls(i)' /\ (Writing(i)' => job'[i].plan \in Plans)
        PROVE  PlannedInv'
    BY <2>1, OtherRunsStay DEF PlannedInv, OwnCalls, Writing
  <2>2. ASSUME NEW i \in Jobs, Call(i) PROVE PlannedInv'
    <3>1. job'[i] = Idle \/ (GoesOn(i) /\ job'[i].todo \subseteq job[i].todo)
      BY <2>2, CallsLeave
    <3>2. OwnCalls(i)' /\ (Writing(i)' => job'[i].plan \in Plans)
      BY <3>1 DEF PlannedInv, OwnCalls, Writing, GoesOn, Idle
    <3>3. QED
      BY <2>1, <2>2, <3>2 DEF JobNext
  <2>3. ASSUME NEW i \in Jobs,
               BeginCreate(i) \/ BeginUpdate(i) \/ BeginRead(i) \/ ImportState(i)
        PROVE  PlannedInv'
    <3>1. PICK op, p, todo :
             /\ Begin(i, op, p, todo)
             /\ op \in {"create", "update"} => p \in Plans /\ todo = WriteSteps(p)
             /\ op \in {"read", "import"} => todo = ReadSteps(op)
      BY <2>3 DEF BeginCreate, BeginUpdate, BeginRead, ImportState
    <3>2. job'[i].op = op /\ job'[i].plan = p /\ job'[i].todo = todo
      BY <3>1 DEF Begin, Idle, TypeOK
    <3>3. OwnCalls(i)' /\ (Writing(i)' => job'[i].plan \in Plans)
      BY <3>1, <3>2 DEF OwnCalls, Writing
    <3>4. QED
      BY <2>1, <2>3, <3>3 DEF JobNext
  <2>4. ASSUME NEW i \in Jobs, Delete(i) PROVE PlannedInv'
    BY <2>4 DEF Delete, PlannedInv, OwnCalls, Writing
  <2>5. ASSUME NEW i \in Jobs, StoreState(i) \/ ApiError(i) PROVE PlannedInv'
    <3>1. job'[i] = Idle
      BY <2>5 DEF StoreState, ApiError, Finish, TypeOK
    <3>2. OwnCalls(i)' /\ ~Writing(i)'
      BY <3>1 DEF OwnCalls, Writing, Idle
    <3>3. QED
      BY <2>1, <2>5, <3>2 DEF JobNext
  <2>6. CASE Drift \/ UNCHANGED vars
    BY <2>6 DEF Drift, vars, PlannedInv, OwnCalls, Writing
  <2>7. QED
    BY <2>2, <2>3, <2>4, <2>5, <2>6 DEF Next, JobNext
<1>3. QED
  BY <1>1, <1>2, TypeCorrect, PTL DEF Spec

\* No configuration asks to remove what it asks to import.  The default for
\* remove_core_dns is to remove: the run import_example shows what comes of it.
NoContradiction == \A p \in Plans : p.importCorednsToHelm => ~p.removeCoreDns

\* "We don't loose DNS at any point": where remove_core_dns is turned off, a job
\* that is told to import CoreDNS takes neither its deployment nor its service away.
THEOREM ImportKeepsDns ==
    ASSUME NoContradiction PROVE Spec => ImportNeverDropsDns
<1>1. TypeOK /\ PlannedInv /\ [Next]_vars =>
        [\A j \in Jobs, k \in {"deployment", "service"} :
            /\ job[j].op \in {"create", "update"} /\ job[j].plan.importCorednsToHelm
            /\ job'[j] # job[j] /\ cluster[k] # Absent
            => cluster'[k] # Absent]_vars
  <2> SUFFICES ASSUME TypeOK, PlannedInv, Next, NEW j \in Jobs,
                      NEW k \in {"deployment", "service"},
                      Writing(j), job[j].plan.importCorednsToHelm,
                      job'[j] # job[j], cluster[k] # Absent
               PROVE  cluster'[k] # Absent
    BY DEF Writing
  <2>1. JobNext(j)
    BY OtherRunsStay DEF Next, Drift
  <2>2. CASE ~Call(j)
    <3>1. UNCHANGED cluster
      BY <2>1, <2>2
      DEF JobNext, BeginCreate, BeginUpdate, BeginRead, ImportState, Begin, Delete,
          StoreState, ApiError, Finish
    <3>2. QED
      BY <3>1
  <2>3. CASE Call(j)
    <3>1. ASSUME NEW c \in CoreDns, RemoveCoreDns(j, c) PROVE FALSE
      <4>1. Step("remove", c) \in WriteSteps(job[j].plan)
        BY <3>1 DEF RemoveCoreDns, Write, IsNext, PlannedInv, OwnCalls
      <4>2. job[j].plan.removeCoreDns
        BY <4>1 DEF WriteSteps, ObserveSteps, AddressSteps, Step
      <4>3. QED
        BY <4>2, NoContradiction DEF NoContradiction, PlannedInv
    <3>2. ASSUME NEW c \in CoreDns, ImportCoreDns(j, c) PROVE cluster'[k] # Absent
      <4>1. cluster' = [cluster EXCEPT ![c] = HelmPatch(cluster[c])]
            /\ cluster[c] \in KubeObject
        BY <3>2 DEF ImportCoreDns, Importable, Write, TypeOK, Clusters, Objects
      <4>2. HelmPatch(cluster[c]) # Absent
        BY <4>1, AbsentAssumption, ClientTypes
      <4>3. QED
        BY <4>1, <4>2 DEF TypeOK, Clusters, Objects, CoreDns
    <3>3. ASSUME NEW o \in AddOns, DeleteAddOn(j, o) PROVE cluster'[k] # Absent
      <4>1. cluster' = [cluster EXCEPT ![o] = Absent] /\ o # k
        BY <3>3 DEF DeleteAddOn, Write, AddOns
      <4>2. QED
        BY <4>1 DEF TypeOK, Clusters, Objects, CoreDns
    <3>4. QED
      BY <2>3, <3>1, <3>2, <3>3, CallShapes DEF ReadOnly, Checked
  <2>4. QED
    BY <2>2, <2>3
<1>2. QED
  BY <1>1, RunsAsPlanned, TypeCorrect, PTL DEF Spec, ImportNeverDropsDns

===============================================================================
