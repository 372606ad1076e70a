---------------------------- MODULE LifecycleProofs ----------------------------
(* Terraform's commands call the handlers as JobResource allows, so what is *)
(* proved of the handlers holds of the commands.  An apply that ends well   *)
(* brings its job to rest, and nothing but another writer, or an edit of    *)
(* the configuration, takes a job at rest out of it.                        *)
EXTENDS TerraformLifecycle, AddressProofs

\* Every step of a command is a step of the handlers, or none of theirs.
LEMMA StepsAreHandlerSteps == [LifeNext]_lifeVars => [Next]_vars
<1> SUFFICES ASSUME [LifeNext]_lifeVars PROVE [Next]_vars
  OBVIOUS
<1>1. CASE OtherWriter
  BY <1>1 DEF OtherWriter, Next
<1>2. ASSUME NEW j \in Jobs, Advance(j) PROVE [Next]_vars
  <2>1. JobNext(j) \/ UNCHANGED vars
    BY <1>2
    DEF Advance, Refresh, Refreshed, PlanCreate, PlanUpdate, PlanDelete, NoChanges,
        Applied, Proceed, Refuse, JobNext
  <2>2. QED
    BY <2>1 DEF Next
<1>3. ASSUME NEW j \in Jobs, CallFails(j) PROVE [Next]_vars
  BY <1>3 DEF CallFails, JobNext, Next
<1>4. ASSUME NEW j \in Jobs, EditConfig(j) PROVE [Next]_vars
  BY <1>4 DEF EditConfig
<1>5. CASE UNCHANGED lifeVars
  BY <1>5 DEF lifeVars
<1>6. QED
  BY <1>1, <1>2, <1>3, <1>4, <1>5 DEF LifeNext

\* Terraform applied again and again is a behaviour of the handlers.
THEOREM HandlersAsSpecified == LifeSpec => Spec
<1>1. LifeInit => Init
  BY DEF LifeInit
<1>2. QED
  BY <1>1, StepsAreHandlerSteps, PTL DEF LifeSpec, Spec

-----------------------------------------------------------------------------
(* Types and phases.                                                       *)

\* The command and the handler run of a job fit together.
InPhase(j) ==
    \/ phase[j] \in {"quiet", "plan"} /\ job[j].op = "none"
    \/ phase[j] = "refresh" /\ job[j].op = "read"
    \/ /\ phase[j] = "apply" /\ job[j].op \in {"create", "update"}
       /\ config[j] # NoState /\ job[j].plan = config[j]

PhaseInv ==
    /\ config \in [Jobs -> Plans \cup {NoState}]
    /\ tainted \in [Jobs -> BOOLEAN]
    /\ phase \in [Jobs -> {"quiet", "plan", "refresh", "apply"}]
    /\ faults \in 0..MaxFaults
    /\ \A j \in Jobs : InPhase(j)

\* A handler run that ends leaves none.
LEMMA EndOfRun ==
    ASSUME TypeOK, NEW j \in Jobs, StoreState(j) \/ ApiError(j)
    PROVE  job'[j].op = "none"
BY DEF StoreState, ApiError, Finish, Idle, TypeOK

\* Terraform's commands keep their phases, and the handler of an apply works with
\* the settings that are configured.
THEOREM PhasesHold == LifeSpec => []PhaseInv
<1>1. LifeInit => PhaseInv
  BY FaultAssumption DEF LifeInit, Init, Idle, PhaseInv, InPhase
<1>2. TypeOK /\ PhaseInv /\ [LifeNext]_lifeVars => PhaseInv'
  <2> SUFFICES ASSUME TypeOK, PhaseInv, [LifeNext]_lifeVars PROVE PhaseInv'
    OBVIOUS
  <2> USE DEF PhaseInv
  <2>1. CASE OtherWriter
    BY <2>1, FaultAssumption DEF OtherWriter, Fault, Drift, InPhase
  <2>2. ASSUME NEW j \in Jobs, Advance(j) \/ CallFails(j) PROVE PhaseInv'
    <3>1. UNCHANGED config
      BY <2>2
      DEF Advance, Refresh, Refreshed, PlanCreate, PlanUpdate, PlanDelete, NoChanges,
          Applied, Proceed, Refuse, CallFails
    <3>2. faults' \in 0..MaxFaults
      BY <2>2, FaultAssumption
      DEF Advance, Refresh, Refreshed, PlanCreate, PlanUpdate, PlanDelete, NoChanges,
          Applied, Proceed, Refuse, CallFails, Fault
    <3>3. tainted' \in [Jobs -> BOOLEAN]
      BY <2>2
      DEF Advance, Refresh, Refreshed, PlanCreate, PlanUpdate, PlanDelete, NoChanges,
          Applied, Proceed, Refuse, CallFails
    <3>4. /\ phase' \in [Jobs -> {"quiet", "plan", "refresh", "apply"}]
          /\ \A i \in Jobs \ {j} : phase'[i] = phase[i]
      BY <2>2
      DEF Advance, Refresh, Refreshed, PlanCreate, PlanUpdate, PlanDelete, NoChanges,
          Applied, Proceed, Refuse, CallFails, Enter
    <3>5. \A i \in Jobs \ {j} : job'[i] = job[i]
      <4>1. JobNext(j) \/ UNCHANGED vars
        BY <2>2
        DEF Advance, Refresh, Refreshed, PlanCreate, PlanUpdate, PlanDelete, NoChanges,
            Applied, Proceed, Refuse, CallFails, JobNext
      <4>2. QED
        BY <4>1, OtherRunsStay DEF vars
    <3>6. InPhase(j)'
      <4>1. CASE Refresh(j)
        BY <4>1 DEF Refresh, Enter, BeginRead, Begin, Idle, TypeOK, vars, InPhase
      <4>2. CASE Refreshed(j)
        BY <4>2, EndOfRun DEF Refreshed, Enter, InPhase
      <4>3. CASE PlanCreate(j) \/ PlanUpdate(j)
        <5>1. /\ job'[j].op \in {"create", "update"} /\ job'[j].plan = config[j]
              /\ phase'[j] = "apply" /\ config[j] # NoState
          <6>1. phase'[j] = "apply" /\ job'[j].plan = config[j] /\ config[j] # NoState
            BY <4>3 DEF PlanCreate, PlanUpdate, Enter
          <6>2. PICK op \in {"create", "update"}, p \in Plans : Begin(j, op, p, WriteSteps(p))
            BY <4>3 DEF PlanCreate, PlanUpdate, BeginCreate, BeginUpdate
          <6>3. job'[j].op = op
            BY <6>2 DEF Begin, Idle, TypeOK
          <6>4. QED
            BY <6>1, <6>3
        <5>2. QED
          BY <3>1, <5>1 DEF InPhase
      <4>4. CASE PlanDelete(j)
        BY <4>4 DEF PlanDelete, Delete, InPhase
      <4>5. CASE NoChanges(j)
        BY <4>5 DEF NoChanges, Enter, vars, InPhase
      <4>6. CASE Applied(j)
        BY <4>6, EndOfRun DEF Applied, Enter, InPhase
      <4>7. CASE Refuse(j)
        BY <4>7, EndOfRun DEF Refuse, Enter, InPhase
      <4>8. CASE Proceed(j)
        <5>1. GoesOn(j)
          BY <4>8, CallGoesOn DEF Proceed, Idle
        <5>2. QED
          BY <4>8, <5>1 DEF Proceed, GoesOn, InPhase
      <4>9. CASE CallFails(j)
        BY <4>9, EndOfRun DEF CallFails, Enter, InPhase
      <4>10. QED
        BY <2>2, <4>1, <4>2, <4>3, <4>4, <4>5, <4>6, <4>7, <4>8, <4>9 DEF Advance
    <3>7. \A i \in Jobs \ {j} : InPhase(i)'
      BY <3>1, <3>4, <3>5 DEF InPhase
    <3>8. QED
      BY <3>1, <3>2, <3>3, <3>4, <3>6, <3>7
  <2>3. ASSUME NEW j \in Jobs, EditConfig(j) PROVE PhaseInv'
    <3>1. PICK c \in Plans \cup {NoState} : config' = [config EXCEPT ![j] = c]
      BY <2>3 DEF EditConfig
    <3>2. QED
      BY <2>3, <3>1, FaultAssumption DEF EditConfig, Fault, InPhase, vars
  <2>4. CASE UNCHANGED lifeVars
    BY <2>4 DEF lifeVars, vars, InPhase
  <2>5. QED
    BY <2>1, <2>2, <2>3, <2>4 DEF LifeNext
<1>3. LifeSpec => []TypeOK
  BY HandlersAsSpecified, TypeCorrect, PTL
<1>4. QED
  BY <1>1, <1>2, <1>3, PTL DEF LifeSpec

\* The type invariant of the commands.
THEOREM LifeTypes == LifeSpec => []LifeTypeOK
<1>1. TypeOK /\ PhaseInv => LifeTypeOK
  BY DEF PhaseInv, InPhase, LifeTypeOK
<1>2. LifeSpec => []TypeOK
  BY HandlersAsSpecified, TypeCorrect, PTL
<1>3. QED
  BY <1>1, <1>2, PhasesHold, PTL

-----------------------------------------------------------------------------
(* What a refresh has seen.                                                *)

\* The metadata of k is Helm's, or not looked at yet.
MarkedOrAhead(r, k) == Step("imported", k) \in r.todo \/ r.marks[k] = Marks

InFavour(r) ==
    /\ r.plan.removeAwsCni => "awsNode" \notin r.exists
    /\ r.plan.removeKubeProxy => ~({"kubeProxy", "kubeProxyConfig"} \subseteq r.exists)
    /\ r.plan.removeCoreDns => ~(CoreDns \subseteq r.exists)
    /\ r.plan.importCorednsToHelm => \A k \in CoreDns : MarkedOrAhead(r, k)

\* A refresh bears its settings out if it has seen nothing against any of them.
LEMMA BearsOutMeans ==
    ASSUME NEW r \in Runs PROVE BearsOut(r) <=> InFavour(r)
<1> DEFINE marks == [k \in CoreDns |-> IF Step("imported", k) \in r.todo
                                       THEN Marks ELSE r.marks[k]]
           seen == [r EXCEPT !.marks = marks]
           q == UpdateModel(seen).settings
           p == r.plan
<1>1. \A k \in CoreDns : marks[k] = Marks <=> MarkedOrAhead(r, k)
  BY DEF MarkedOrAhead
<1>2. marks \in [CoreDns -> SUBSET Marks]
  BY DEF Runs
<1>3. BearsOut(r) <=> q = p
  BY DEF BearsOut
<1> HIDE DEF marks
<1>4. /\ seen \in Runs /\ seen.plan = p /\ seen.exists = r.exists /\ seen.marks = marks
  BY <1>2 DEF Runs
<1> HIDE DEF seen
<1>5. p \in Settings /\ q \in Settings
  BY <1>4, ModelTypes DEF Runs, Models
<1>6. /\ q.removeAwsCni = (p.removeAwsCni /\ "awsNode" \notin r.exists)
      /\ q.removeKubeProxy =
            (p.removeKubeProxy /\ ~({"kubeProxy", "kubeProxyConfig"} \subseteq r.exists))
      /\ q.removeCoreDns = (p.removeCoreDns /\ ~(CoreDns \subseteq r.exists))
      /\ q.importCorednsToHelm =
            (p.importCorednsToHelm /\ \A k \in CoreDns : marks[k] = Marks)
  BY <1>4 DEF UpdateModel, StillMet
<1> HIDE DEF q, p
<1>7. q = p <=> /\ q.removeAwsCni = p.removeAwsCni
                /\ q.removeKubeProxy = p.removeKubeProxy
                /\ q.removeCoreDns = p.removeCoreDns
                /\ q.importCorednsToHelm = p.importCorednsToHelm
  BY <1>5, SameSettings
<1>8. /\ p.removeAwsCni \in BOOLEAN /\ p.removeKubeProxy \in BOOLEAN
      /\ p.removeCoreDns \in BOOLEAN /\ p.importCorednsToHelm \in BOOLEAN
  BY <1>5 DEF Settings
<1>9. q = p <=> /\ p.removeAwsCni => "awsNode" \notin r.exists
                /\ p.removeKubeProxy =>
                      ~({"kubeProxy", "kubeProxyConfig"} \subseteq r.exists)
                /\ p.removeCoreDns => ~(CoreDns \subseteq r.exists)
                /\ p.importCorednsToHelm => \A k \in CoreDns : marks[k] = Marks
  BY <1>6, <1>7, <1>8
<1>10. QED
  BY <1>1, <1>3, <1>9 DEF InFavour, p

\* The call x and those in skip are behind the run, which has seen exists and marks
\* since, and nothing in them is against its settings.
Harmless(r, x, skip, exists, marks) ==
    /\ r.plan.importCorednsToHelm =>
          \A k \in CoreDns :
             /\ Step("imported", k) \in {x} \cup skip => marks[k] = Marks
             /\ r.marks[k] = Marks => marks[k] = Marks
    /\ r.plan.removeAwsCni => ("awsNode" \in exists => "awsNode" \in r.exists)
    /\ r.plan.removeKubeProxy =>
          \A o \in {"kubeProxy", "kubeProxyConfig"} : o \in exists => o \in r.exists
    /\ r.plan.removeCoreDns => \A k \in CoreDns : k \in exists => k \in r.exists

\* Looking at a cluster that is as the settings ask gives nothing against them.
LEMMA CallBearsOut ==
    ASSUME TypeOK, NEW i \in Jobs, Call(i), job'[i] # Idle, BearsOut(job[i]),
           Cleaned(job[i].plan), job[i].plan.importCorednsToHelm => AllHelms
    PROVE  BearsOut(job'[i])
<1> DEFINE r == job[i]
           s == job'[i]
<1>1. r \in Runs /\ s \in Runs
  <2>1. TypeOK'
    BY TypeStep DEF Next, JobNext
  <2>2. QED
    BY <2>1 DEF TypeOK
<1>2. InFavour(r)
  BY <1>1, BearsOutMeans
<1>3. s.plan = r.plan
  BY CallGoesOn DEF GoesOn
<1>4. CASE WriteEffect(i)
  <2>1. PICK verb \in WriteVerbs, o \in Objects : Writes(i, Step(verb, o), o)
    BY <1>4 DEF WriteEffect
  <2>2. /\ s.todo = r.todo \ {Step(verb, o)}
        /\ \E todo : s = [r EXCEPT !.todo = todo]
    BY <2>1 DEF Writes
  <2>3. s.exists = r.exists /\ s.marks = r.marks
    BY <1>1, <2>2 DEF Runs
  <2>4. \A k : Step("imported", k) # Step(verb, o)
    BY DEF Step, WriteVerbs
  <2>5. \A k \in CoreDns : MarkedOrAhead(r, k) => MarkedOrAhead(s, k)
    BY <2>2, <2>3, <2>4 DEF MarkedOrAhead
  <2>6. InFavour(s)
    BY <1>2, <1>3, <2>3, <2>5 DEF InFavour
  <2>7. QED
    BY <1>1, <2>6, BearsOutMeans
<1>5. ASSUME NEW x, NEW skip, NEW ips, NEW exists, NEW marks,
             Sees(i, x, skip, ips, exists, marks), Harmless(r, x, skip, exists, marks)
      PROVE  BearsOut(s)
  <2>1. s.todo = r.todo \ ({x} \cup skip) /\ s.exists = exists /\ s.marks = marks
    BY <1>5 DEF Sees
  <2>2. r.plan.importCorednsToHelm => \A k \in CoreDns : MarkedOrAhead(s, k)
    BY <1>2, <1>5, <2>1 DEF InFavour, MarkedOrAhead, Harmless
  <2>3. InFavour(s)
    BY <1>2, <1>3, <1>5, <2>1, <2>2 DEF InFavour, Harmless
  <2>4. QED
    BY <1>1, <2>3, BearsOutMeans
<1>6. CASE ProbeEffect(i)
  <2>1. Harmless(r, Probe, {}, r.exists, r.marks)
    BY DEF Harmless, Step, Probe
  <2>2. QED
    BY <1>5, <1>6, <2>1 DEF ProbeEffect
<1>7. ASSUME NEW k \in CoreDns, CheckEffect(i, k) PROVE BearsOut(s)
  <2>1. PICK skip, ips : /\ skip \in SUBSET {Step("remove", k), Step("import", k), Probe}
                       /\ Sees(i, Step("check", k), skip, ips, r.exists, r.marks)
    BY <1>7 DEF CheckEffect
  <2>2. Harmless(r, Step("check", k), skip, r.exists, r.marks)
    BY <2>1 DEF Harmless, Step, Probe
  <2>3. QED
    BY <1>5, <2>1, <2>2
<1>8. ASSUME NEW o \in AddOns, ExistsEffect(i, o) PROVE BearsOut(s)
  <2> DEFINE exists == IF cluster[o] = Absent THEN r.exists ELSE r.exists \cup {o}
             x == Step("exists", o)
  <2>1. Sees(i, x, {}, r.ips, exists, r.marks)
    BY <1>8 DEF ExistsEffect
  <2>2. \A c : Step("imported", c) \notin {x} \cup {}
    BY DEF Step
  <2>3. /\ r.plan.removeAwsCni => ("awsNode" \in exists => "awsNode" \in r.exists)
        /\ r.plan.removeKubeProxy =>
              \A c \in {"kubeProxy", "kubeProxyConfig"} : c \in exists => c \in r.exists
    BY DEF Cleaned, Present, AddOns, CoreDns
  <2>4. \A k \in CoreDns : k \in exists => k \in r.exists
    BY DEF AddOns, CoreDns
  <2>5. Harmless(r, x, {}, exists, r.marks)
    BY <2>2, <2>3, <2>4 DEF Harmless
  <2> HIDE DEF exists, x
  <2>6. QED
    BY <1>5, <2>1, <2>5
<1>9. ASSUME NEW k \in CoreDns, IsAwsEffect(i, k) PROVE BearsOut(s)
  <2> DEFINE exists == IF ExistsAndIsAwsOne(cluster[k]) THEN r.exists \cup {k} ELSE r.exists
             x == Step("isAws", k)
  <2>1. PICK skip, ips : skip \in SUBSET {Probe} /\ Sees(i, x, skip, ips, exists, r.marks)
    BY <1>9 DEF IsAwsEffect
  <2>2. \A c : Step("imported", c) \notin {x} \cup skip
    BY <2>1 DEF Step, Probe
  <2>3. r.plan.removeCoreDns => \A c \in CoreDns : c \in exists => c \in r.exists
    BY DEF Cleaned, Present
  <2>4. \A o \in {"awsNode", "kubeProxy", "kubeProxyConfig"} : o \in exists => o \in r.exists
    BY DEF CoreDns
  <2>5. Harmless(r, x, skip, exists, r.marks)
    BY <2>2, <2>3, <2>4 DEF Harmless
  <2> HIDE DEF exists, x
  <2>6. QED
    BY <1>5, <2>1, <2>5
<1>10. ASSUME NEW k \in CoreDns, ImportedEffect(i, k) PROVE BearsOut(s)
  <2> DEFINE mark == ImportedIntoHelm(cluster[MarkedObject(k)])
             marks == [r.marks EXCEPT ![k] = mark]
             x == Step("imported", k)
  <2>1. Sees(i, x, {}, r.ips, r.exists, marks)
    BY <1>10 DEF ImportedEffect
  <2>2. r.plan.importCorednsToHelm => mark = Marks
    BY DEF AllHelms
  <2> HIDE DEF mark
  <2>3. \A c \in CoreDns : marks[c] = IF c = k THEN mark ELSE r.marks[c]
    BY <1>1 DEF Runs
  <2>4. \A c \in CoreDns \ {k} : Step("imported", c) \notin {x} \cup {}
    BY DEF Step
  <2> HIDE DEF marks
  <2>5. Harmless(r, x, {}, r.exists, marks)
    BY <2>2, <2>3, <2>4 DEF Harmless
  <2> HIDE DEF x
  <2>6. QED
    BY <1>5, <2>1, <2>5
<1>11. QED
  BY <1>4, <1>6, <1>7, <1>8, <1>9, <1>10, CallEffects

-----------------------------------------------------------------------------
(* A job at rest stays there.                                              *)

\* An object that is Helm's, or gone, is so after the step.
HelmsStay ==
    \A k \in CoreDns :
        ImportedIntoHelm(cluster[k]) = Marks => ImportedIntoHelm(cluster'[k]) = Marks

\* No call takes an object from Helm and leaves it there.
LEMMA CallKeepsHelms ==
    ASSUME TypeOK, NEW i \in Jobs, Call(i) PROVE HelmsStay
<1>1. \A o \in Objects : cluster[o] \in KubeObject \cup {Absent}
  BY DEF TypeOK, Clusters
<1>2. CASE UNCHANGED cluster
  BY <1>2 DEF HelmsStay
<1>3. ASSUME NEW s, NEW o \in Objects, NEW v, Write(i, s, o, v),
             ImportedIntoHelm(v) = Marks
      PROVE  HelmsStay
  BY <1>3 DEF Write, HelmsStay, TypeOK, Clusters, Objects
<1>4. ImportedIntoHelm(Absent) = Marks
  BY DEF ImportedIntoHelm
<1>5. ASSUME NEW k \in CoreDns, ImportCoreDns(i, k) PROVE HelmsStay
  <2>1. cluster[k] \in KubeObject /\ Write(i, Step("import", k), k, HelmPatch(cluster[k]))
    BY <1>1, <1>5 DEF ImportCoreDns, Importable, Objects
  <2>2. HelmPatch(cluster[k]) \in KubeObject
    BY <2>1 DEF HelmPatch, KubeObject, Annotations, Labels
  <2>3. ImportedIntoHelm(HelmPatch(cluster[k])) = Marks
    BY <2>1, <2>2, AbsentAssumption
    DEF ImportedIntoHelm, HelmPatch, KubeObject, Marks, Annotations
  <2>4. QED
    BY <1>3, <2>1, <2>3 DEF Objects
<1>6. QED
  BY <1>2, <1>3, <1>4, <1>5, CallShapes
  DEF ReadOnly, Checked, DeleteAddOn, RemoveCoreDns, Objects

\* A step of some job's command.
CommandStep(i) == Advance(i) \/ CallFails(i) \/ EditConfig(i)

\* A command only cleans the cluster, and leaves the other jobs as they are.
LEMMA CommandsClean ==
    ASSUME TypeOK, NEW i \in Jobs, CommandStep(i)
    PROVE  /\ OnlyCleans /\ HelmsStay
           /\ \A j \in Jobs \ {i} : /\ job'[j] = job[j] /\ state'[j] = state[j]
           /\ UNCHANGED tainted \/ \E b : tainted' = [tainted EXCEPT ![i] = b]
           /\ UNCHANGED phase \/ \E p : Enter(i, p)
<1>1. JobNext(i) \/ UNCHANGED vars
  BY DEF CommandStep, Advance, Refresh, Refreshed, PlanCreate, PlanUpdate, PlanDelete,
         NoChanges, Applied, Proceed, Refuse, CallFails, EditConfig, JobNext
<1>2. /\ UNCHANGED tainted \/ \E b : tainted' = [tainted EXCEPT ![i] = b]
      /\ UNCHANGED phase \/ \E p : Enter(i, p)
  BY DEF CommandStep, Advance, Refresh, Refreshed, PlanCreate, PlanUpdate, PlanDelete,
         NoChanges, Applied, Proceed, Refuse, CallFails, EditConfig
<1>3. CASE Call(i)
  <2>1. UNCHANGED state
    BY <1>3, CallEffects
    DEF ProbeEffect, WriteEffect, ExistsEffect, CheckEffect, IsAwsEffect, ImportedEffect,
        Sees, Writes
  <2>2. OnlyCleans /\ HelmsStay /\ OthersStay(i)
    BY <1>3, CallCleans, CallKeepsHelms
  <2>3. /\ OnlyCleans /\ HelmsStay
        /\ \A j \in Jobs \ {i} : job'[j] = job[j] /\ state'[j] = state[j]
    BY <2>1, <2>2 DEF OthersStay
  <2>4. QED
    BY <1>2, <2>3
<1>4. CASE ~Call(i)
  <2>1. UNCHANGED cluster
    BY <1>1, <1>4
    DEF JobNext, BeginCreate, BeginUpdate, BeginRead, ImportState, Begin, Delete,
        StoreState, ApiError, Finish, vars
  <2>2. \A j \in Jobs \ {i} : job'[j] = job[j] /\ state'[j] = state[j]
    BY <1>1, <1>4
    DEF JobNext, BeginCreate, BeginUpdate, BeginRead, ImportState, Begin, Delete,
        StoreState, ApiError, Finish, vars, TypeOK
  <2>3. QED
    BY <1>2, <2>1, <2>2 DEF OnlyCleans, HelmsStay
<1>5. QED
  BY <1>3, <1>4

\* What is clean stays clean, and what is Helm's stays Helm's.
LEMMA CleanStays ==
    ASSUME OnlyCleans, HelmsStay
    PROVE  /\ \A p : Cleaned(p) => Cleaned(p)'
           /\ AllHelms => AllHelms'
<1>1. ASSUME NEW p, Cleaned(p) PROVE Cleaned(p)'
  <2>1. Present' \subseteq Present
    BY DEF OnlyCleans, Present, Objects
  <2>2. cluster["awsNode"] = Absent => cluster'["awsNode"] = Absent
    BY DEF OnlyCleans, Objects, AddOns
  <2>3. QED
    BY <1>1, <2>1, <2>2 DEF Cleaned
<1>2. AllHelms => AllHelms'
  BY DEF AllHelms, HelmsStay, MarkedObject, CoreDns
<1>3. QED
  BY <1>1, <1>2

\* The same for what the settings of one job ask.
AsAsked(p) == Cleaned(p) /\ (p.importCorednsToHelm => AllHelms)

LEMMA AskedStays ==
    ASSUME OnlyCleans, HelmsStay, NEW p, AsAsked(p) PROVE AsAsked(p)'
BY CleanStays DEF AsAsked

\* At rest, in parts.
LEMMA RestMeans ==
    ASSUME NEW j \in Jobs
    PROVE  AtRest(j) <=>
              /\ phase[j] # "apply"
              /\ NoDifference(j)
              /\ config[j] # NoState =>
                    AsAsked(config[j]) /\ (phase[j] = "refresh" => BearsOut(job[j]))
BY DEF AtRest, Settled, AsAsked

\* A refresh that has seen nothing against the settings yet.
LEMMA FreshBearsOut ==
    ASSUME TypeOK, NEW j \in Jobs, BeginRead(j)
    PROVE  BearsOut(job'[j]) /\ job'[j].plan = state[j].settings
<1>1. job'[j] = [Idle EXCEPT !.op = "read", !.plan = state[j].settings,
                             !.todo = ReadSteps("read")]
  BY DEF BeginRead, Begin, TypeOK
<1>2. /\ job'[j].plan = state[j].settings /\ job'[j].exists = {}
      /\ job'[j].todo = ReadSteps("read")
  BY <1>1 DEF Idle
<1>3. job'[j] \in Runs
  <2>1. TypeOK'
    BY TypeStep DEF Next, JobNext
  <2>2. QED
    BY <2>1 DEF TypeOK
<1>4. \A k \in CoreDns : Step("imported", k) \in ReadSteps("read")
  BY DEF ReadSteps, ObserveSteps
<1>5. InFavour(job'[j])
  BY <1>2, <1>4 DEF InFavour, MarkedOrAhead, CoreDns
<1>6. QED
  BY <1>2, <1>3, <1>5, BearsOutMeans

\* A refresh that is over and saw nothing against the settings keeps them.
LEMMA RefreshedKeeps ==
    ASSUME TypeOK, ReadInv, NEW j \in Jobs, StoreState(j), job[j].op = "read",
           BearsOut(job[j])
    PROVE  state'[j] # NoState /\ state'[j].settings = state[j].settings
<1> DEFINE r == job[j]
           m == ReadModel(r, state[j])
<1>1. /\ r \in Runs /\ state[j] \in Models \cup {NoState} /\ r.todo = {}
      /\ r.plan = state[j].settings
  BY DEF TypeOK, ReadInv, StoreState
<1>2. state'[j] = m /\ m \in Models
  BY <1>1, StoredModel, ModelTypes
<1>3. r.plan \in Settings /\ m.settings \in Settings
  BY <1>1, <1>2 DEF Runs, Models
<1>4. InFavour(r)
  BY <1>1, BearsOutMeans
<1>5. r.plan.importCorednsToHelm => \A k \in CoreDns : r.marks[k] = Marks
  BY <1>1, <1>4 DEF InFavour, MarkedOrAhead
<1>6. /\ m.settings.removeAwsCni = r.plan.removeAwsCni
      /\ m.settings.removeKubeProxy = r.plan.removeKubeProxy
      /\ m.settings.removeCoreDns = r.plan.removeCoreDns
      /\ m.settings.importCorednsToHelm = r.plan.importCorednsToHelm
  BY <1>2, <1>3, <1>4, <1>5, ModelFields DEF InFavour, Settings
<1>7. m.settings = r.plan
  BY <1>3, <1>6, SameSettings
<1>8. QED
  BY <1>1, <1>2, <1>7, JobAssumption

\* The command of a job at rest, with the configuration as it is.
LEMMA OwnStepRests ==
    ASSUME TypeOK, PhaseInv, ReadInv, NEW j \in Jobs, CommandStep(j), AtRest(j),
           config'[j] = config[j]
    PROVE  AtRest(j)'
<1> DEFINE c == config[j]
           SameState == state'[j] = state[j] /\ tainted'[j] = tainted[j]
           Rests == /\ phase'[j] # "apply"
                    /\ c # NoState /\ phase'[j] = "refresh" => BearsOut(job'[j])
<1>1. /\ phase[j] # "apply" /\ NoDifference(j)
      /\ c # NoState => AsAsked(c) /\ (phase[j] = "refresh" => BearsOut(job[j]))
  BY RestMeans
<1>2. c # NoState => AsAsked(c)'
  BY <1>1, CommandsClean, AskedStays
<1>3. ASSUME SameState, Rests PROVE AtRest(j)'
  <2>1. NoDifference(j)'
    BY <1>1, <1>3 DEF NoDifference
  <2>2. QED
    BY <1>2, <1>3, <2>1 DEF AtRest, Settled, AsAsked
<1>4. /\ phase \in [Jobs -> {"quiet", "plan", "refresh", "apply"}]
      /\ tainted \in [Jobs -> BOOLEAN] /\ InPhase(j)
  BY DEF PhaseInv
<1>5. CASE Refresh(j)
  <2>1. tainted'[j] = tainted[j] /\ state'[j] = state[j]
    BY <1>5 DEF Refresh, BeginRead, Begin, vars
  <2>2. CASE state[j] = NoState
    <3>1. phase'[j] = "plan"
      BY <1>4, <1>5, <2>2 DEF Refresh, Enter
    <3>2. QED
      BY <1>3, <2>1, <3>1
  <2>3. CASE state[j] # NoState
    <3>1. phase'[j] = "refresh" /\ BeginRead(j)
      BY <1>4, <1>5, <2>3 DEF Refresh, Enter
    <3>2. BearsOut(job'[j])
      BY <3>1, FreshBearsOut
    <3>3. QED
      BY <1>3, <2>1, <3>1, <3>2
  <2>4. QED
    BY <2>2, <2>3
<1>6. CASE Refreshed(j)
  <2>1. phase[j] = "refresh" /\ StoreState(j) /\ job[j].op = "read"
    BY <1>4, <1>6 DEF Refreshed, InPhase
  <2>2. phase'[j] = "plan" /\ tainted'[j] = tainted[j]
    BY <1>4, <1>6 DEF Refreshed, Enter
  <2>3. state[j] # NoState
    BY <2>1 DEF ReadInv
  <2>4. c # NoState /\ state[j].settings = c /\ ~tainted[j]
    BY <1>1, <2>3 DEF NoDifference
  <2>5. state'[j] # NoState /\ state'[j].settings = c
    BY <1>1, <2>1, <2>4, RefreshedKeeps
  <2>6. NoDifference(j)'
    BY <2>2, <2>4, <2>5 DEF NoDifference
  <2>7. QED
    BY <1>2, <2>2, <2>6 DEF AtRest, Settled, AsAsked
<1>7. ASSUME PlanCreate(j) PROVE FALSE
  BY <1>1, <1>7 DEF PlanCreate, BeginCreate, NoDifference
<1>8. ASSUME PlanUpdate(j) PROVE FALSE
  <2>1. c # NoState /\ job'[j].plan = c
    BY <1>8 DEF PlanUpdate
  <2>2. PICK p \in Plans \ {state[j].settings} : Begin(j, "update", p, WriteSteps(p))
    BY <1>8 DEF PlanUpdate, BeginUpdate
  <2>3. job'[j].plan = p
    BY <2>2 DEF Begin, Idle, TypeOK
  <2>4. QED
    BY <1>1, <2>1, <2>2, <2>3 DEF NoDifference
<1>9. ASSUME PlanDelete(j) PROVE FALSE
  BY <1>1, <1>9 DEF PlanDelete, Delete, NoDifference
<1>10. CASE NoChanges(j)
  <2>1. phase'[j] = "quiet" /\ SameState
    BY <1>4, <1>10 DEF NoChanges, Enter, vars
  <2>2. QED
    BY <1>3, <2>1
<1>11. ASSUME Applied(j) PROVE FALSE
  BY <1>1, <1>11 DEF Applied
<1>12. CASE Proceed(j)
  <2>1. Call(j) /\ job'[j].op # "none" /\ phase'[j] = phase[j] /\ tainted'[j] = tainted[j]
    BY <1>12 DEF Proceed
  <2>2. job'[j] # Idle /\ job'[j].op = job[j].op /\ UNCHANGED state
    <3>1. job'[j] # Idle
      BY <2>1 DEF Idle
    <3>2. UNCHANGED state
      BY <2>1, CallEffects
      DEF ProbeEffect, WriteEffect, ExistsEffect, CheckEffect, IsAwsEffect, ImportedEffect,
          Sees, Writes
    <3>3. QED
      BY <2>1, <3>1, <3>2, CallGoesOn DEF GoesOn
  <2>3. phase[j] = "refresh" /\ job[j].op = "read"
    BY <1>1, <1>4, <2>1, <2>2 DEF InPhase
  <2>4. state[j] # NoState /\ job[j].plan = state[j].settings
    BY <2>3 DEF ReadInv
  <2>5. c # NoState /\ job[j].plan = c
    BY <1>1, <2>4 DEF NoDifference
  <2>6. BearsOut(job'[j])
    BY <1>1, <2>1, <2>2, <2>3, <2>5, CallBearsOut DEF AsAsked
  <2>7. QED
    BY <1>3, <2>1, <2>2, <2>3, <2>6
<1>13. CASE Refuse(j) \/ CallFails(j)
  <2>1. phase'[j] = "quiet" /\ tainted'[j] = tainted[j]
    BY <1>4, <1>13 DEF Refuse, CallFails, Enter
  <2>2. UNCHANGED state
    <3>1. ApiError(j) \/ Call(j)
      BY <1>13 DEF Refuse, CallFails
    <3>2. QED
      BY <3>1, CallEffects
      DEF ApiError, ProbeEffect, WriteEffect, ExistsEffect, CheckEffect, IsAwsEffect,
          ImportedEffect, Sees, Writes
  <2>3. QED
    BY <1>3, <2>1, <2>2
<1>14. ASSUME EditConfig(j) PROVE FALSE
  <2>1. PICK d \in (Plans \cup {NoState}) \ {c} : config' = [config EXCEPT ![j] = d]
    BY <1>14 DEF EditConfig
  <2>2. QED
    BY <2>1 DEF PhaseInv
<1>15. QED
  BY <1>5, <1>6, <1>7, <1>8, <1>9, <1>10, <1>11, <1>12, <1>13, <1>14
  DEF CommandStep, Advance

\* The commands of the other jobs.
LEMMA OtherStepRests ==
    ASSUME TypeOK, PhaseInv, NEW i \in Jobs, CommandStep(i), NEW j \in Jobs \ {i},
           AtRest(j), config'[j] = config[j]
    PROVE  AtRest(j)'
<1>1. /\ OnlyCleans /\ HelmsStay
      /\ job'[j] = job[j] /\ state'[j] = state[j]
  BY CommandsClean
<1>2. tainted'[j] = tainted[j] /\ phase'[j] = phase[j]
  BY CommandsClean DEF PhaseInv, Enter
<1>3. config[j] # NoState => AsAsked(config[j])'
  BY <1>1, AskedStays, RestMeans
<1>4. QED
  BY <1>1, <1>2, <1>3 DEF AtRest, Settled, AsAsked, NoDifference

\* Every step but those of another writer.
LEMMA RestStep ==
    ASSUME TypeOK, PhaseInv, ReadInv, [LifeNext]_lifeVars, NEW j \in Jobs, AtRest(j),
           (~OtherWriter /\ config'[j] = config[j]) \/ UNCHANGED lifeVars
    PROVE  AtRest(j)'
<1>1. CASE UNCHANGED lifeVars
  BY <1>1
  DEF lifeVars, vars, AtRest, Settled, NoDifference, Cleaned, Present, AllHelms
<1>2. CASE LifeNext /\ ~OtherWriter /\ config'[j] = config[j]
  <2>1. PICK i \in Jobs : CommandStep(i)
    BY <1>2 DEF LifeNext, CommandStep
  <2>2. QED
    BY <1>2, <2>1, OwnStepRests, OtherStepRests
<1>3. QED
  BY <1>1, <1>2

\* Only another writer, or an edit of its configuration, takes a job out of rest:
\* a refresh does not, nor a failed call, nor what other jobs do meanwhile.
THEOREM RestIsKept == LifeSpec => RestLasts
<1>1. TypeOK /\ PhaseInv /\ ReadInv /\ [LifeNext]_lifeVars =>
        [\A j \in Jobs :
            AtRest(j) /\ ~OtherWriter /\ config'[j] = config[j] => AtRest(j)']_lifeVars
  BY RestStep
<1>2. LifeSpec => []TypeOK /\ []ReadInv
  BY HandlersAsSpecified, TypeCorrect, RefreshKnowsSettings, PTL
<1>3. QED
  BY <1>1, <1>2, PhasesHold, PTL DEF LifeSpec, RestLasts

\* Nobody else writes the cluster from now on, and j is configured as it is.
LeftAlone(j) == [][~OtherWriter /\ config'[j] = config[j]]_lifeVars

\* At rest once is at rest for good, however often Terraform applies and whatever
\* calls fail, as long as only jobs write the cluster.
THEOREM RestForGood ==
    ASSUME NEW j \in Jobs
    PROVE  LifeSpec => [](AtRest(j) /\ LeftAlone(j) => []AtRest(j))
<1>1. TypeOK /\ PhaseInv /\ ReadInv /\ [LifeNext]_lifeVars
        /\ [~OtherWriter /\ config'[j] = config[j]]_lifeVars /\ AtRest(j)
      => AtRest(j)'
  BY RestStep
<1>2. LifeSpec => []TypeOK /\ []ReadInv
  BY HandlersAsSpecified, TypeCorrect, RefreshKnowsSettings, PTL
<1>3. QED
  BY <1>1, <1>2, PhasesHold, PTL DEF LifeSpec, LeftAlone

\* One apply that ends well brings its job to rest.
THEOREM ApplySettles == LifeSpec => AppliedSettles
<1>1. TypeOK /\ SeenInv /\ CleaningInv /\ PhaseInv =>
        [\A j \in Jobs :
            /\ Applied(j) /\ ~touched[j]
            /\ config[j].importCorednsToHelm => AllHelms
            /\ job[j].op = "create" =>
                  config[j].removeAwsCni \/ cluster["awsNode"] # Absent
            => AtRest(j)']_lifeVars
  <2> SUFFICES ASSUME TypeOK, SeenInv, CleaningInv, PhaseInv, NEW j \in Jobs,
                      Applied(j), ~touched[j],
                      config[j].importCorednsToHelm => AllHelms,
                      job[j].op = "create" =>
                         config[j].removeAwsCni \/ cluster["awsNode"] # Absent
               PROVE  AtRest(j)'
    OBVIOUS
  <2>1. /\ StoreState(j) /\ Writing(j) /\ Quiet(j)
        /\ config[j] # NoState /\ job[j].plan = config[j]
    BY DEF Applied, PhaseInv, InPhase, Writing, Quiet
  <2>2. /\ UNCHANGED <<cluster, config>> /\ phase'[j] = "quiet"
        /\ tainted'[j] = (job[j].op = "create" /\ state'[j].settings # config[j])
    BY DEF Applied, StoreState, Finish, Enter, PhaseInv
  <2>3. Cleaned(config[j])
    BY <2>1, FinishedMeansCleaned
  <2>4. config[j].importCorednsToHelm =>
           \A k \in CoreDns \ {"podDisruptionBudget"} : ImportedIntoHelm(cluster[k]) = Marks
    BY DEF AllHelms, MarkedObject
  <2>5. state'[j].settings = config[j]
    BY <2>1, <2>4, FinishedKeepsPlan DEF Writing
  <2>6. state'[j] # NoState
    <3>1. state'[j] \in Models
      BY <2>1, StoredModel, ModelTypes DEF TypeOK
    <3>2. QED
      BY <3>1, JobAssumption
  <2>7. NoDifference(j)'
    BY <2>1, <2>2, <2>5, <2>6 DEF NoDifference
  <2>8. Cleaned(config[j])' /\ (AllHelms => AllHelms')
    BY <2>2, <2>3 DEF Cleaned, Present, AllHelms
  <2>9. QED
    BY <2>2, <2>7, <2>8 DEF AtRest, Settled
<1>2. LifeSpec => []TypeOK /\ []SeenInv /\ []CleaningInv
  BY HandlersAsSpecified, TypeCorrect, SeenInvariant, CleaningInvariant, PTL
<1>3. QED
  BY <1>1, <1>2, PhasesHold, PTL DEF AppliedSettles

\* What is recorded of a job that is not to be replaced is so, until somebody else
\* writes the cluster: nothing is recorded of a command that failed.
RecordIsSo(j) == state[j] # NoState /\ ~tainted[j] => Cleaned(state[j].settings)

RecordsAreSo == \A j \in Jobs : RecordIsSo(j)

\* Settings that ask for less are met where those that ask for more are.
LEMMA LessIsMet ==
    ASSUME NEW p, NEW q, Cleaned(q),
           p.removeAwsCni => q.removeAwsCni, p.removeKubeProxy => q.removeKubeProxy,
           p.removeCoreDns => q.removeCoreDns,
           p.importCorednsToHelm => q.importCorednsToHelm
    PROVE  Cleaned(p)
BY DEF Cleaned

\* Every handler but Create records no more than it was told.
LEMMA RecordsNoMore ==
    ASSUME TypeOK, NEW j \in Jobs, StoreState(j), job[j].op # "create",
           Cleaned(job[j].plan)
    PROVE  Cleaned(state'[j].settings)
BY ModelFields, LessIsMet

\* The handler of job j records what is so.
LEMMA StoredIsSo ==
    ASSUME TypeOK, PhaseInv, CleaningInv, ReadInv, Drifts = {},
           NEW j \in Jobs, RecordIsSo(j), Refreshed(j) \/ Applied(j)
    PROVE  RecordIsSo(j)'
<1>1. StoreState(j) /\ UNCHANGED cluster
  BY DEF Refreshed, Applied, StoreState, Finish
<1>2. SUFFICES ASSUME ~tainted'[j] PROVE Cleaned(state'[j].settings)
  BY <1>1 DEF RecordIsSo, Cleaned, Present
<1>3. CASE Refreshed(j)
  <2>1. job[j].op = "read" /\ ~tainted[j]
    BY <1>2, <1>3 DEF Refreshed, PhaseInv, InPhase
  <2>2. Cleaned(job[j].plan)
    BY <2>1 DEF ReadInv, RecordIsSo
  <2>3. QED
    BY <1>1, <2>1, <2>2, RecordsNoMore
<1>4. CASE Applied(j)
  <2>1. Writing(j) /\ job[j].plan = config[j]
    BY <1>4 DEF Applied, PhaseInv, InPhase, Writing
  <2>2. Cleaned(job[j].plan)
    BY <1>1, <2>1, FinishedMeansCleaned DEF Quiet
  <2>3. CASE job[j].op = "create"
    <3>1. state'[j].settings = config[j]
      BY <1>2, <1>4, <2>3 DEF Applied, PhaseInv
    <3>2. QED
      BY <2>1, <2>2, <3>1
  <2>4. CASE job[j].op # "create"
    BY <1>1, <2>2, <2>4, RecordsNoMore
  <2>5. QED
    BY <2>3, <2>4
<1>5. QED
  BY <1>3, <1>4

\* Every step keeps the records so where only jobs write the cluster.
LEMMA RecordStep ==
    ASSUME Drifts = {}
    PROVE  TypeOK /\ PhaseInv /\ CleaningInv /\ ReadInv /\ RecordsAreSo
             /\ [LifeNext]_lifeVars => RecordsAreSo'
<1> SUFFICES ASSUME TypeOK, PhaseInv, CleaningInv, ReadInv, RecordsAreSo,
                    [LifeNext]_lifeVars, NEW j \in Jobs
             PROVE  RecordIsSo(j)'
  BY DEF RecordsAreSo
<1>1. RecordIsSo(j)
  BY DEF RecordsAreSo
<1>2. CASE UNCHANGED lifeVars
  BY <1>1, <1>2 DEF lifeVars, vars, RecordIsSo, Cleaned, Present
<1>3. ASSUME NEW i \in Jobs, CommandStep(i),
             state'[j] = NoState \/ (state'[j] = state[j] /\ (tainted[j] => tainted'[j]))
      PROVE  RecordIsSo(j)'
  <2>1. \A p : Cleaned(p) => Cleaned(p)'
    BY <1>3, CommandsClean, CleanStays
  <2>2. QED
    BY <1>1, <1>3, <2>1 DEF RecordIsSo
<1>4. CASE Refreshed(j) \/ Applied(j)
  BY <1>1, <1>4, StoredIsSo
<1>5. ASSUME CommandStep(j), ~Refreshed(j), ~Applied(j) PROVE RecordIsSo(j)'
  <2>1. CASE PlanDelete(j)
    <3>1. state'[j] = NoState
      BY <2>1 DEF PlanDelete, Delete, TypeOK
    <3>2. QED
      BY <1>3, <1>5, <3>1
  <2>2. CASE ~PlanDelete(j)
    <3>1. UNCHANGED tainted
      BY <1>5, <2>2
      DEF CommandStep, Advance, Refresh, PlanCreate, PlanUpdate, NoChanges, Proceed,
          Refuse, CallFails, EditConfig
    <3>2. CASE Call(j)
      <4>1. UNCHANGED state
        BY <3>2, CallEffects
        DEF ProbeEffect, WriteEffect, ExistsEffect, CheckEffect, IsAwsEffect,
            ImportedEffect, Sees, Writes
      <4>2. QED
        BY <1>3, <1>5, <3>1, <4>1
    <3>3. CASE ~Call(j)
      <4>1. UNCHANGED state
        BY <1>5, <2>2, <3>3
        DEF CommandStep, Advance, Refresh, PlanCreate, PlanUpdate, NoChanges, Proceed,
            Refuse, CallFails, EditConfig, BeginRead, BeginCreate, BeginUpdate, Begin,
            ApiError, vars
      <4>2. QED
        BY <1>3, <1>5, <3>1, <4>1
    <3>4. QED
      BY <3>2, <3>3
  <2>3. QED
    BY <2>1, <2>2
<1>6. ASSUME NEW i \in Jobs \ {j}, CommandStep(i) PROVE RecordIsSo(j)'
  <2>1. state'[j] = state[j] /\ tainted'[j] = tainted[j]
    BY <1>6, CommandsClean DEF PhaseInv
  <2>2. QED
    BY <1>3, <1>6, <2>1
<1>7. CASE OtherWriter
  BY <1>7 DEF OtherWriter, Drift
<1>8. QED
  BY <1>2, <1>4, <1>5, <1>6, <1>7 DEF LifeNext, CommandStep

\* Among jobs alone on a cluster what is recorded is so, whatever calls failed and
\* wherever they left off.
THEOREM RecordsHold ==
    ASSUME Drifts = {} PROVE LifeSpec => []RecordsAreSo
<1>1. LifeInit => RecordsAreSo
  BY DEF LifeInit, Init, RecordsAreSo, RecordIsSo
<1>2. LifeSpec => []TypeOK /\ []CleaningInv /\ []ReadInv
  BY HandlersAsSpecified, TypeCorrect, CleaningInvariant, RefreshKnowsSettings, PTL
<1>3. QED
  BY <1>1, <1>2, RecordStep, PhasesHold, PTL DEF LifeSpec

\* A plan that shows nothing to do is right, whatever failed before it.
THEOREM EmptyPlansRight ==
    ASSUME Drifts = {} PROVE LifeSpec => EmptyPlanIsRight
<1>1. RecordsAreSo =>
        [\A j \in Jobs :
            NoChanges(j) /\ config[j] # NoState => Cleaned(config[j])]_lifeVars
  BY DEF RecordsAreSo, RecordIsSo, NoChanges, NoDifference
<1>2. QED
  BY <1>1, RecordsHold, PTL DEF EmptyPlanIsRight

\* A refresh notices what was undone completely, whoever did it and whenever.
THEOREM RefreshShowsDrift == LifeSpec => DriftShows
<1>1. TypeOK /\ SeenInv /\ PhaseInv =>
        [\A j \in Jobs :
            /\ Refreshed(j) /\ ~touched[j]
            /\ config[j] # NoState /\ state'[j].settings = config[j]
            => /\ config[j].removeAwsCni => cluster["awsNode"] = Absent
               /\ config[j].removeKubeProxy =>
                     ~({"kubeProxy", "kubeProxyConfig"} \subseteq Present)
               /\ config[j].removeCoreDns => ~(CoreDns \subseteq Present)
               /\ config[j].importCorednsToHelm => AllHelms]_lifeVars
  <2> SUFFICES ASSUME TypeOK, SeenInv, PhaseInv, NEW j \in Jobs, Refreshed(j), ~touched[j],
                      config[j] # NoState, state'[j].settings = config[j]
               PROVE  /\ config[j].removeAwsCni => cluster["awsNode"] = Absent
                      /\ config[j].removeKubeProxy =>
                            ~({"kubeProxy", "kubeProxyConfig"} \subseteq Present)
                      /\ config[j].removeCoreDns => ~(CoreDns \subseteq Present)
                      /\ config[j].importCorednsToHelm => AllHelms
    OBVIOUS
  <2>1. StoreState(j) /\ job[j].op = "read"
    BY DEF Refreshed, PhaseInv, InPhase
  <2>2. /\ config[j] \in Settings /\ job[j].plan \in Settings
    BY JobAssumption DEF PhaseInv, TypeOK, Runs
  <2>3. /\ config[j].removeAwsCni => "awsNode" \notin job[j].exists
        /\ config[j].removeKubeProxy =>
              ~({"kubeProxy", "kubeProxyConfig"} \subseteq job[j].exists)
        /\ config[j].removeCoreDns => ~(CoreDns \subseteq job[j].exists)
        /\ config[j].importCorednsToHelm => \A k \in CoreDns : job[j].marks[k] = Marks
    BY <2>1, <2>2, ModelFields DEF Settings
  <2>4. /\ job[j].exists = Present
        /\ \A k \in CoreDns : job[j].marks[k] = ImportedIntoHelm(cluster[MarkedObject(k)])
    BY <2>1, FinishedHasSeen
  <2>5. "awsNode" \notin Present => cluster["awsNode"] = Absent
    BY DEF Present, AddOns
  <2>6. QED
    BY <2>3, <2>4, <2>5 DEF AllHelms
<1>2. LifeSpec => []TypeOK /\ []SeenInv
  BY HandlersAsSpecified, TypeCorrect, SeenInvariant, PTL
<1>3. QED
  BY <1>1, <1>2, PhasesHold, PTL DEF DriftShows

-----------------------------------------------------------------------------
(* What is proved of the handlers holds of Terraform's commands.           *)

\* What the handlers of a command record is true, and what it was told to.
THEOREM RecordsOfCommands ==
    LifeSpec => StateIsHonest /\ PlanIsKept /\ RefreshIsStable
BY HandlersAsSpecified, HonestState, PlanKept, StableRefresh, PTL

\* Among jobs alone on a cluster every apply that ends well leaves nothing undone,
\* whatever other applies do meanwhile.
THEOREM CommandsCleanTogether ==
    ASSUME Drifts = {} PROVE LifeSpec => JobsTogetherClean
<1>1. Spec => JobsTogetherClean
  BY CleanTogether
<1>2. QED
  BY <1>1, HandlersAsSpecified, PTL

\* No command takes away what is not Amazon's while no objects are handed over.
THEOREM CommandsRemoveOnlyAmazon ==
    ASSUME NoHandover PROVE LifeSpec => OnlyAmazonCoreDnsRemoved
<1>1. Spec => OnlyAmazonCoreDnsRemoved
  BY OnlyAmazonRemoved
<1>2. QED
  BY <1>1, HandlersAsSpecified, PTL

\* The addresses a command records are those of Amazon's service, though the command
\* takes it away, and never none.
THEOREM AddressesOfCommands ==
    ASSUME KubernetesAnswers PROVE LifeSpec => AddressesOutliveService
<1>1. Spec => AddressesOutliveService
  BY AddressesOutlive
<1>2. QED
  BY <1>1, HandlersAsSpecified, PTL

\* Where nothing is asked to be removed and imported at once, no command that is to
\* import CoreDNS takes it away.
THEOREM CommandsKeepDns ==
    ASSUME NoContradiction PROVE LifeSpec => ImportNeverDropsDns
<1>1. Spec => ImportNeverDropsDns
  BY ImportKeepsDns
<1>2. QED
  BY <1>1, HandlersAsSpecified, PTL

\* Where the network has one DNS address, what is recorded serves DNS at all times.
THEOREM AddressesServeDns ==
    ASSUME NEW dns, OneDnsAddress(dns) PROVE LifeSpec => []StoredIpsServeDns
<1>1. Spec => []StoredIpsServeDns
  BY IpsServeDns
<1>2. QED
  BY <1>1, HandlersAsSpecified, PTL

===============================================================================
