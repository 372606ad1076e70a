----------------------------- MODULE AddressProofs -----------------------------
(* A job records the addresses its DNS service has, whatever they are, and  *)
(* never records none.                                                      *)
EXTENDS JobStateProofs

\* Service default/kubernetes is there and has an address, and stays so: EKS keeps
\* it, and nobody else writes it.
KubernetesAnswers ==
    /\ \A c \in InitialClusters : ServiceClusterIps(c["kubernetes"]) # <<>>
    /\ \A d \in Drifts : d[1] = "kubernetes" => ServiceClusterIps(d[2]) # <<>>

DnsService == cluster["service"]

\* The run is still to ask the DNS service for its addresses.
AskAhead(j) ==
    IF Writing(j) THEN Step("check", "service") \in job[j].todo
                  ELSE Step("isAws", "service") \in job[j].todo

\* A run without an address is to ask default/kubernetes; a refresh needs not, for
\* it has one on record.
WillKnow(j) ==
    /\ job[j].op = "read" => state[j] # NoState
    /\ job[j].op \in {"create", "update", "import"} =>
          /\ job[j].ips = <<>> <=> Probe \in job[j].todo
          /\ AskAhead(j) => job[j].ips = <<>>

\* Once it has asked, an undisturbed run knows the service's addresses, and imports
\* the service only if it had them to tell; a refresh knows of no others.
Knows(j) ==
    job[j].op # "none" /\ ~touched[j] /\ ~AskAhead(j) =>
        /\ ServiceClusterIps(DnsService) # <<>> => job[j].ips = ServiceClusterIps(DnsService)
        /\ Step("import", "service") \in job[j].todo => ExistsAndIsAwsOne(DnsService)
        /\ job[j].op = "read" => job[j].ips = ServiceClusterIps(DnsService)

FollowInv ==
    /\ ServiceClusterIps(cluster["kubernetes"]) # <<>>
    /\ \A j \in Jobs :
          /\ OwnCalls(j) /\ WillKnow(j) /\ Knows(j)
          /\ state[j] # NoState => state[j].ips # <<>>

\* The calls of the handlers that matter here.
LEMMA ListedCalls ==
    /\ \A p : /\ Probe \in WriteSteps(p) /\ Step("check", "service") \in WriteSteps(p)
              /\ Step("import", "service") \in WriteSteps(p) =>
                    Step("remove", "service") \notin WriteSteps(p)
    /\ Probe \notin ReadSteps("read")
    /\ Probe \in ReadSteps("import")
    /\ \A op : /\ Step("isAws", "service") \in ReadSteps(op)
               /\ Step("check", "service") \notin ReadSteps(op)
               /\ Step("import", "service") \notin ReadSteps(op)
<1>1. ASSUME NEW p
      PROVE  /\ Probe \in WriteSteps(p) /\ Step("check", "service") \in WriteSteps(p)
             /\ Step("import", "service") \in WriteSteps(p) =>
                   Step("remove", "service") \notin WriteSteps(p)
  BY DEF WriteSteps, AddressSteps, ObserveSteps, Probe, Step, CoreDns
<1>2. Probe \notin ReadSteps("read") /\ Probe \in ReadSteps("import")
  BY DEF ReadSteps, AddressSteps, ObserveSteps, Probe, Step
<1>3. ASSUME NEW op
      PROVE  /\ Step("isAws", "service") \in ReadSteps(op)
             /\ Step("check", "service") \notin ReadSteps(op)
             /\ Step("import", "service") \notin ReadSteps(op)
  BY DEF ReadSteps, AddressSteps, ObserveSteps, Step, CoreDns
<1>4. QED
  BY <1>1, <1>2, <1>3

\* A refresh or an import of the resource writes nothing.
LEMMA ReadsOnlyLook ==
    ASSUME NEW op, NEW verb \in WriteVerbs, NEW o PROVE Step(verb, o) \notin ReadSteps(op)
BY DEF ReadSteps, AddressSteps, ObserveSteps, Step, WriteVerbs

\* What one job has seen is its own; the others keep what they know.
LEMMA SeesFollows ==
    ASSUME FollowInv, NEW i \in Jobs, NEW s, NEW skip, NEW ips, NEW exists, NEW marks,
           Sees(i, s, skip, ips, exists, marks),
           job[i].op # "none" => WillKnow(i)' /\ Knows(i)'
    PROVE  FollowInv'
<1>1. ASSUME NEW j \in Jobs \ {i}
      PROVE  /\ OwnCalls(j)' /\ WillKnow(j)' /\ Knows(j)'
             /\ state'[j] # NoState => state'[j].ips # <<>>
  BY DEF FollowInv, Sees, OwnCalls, WillKnow, Knows, AskAhead, Writing, DnsService
<1>2. OwnCalls(i)'
  BY DEF FollowInv, Sees, OwnCalls, Writing
<1>3. WillKnow(i)' /\ Knows(i)'
  BY DEF Sees, WillKnow, Knows
<1>4. state'[i] # NoState => state'[i].ips # <<>>
  BY DEF FollowInv, Sees
<1>5. QED
  BY <1>1, <1>2, <1>3, <1>4 DEF FollowInv, Sees

\* A Get that asks for something else.
LEMMA OtherGetFollows ==
    ASSUME FollowInv, NEW i \in Jobs, NEW s, NEW skip, NEW exists, NEW marks,
           Sees(i, s, skip, job[i].ips, exists, marks),
           {s} \cup skip \subseteq Steps,
           s # Probe, Probe \in skip => job[i].ips # <<>>,
           Step("check", "service") \notin {s} \cup skip,
           Step("isAws", "service") \in {s} \cup skip => job[i].op \in {"create", "update", "none"}
    PROVE  FollowInv'
<1>1. /\ job'[i].op = job[i].op /\ job'[i].ips = job[i].ips
      /\ job'[i].todo = job[i].todo \ ({s} \cup skip)
      /\ UNCHANGED <<cluster, state, touched>>
  BY DEF Sees
<1>2. job[i].op # "none" => (AskAhead(i)' <=> AskAhead(i))
  BY <1>1 DEF AskAhead, Writing
<1>3. Probe \in job[i].todo /\ job[i].ips = <<>> => Probe \in job'[i].todo
  BY <1>1
<1>4. job[i].op # "none" => WillKnow(i)'
  BY <1>1, <1>2, <1>3 DEF FollowInv, WillKnow
<1>5. job[i].op # "none" => Knows(i)'
  BY <1>1, <1>2 DEF FollowInv, Knows, DnsService
<1>6. QED
  BY <1>4, <1>5, SeesFollows

\* A write of the run: the service it imports keeps its addresses, the service it
\* removes has none left.
LEMMA WriteFollows ==
    ASSUME TypeOK, FollowInv, NEW i \in Jobs, WriteEffect(i)
    PROVE  FollowInv'
<1>1. PICK verb \in WriteVerbs, o \in Objects \ {"kubernetes"} :
         /\ Writes(i, Step(verb, o), o)
         /\ o = "service" /\ cluster'[o] # Absent =>
               verb = "import" /\ cluster'[o] = HelmPatch(cluster[o])
  BY DEF WriteEffect
<1>2. cluster'["service"] # Absent => cluster["service"] # Absent
  BY DEF WriteEffect
<1>3. cluster'["kubernetes"] = cluster["kubernetes"]
  BY <1>1 DEF Writes, Objects
<1>4. ASSUME NEW j \in Jobs \ {i}
      PROVE  /\ OwnCalls(j)' /\ WillKnow(j)' /\ Knows(j)'
             /\ state'[j] # NoState => state'[j].ips # <<>>
  BY <1>1 DEF FollowInv, Writes, OwnCalls, WillKnow, Knows, AskAhead, Writing, DnsService
<1>5. state'[i] # NoState => state'[i].ips # <<>>
  BY <1>1 DEF FollowInv, Writes
<1>6. ASSUME job'[i] = Idle PROVE OwnCalls(i)' /\ WillKnow(i)' /\ Knows(i)'
  BY <1>6 DEF OwnCalls, WillKnow, Knows, Writing, Idle
<1>7. ASSUME job'[i] # Idle PROVE OwnCalls(i)' /\ WillKnow(i)' /\ Knows(i)'
  <2>1. /\ touched'[i] = touched[i] /\ job'[i].todo = job[i].todo \ {Step(verb, o)}
        /\ \E todo : job'[i] = [job[i] EXCEPT !.todo = todo]
    BY <1>1, <1>7 DEF Writes
  <2>2. /\ job'[i].op = job[i].op /\ job'[i].plan = job[i].plan
        /\ job'[i].ips = job[i].ips
    BY <2>1 DEF TypeOK, Runs
  <2>3. /\ Step(verb, o) # Probe /\ Step(verb, o) # Step("check", "service")
        /\ Step(verb, o) # Step("isAws", "service")
    BY DEF Step, Probe, WriteVerbs
  <2>4. OwnCalls(i)' /\ (AskAhead(i)' <=> AskAhead(i))
    BY <2>1, <2>2, <2>3 DEF FollowInv, OwnCalls, AskAhead, Writing
  <2>5. WillKnow(i)'
    BY <1>1, <2>1, <2>2, <2>3, <2>4 DEF FollowInv, WillKnow, Writes
  <2>6. Step(verb, o) \in job[i].todo /\ job'[i].op # "read"
    <3>1. Step(verb, o) \in job[i].todo
      BY <1>1 DEF Writes, IsNext
    <3>2. QED
      BY <2>2, <3>1, ReadsOnlyLook DEF FollowInv, OwnCalls
  <2>7. ASSUME o # "service" PROVE Knows(i)'
    <3>1. cluster'["service"] = cluster["service"]
      BY <1>1, <2>7 DEF Writes, Objects, CoreDns
    <3>2. QED
      BY <2>1, <2>2, <2>4, <2>6, <3>1 DEF FollowInv, Knows, DnsService
  <2>8. ASSUME o = "service", cluster'["service"] = Absent PROVE Knows(i)'
    <3>1. ServiceClusterIps(cluster'["service"]) = <<>>
      BY <2>8 DEF ServiceClusterIps
    <3>2. CASE verb = "import"
      BY <2>1, <2>6, <2>8, <3>1, <3>2 DEF Knows, DnsService
    <3>3. CASE verb # "import"
      <4>1. Writing(i) => Step(verb, "service") \in WriteSteps(job[i].plan)
        BY <2>6, <2>8 DEF FollowInv, OwnCalls
      <4>2. verb = "remove" => (Writing(i) => Step("import", "service") \notin job[i].todo)
        BY <4>1, ListedCalls DEF FollowInv, OwnCalls
      <4>3. Step("delete", "service") \notin WriteSteps(job[i].plan)
        BY DEF WriteSteps, RequestedAddOns, AddOns, AddressSteps, ObserveSteps, Step
      <4>4. verb \in {"delete", "remove", "import"}
        BY DEF WriteVerbs
      <4>5. Writing(i) => Step("import", "service") \notin job'[i].todo
        BY <2>1, <3>3, <4>1, <4>2, <4>3, <4>4
      <4>6. job[i].op \in {"read", "import"} => Step("import", "service") \notin job'[i].todo
        BY <2>1, ListedCalls DEF FollowInv, OwnCalls
      <4>7. job[i].op \in {"none", "create", "update", "read", "import"}
        BY DEF TypeOK, Runs
      <4>8. QED
        BY <2>2, <2>6, <3>1, <4>5, <4>6, <4>7 DEF Knows, DnsService, Writing
    <3>4. QED
      BY <3>2, <3>3
  <2>9. ASSUME o = "service", cluster'["service"] # Absent PROVE Knows(i)'
    <3>1. /\ verb = "import" /\ cluster'["service"] = HelmPatch(cluster["service"])
          /\ cluster["service"] \in KubeObject /\ cluster["service"] # Absent
      BY <1>1, <1>2, <2>9 DEF TypeOK, Clusters, Objects, CoreDns
    <3>2. ServiceClusterIps(cluster'["service"]) # <<>> =>
             cluster["service"].ips = ServiceClusterIps(cluster'["service"])
      BY <3>1 DEF ServiceClusterIps, HelmPatch, KubeObject
    <3>3. ExistsAndIsAwsOne(DnsService) =>
             ServiceClusterIps(DnsService) = cluster["service"].ips
      BY <3>1 DEF ExistsAndIsAwsOne, ServiceClusterIps, DnsService
    <3>4. Step("import", "service") \notin job'[i].todo
      BY <2>1, <2>9, <3>1
    <3>5. QED
      BY <2>1, <2>2, <2>4, <2>6, <2>9, <3>1, <3>2, <3>3, <3>4
      DEF FollowInv, Knows, DnsService
  <2>10. QED
    BY <2>4, <2>5, <2>7, <2>8, <2>9
<1>8. OwnCalls(i)' /\ WillKnow(i)' /\ Knows(i)'
  BY <1>6, <1>7
<1>9. QED
  BY <1>3, <1>4, <1>5, <1>8 DEF FollowInv

\* Asking default/kubernetes: nobody had an address for the run by then.
LEMMA ProbeFollows ==
    ASSUME TypeOK, FollowInv, NEW i \in Jobs, ProbeEffect(i) PROVE FollowInv'
<1> DEFINE ips == DnsClusterIps(ServiceClusterIps(cluster["kubernetes"]))
<1>1. Sees(i, Probe, {}, ips, job[i].exists, job[i].marks)
  BY DEF ProbeEffect
<1>2. ips # <<>>
  BY DEF FollowInv, DnsClusterIps
<1> HIDE DEF ips
<1>3. /\ IsNext(i, Probe) /\ job'[i].op = job[i].op /\ job'[i].ips = ips
      /\ job'[i].todo = job[i].todo \ {Probe}
      /\ UNCHANGED <<cluster, state, touched>>
  BY <1>1 DEF Sees
<1>4. Probe \in job[i].todo
  BY <1>3 DEF IsNext
<1>5. job[i].op # "read"
  BY <1>4, ListedCalls DEF FollowInv, OwnCalls
<1>6. ASSUME job[i].op \in {"create", "update", "import"} PROVE ~AskAhead(i)
  <2>1. job[i].op = "import" => Step("check", "service") \notin job[i].todo
    BY ListedCalls DEF FollowInv, OwnCalls
  <2>2. ~LookupAhead(i)
    BY <1>3, <1>6, <2>1, LookupFirst
  <2>3. QED
    BY <1>6, <2>2 DEF LookupAhead, AskAhead, Writing
<1>7. job[i].op \in {"create", "update", "import"} => ~AskAhead(i)'
  BY <1>3, <1>6 DEF AskAhead, Writing
<1>8. job[i].op # "none" => WillKnow(i)'
  BY <1>2, <1>3, <1>5, <1>7 DEF WillKnow
<1>9. ASSUME job[i].op \in {"create", "update", "import"} PROVE Knows(i)'
  <2>1. job[i].ips = <<>>
    BY <1>4, <1>9 DEF FollowInv, WillKnow
  <2>2. ~touched[i] => ServiceClusterIps(DnsService) = <<>>
    BY <1>6, <1>9, <2>1 DEF FollowInv, Knows
  <2>3. QED
    BY <1>3, <1>6, <1>9, <2>2 DEF FollowInv, Knows, DnsService
<1>10. job[i].op \in {"none", "create", "update", "import"}
  BY <1>5 DEF TypeOK, Runs
<1>11. QED
  BY <1>1, <1>8, <1>9, <1>10, SeesFollows

\* The check of the service also gives a Create or Update its addresses.
LEMMA CheckFollows ==
    ASSUME FollowInv, NEW i \in Jobs, NEW k \in CoreDns, CheckEffect(i, k)
    PROVE  FollowInv'
<1> DEFINE ips == IF k = "service" THEN ServiceClusterIps(cluster[k]) ELSE job[i].ips
           s == Step("check", k)
<1>1. PICK skip \in SUBSET {Step("remove", k), Step("import", k), Probe} :
         /\ ips = <<>> => Probe \notin skip
         /\ ips # <<>> => Probe \in skip
         /\ ~ExistsAndIsAwsOne(cluster[k]) => Step("import", k) \in skip
         /\ Sees(i, s, skip, ips, job[i].exists, job[i].marks)
  BY DEF CheckEffect
<1>2. CASE k # "service"
  <2>1. {s} \cup skip \subseteq Steps
    BY DEF Steps, Step, Verbs, Objects, CoreDns, Probe
  <2>2. /\ s # Probe /\ Step("check", "service") \notin {s} \cup skip
        /\ Step("isAws", "service") \notin {s} \cup skip
    BY <1>2 DEF Step, Probe
  <2>3. Sees(i, s, skip, job[i].ips, job[i].exists, job[i].marks)
        /\ (Probe \in skip => job[i].ips # <<>>)
    BY <1>1, <1>2
  <2> HIDE DEF s
  <2>4. QED
    BY <2>1, <2>2, <2>3, OtherGetFollows
<1>3. CASE k = "service"
  <2>1. /\ s \in job[i].todo /\ job'[i].op = job[i].op /\ job'[i].ips = ips
        /\ job'[i].todo = job[i].todo \ ({s} \cup skip)
        /\ UNCHANGED <<cluster, state, touched>>
    BY <1>1 DEF Sees, IsNext
  <2>2. s # Probe
    BY DEF Step, Probe
  <2>3. job[i].op \notin {"read", "import"}
    BY <1>3, <2>1, ListedCalls DEF FollowInv, OwnCalls
  <2>4. Writing(i) => AskAhead(i) /\ ~AskAhead(i)'
    BY <1>3, <2>1 DEF AskAhead, Writing
  <2>5. Writing(i) => Probe \in job[i].todo
    BY <2>4 DEF FollowInv, WillKnow, Writing
  <2>6. ips = <<>> <=> Probe \notin skip
    BY <1>1
  <2>7. ASSUME job[i].op # "none" PROVE WillKnow(i)'
    BY <2>1, <2>2, <2>3, <2>4, <2>5, <2>6, <2>7 DEF WillKnow, Writing
  <2>8. Knows(i)'
    <3>1. ips = ServiceClusterIps(DnsService)
      BY <1>3 DEF DnsService
    <3>2. Step("import", "service") \in job'[i].todo => ExistsAndIsAwsOne(DnsService)
      BY <1>1, <1>3, <2>1 DEF DnsService
    <3> HIDE DEF ips
    <3>3. QED
      BY <2>1, <3>1, <3>2 DEF Knows, DnsService
  <2> HIDE DEF s, ips
  <2>9. QED
    BY <1>1, <2>7, <2>8, SeesFollows
<1>4. QED
  BY <1>2, <1>3

\* Looking at the service gives a refresh or an import its addresses.
LEMMA IsAwsFollows ==
    ASSUME TypeOK, FollowInv, NEW i \in Jobs, NEW k \in CoreDns, IsAwsEffect(i, k)
    PROVE  FollowInv'
<1> DEFINE lookup == job[i].op \in {"read", "import"} /\ k = "service"
           ips == IF lookup THEN ServiceClusterIps(cluster[k]) ELSE job[i].ips
           exists == IF ExistsAndIsAwsOne(cluster[k])
                     THEN job[i].exists \cup {k} ELSE job[i].exists
           s == Step("isAws", k)
<1>1. PICK skip \in SUBSET {Probe} :
         /\ ips = <<>> => Probe \notin skip
         /\ ips # <<>> => Probe \in skip
         /\ Sees(i, s, skip, ips, exists, job[i].marks)
  BY DEF IsAwsEffect
<1> HIDE DEF exists
<1>2. CASE ~lookup
  <2>1. {s} \cup skip \subseteq Steps
    BY DEF Steps, Step, Verbs, Objects, CoreDns, Probe
  <2>2. s # Probe /\ Step("check", "service") \notin {s} \cup skip
    BY DEF Step, Probe
  <2>3. Step("isAws", "service") \in {s} \cup skip => job[i].op \in {"create", "update", "none"}
    <3>1. Step("isAws", "service") \in {s} \cup skip => k = "service"
      BY DEF Step, Probe
    <3>2. QED
      BY <1>2, <3>1 DEF TypeOK, Runs
  <2>4. Sees(i, s, skip, job[i].ips, exists, job[i].marks)
        /\ (Probe \in skip => job[i].ips # <<>>)
    BY <1>1, <1>2
  <2> HIDE DEF s
  <2>5. QED
    BY <2>1, <2>2, <2>3, <2>4, OtherGetFollows
<1>3. CASE lookup
  <2>1. /\ s \in job[i].todo /\ job'[i].op = job[i].op /\ job'[i].ips = ips
        /\ job'[i].todo = job[i].todo \ ({s} \cup skip)
        /\ UNCHANGED <<cluster, state, touched>>
    BY <1>1 DEF Sees, IsNext
  <2>2. s # Probe
    BY DEF Step, Probe
  <2>3. AskAhead(i) /\ ~AskAhead(i)'
    BY <1>3, <2>1 DEF AskAhead, Writing
  <2>4. job[i].op = "import" => Probe \in job[i].todo
    BY <2>3 DEF FollowInv, WillKnow
  <2>5. ips = <<>> <=> Probe \notin skip
    BY <1>1
  <2>6. WillKnow(i)'
    BY <1>3, <2>1, <2>2, <2>3, <2>4, <2>5 DEF FollowInv, WillKnow
  <2>7. Knows(i)'
    <3>1. ips = ServiceClusterIps(DnsService)
      BY <1>3 DEF DnsService
    <3>2. Step("import", "service") \notin job'[i].todo
      BY <1>3, <2>1, ListedCalls DEF FollowInv, OwnCalls
    <3> HIDE DEF ips
    <3>3. QED
      BY <2>1, <3>1, <3>2 DEF Knows, DnsService
  <2> HIDE DEF s, ips
  <2>8. QED
    BY <1>1, <2>6, <2>7, SeesFollows
<1>4. QED
  BY <1>2, <1>3

\* Every call of a run.
LEMMA CallFollows ==
    ASSUME TypeOK, FollowInv, NEW i \in Jobs, Call(i) PROVE FollowInv'
<1>1. ASSUME NEW o \in AddOns, ExistsEffect(i, o) PROVE FollowInv'
  <2> DEFINE s == Step("exists", o)
             exists == IF cluster[o] = Absent THEN job[i].exists ELSE job[i].exists \cup {o}
  <2>1. Sees(i, s, {}, job[i].ips, exists, job[i].marks)
    BY <1>1 DEF ExistsEffect
  <2>2. /\ {s} \cup {} \subseteq Steps /\ s # Probe
        /\ Step("check", "service") \notin {s} \cup {}
        /\ Step("isAws", "service") \notin {s} \cup {}
    BY DEF Steps, Step, Verbs, Objects, Probe
  <2> HIDE DEF s, exists
  <2>3. QED
    BY <2>1, <2>2, OtherGetFollows
<1>2. ASSUME NEW k \in CoreDns, ImportedEffect(i, k) PROVE FollowInv'
  <2> DEFINE s == Step("imported", k)
             marks == [job[i].marks EXCEPT ![k] = ImportedIntoHelm(cluster[MarkedObject(k)])]
  <2>1. Sees(i, s, {}, job[i].ips, job[i].exists, marks)
    BY <1>2 DEF ImportedEffect
  <2>2. /\ {s} \cup {} \subseteq Steps /\ s # Probe
        /\ Step("check", "service") \notin {s} \cup {}
        /\ Step("isAws", "service") \notin {s} \cup {}
    BY DEF Steps, Step, Verbs, Objects, Probe
  <2> HIDE DEF s, marks
  <2>3. QED
    BY <2>1, <2>2, OtherGetFollows
<1>3. QED
  BY <1>1, <1>2, WriteFollows, ProbeFollows, CheckFollows, IsAwsFollows, CallEffects

\* A run that begins is still to ask.
LEMMA BeginFollows ==
    ASSUME TypeOK, FollowInv, NEW i \in Jobs,
           BeginCreate(i) \/ BeginUpdate(i) \/ BeginRead(i) \/ ImportState(i)
    PROVE  FollowInv'
<1>1. PICK op, p, todo :
         /\ op \in {"create", "update", "read", "import"}
         /\ Begin(i, op, p, todo)
         /\ op \in {"create", "update"} => todo = WriteSteps(p)
         /\ op \in {"read", "import"} => todo = ReadSteps(op)
         /\ op = "read" => state[i] # NoState
  BY DEF BeginCreate, BeginUpdate, BeginRead, ImportState
<1>2. /\ job'[i].op = op /\ job'[i].plan = p /\ job'[i].todo = todo /\ job'[i].ips = <<>>
      /\ \A j \in Jobs \ {i} : job'[j] = job[j]
      /\ UNCHANGED <<cluster, state, touched>>
  BY <1>1 DEF Begin, Idle, TypeOK
<1>3. OwnCalls(i)'
  BY <1>1, <1>2 DEF OwnCalls, Writing
<1>4. AskAhead(i)'
  BY <1>1, <1>2, ListedCalls DEF AskAhead, Writing
<1>5. WillKnow(i)'
  BY <1>1, <1>2, ListedCalls DEF WillKnow
<1>6. Knows(i)'
  BY <1>4 DEF Knows
<1>7. ASSUME NEW j \in Jobs \ {i} PROVE OwnCalls(j)' /\ WillKnow(j)' /\ Knows(j)'
  BY <1>2 DEF FollowInv, OwnCalls, WillKnow, Knows, AskAhead, Writing, DnsService
<1>8. QED
  BY <1>2, <1>3, <1>5, <1>6, <1>7 DEF FollowInv

\* The addresses a finished run stores, by handler.
LEMMA StoredAddresses ==
    ASSUME TypeOK, NEW j \in Jobs, StoreState(j)
    PROVE  state'[j].ips = IF /\ job[j].op \in {"read", "import"}
                              /\ job[j].ips = <<>> /\ state[j] # NoState
                           THEN state[j].ips ELSE job[j].ips
<1>1. UpdateModel(job[j]).ips = job[j].ips /\ CreateModel(job[j]).ips = job[j].ips
  BY DEF UpdateModel, CreateModel
<1>2. ReadModel(job[j], state[j]).ips =
        IF job[j].ips = <<>> /\ state[j] # NoState THEN state[j].ips ELSE job[j].ips
  BY DEF ReadModel, UpdateModel
<1>3. job[j].op \in {"create", "update", "read", "import"}
  BY DEF StoreState, TypeOK, Runs
<1>4. QED
  BY <1>1, <1>2, <1>3, StoredModel

\* A finished run has an address to store, and an undisturbed one the service's.
LEMMA FinishedKnows ==
    ASSUME TypeOK, FollowInv, NEW j \in Jobs, StoreState(j)
    PROVE  /\ state'[j].ips # <<>>
           /\ ~touched[j] /\ ServiceClusterIps(DnsService) # <<>> =>
                 state'[j].ips = ServiceClusterIps(DnsService)
<1>1. /\ job[j].todo = {} /\ job[j].op \in {"create", "update", "read", "import"}
      /\ ~AskAhead(j)
  BY DEF StoreState, TypeOK, Runs, AskAhead
<1>2. job[j].op # "read" => job[j].ips # <<>>
  BY <1>1 DEF FollowInv, WillKnow
<1>3. job[j].op = "read" => state[j] # NoState /\ state[j].ips # <<>>
  BY <1>1 DEF FollowInv, WillKnow
<1>4. ~touched[j] /\ ServiceClusterIps(DnsService) # <<>> =>
         job[j].ips = ServiceClusterIps(DnsService)
  BY <1>1 DEF FollowInv, Knows
<1>5. QED
  BY <1>1, <1>2, <1>3, <1>4, StoredAddresses

\* Every step keeps it.
LEMMA FollowStep ==
    ASSUME KubernetesAnswers
    PROVE  TypeOK /\ FollowInv /\ [Next]_vars => FollowInv'
<1> SUFFICES ASSUME TypeOK, FollowInv, [Next]_vars PROVE FollowInv'
  OBVIOUS
<1>1. CASE Drift
  <2>1. PICK d \in Drifts : cluster' = [cluster EXCEPT ![d[1]] = d[2]]
    BY <1>1 DEF Drift
  <2>2. ServiceClusterIps(cluster'["kubernetes"]) # <<>>
    BY <2>1 DEF KubernetesAnswers, FollowInv, TypeOK, Clusters, Objects
  <2>3. UNCHANGED <<job, state>> /\ \A j \in Jobs : job[j].op # "none" => touched'[j]
    BY <1>1 DEF Drift
  <2>4. \A j \in Jobs : Knows(j)'
    BY <2>3 DEF Knows
  <2>5. QED
    BY <2>2, <2>3, <2>4 DEF FollowInv, OwnCalls, WillKnow, AskAhead, Writing
<1>2. ASSUME NEW i \in Jobs, StoreState(i) \/ ApiError(i) \/ Delete(i) PROVE FollowInv'
  <2>1. /\ UNCHANGED cluster /\ job'[i].op = "none"
        /\ \A j \in Jobs \ {i} : job'[j] = job[j] /\ state'[j] = state[j]
                                 /\ touched'[j] = touched[j]
    BY <1>2 DEF StoreState, ApiError, Delete, Finish, Idle, TypeOK
  <2>2. state'[i] # NoState => state'[i].ips # <<>>
    <3>1. CASE StoreState(i)
      BY <3>1, FinishedKnows
    <3>2. CASE ApiError(i) \/ Delete(i)
      BY <3>2 DEF ApiError, Delete, FollowInv, TypeOK
    <3>3. QED
      BY <1>2, <3>1, <3>2
  <2>3. OwnCalls(i)' /\ WillKnow(i)' /\ Knows(i)'
    BY <2>1 DEF OwnCalls, WillKnow, Knows, Writing
  <2>4. ASSUME NEW j \in Jobs \ {i}
        PROVE  /\ OwnCalls(j)' /\ WillKnow(j)' /\ Knows(j)'
               /\ state'[j] # NoState => state'[j].ips # <<>>
    BY <2>1 DEF FollowInv, OwnCalls, WillKnow, Knows, AskAhead, Writing, DnsService
  <2>5. QED
    BY <2>1, <2>2, <2>3, <2>4 DEF FollowInv
<1>3. CASE UNCHANGED vars
  BY <1>3 DEF vars, FollowInv, OwnCalls, WillKnow, Knows, AskAhead, Writing, DnsService
<1>4. QED
  BY <1>1, <1>2, <1>3, CallFollows, BeginFollows DEF Next, JobNext

\* No run loses track of the addresses, whatever fails and whoever writes.
THEOREM FollowInvariant ==
    ASSUME KubernetesAnswers PROVE Spec => []FollowInv
<1>1. Init => FollowInv
  BY DEF Init, KubernetesAnswers, FollowInv, OwnCalls, WillKnow, Knows, Writing, Idle
<1>2. TypeOK /\ FollowInv /\ [Next]_vars => FollowInv'
  BY FollowStep
<1>3. QED
  BY <1>1, <1>2, TypeCorrect, PTL DEF Spec

\* A run that takes Amazon's service away has its addresses by then: it asked first.
LEMMA TakerKnows ==
    ASSUME TypeOK, FollowInv, NEW j \in Jobs, [Next]_vars, job'[j] # job[j],
           AmazonIps # <<>>, AmazonIps' = <<>>, ~touched[j], job[j].op # "none"
    PROVE  job[j].ips = AmazonIps
<1>1. /\ ExistsAndIsAwsOne(DnsService) /\ AmazonIps = ServiceClusterIps(DnsService)
  BY DEF AmazonIps, DnsService, ServiceClusterIps, ExistsAndIsAwsOne
<1>2. cluster'["service"] # cluster["service"]
  BY DEF AmazonIps
<1>3. PICK i \in Jobs : Call(i)
  <2>1. ~Drift /\ ~UNCHANGED vars
    BY <1>2 DEF Drift, vars
  <2>2. PICK i \in Jobs : JobNext(i)
    BY <2>1 DEF Next
  <2>3. QED
    BY <1>2, <2>2 DEF JobNext, BeginCreate, BeginUpdate, BeginRead, ImportState, Begin,
                      Delete, StoreState, ApiError, Finish
<1>4. WriteEffect(i)
  BY <1>2, <1>3, CallEffects
  DEF ProbeEffect, CheckEffect, IsAwsEffect, ExistsEffect, ImportedEffect, Sees
<1>5. PICK verb \in WriteVerbs, o \in Objects \ {"kubernetes"} : Writes(i, Step(verb, o), o)
  BY <1>4 DEF WriteEffect
<1>6. i = j /\ o = "service" /\ IsNext(j, Step(verb, "service"))
  BY <1>2, <1>5 DEF Writes, TypeOK, Clusters, Objects, CoreDns
<1>7. ~AskAhead(j)
  <2>1. /\ Step(verb, "service") \in job[j].todo
        /\ Rank(job[j].op, Step(verb, "service")) <=
              Rank(job[j].op, Step("check", "service")) \/ ~AskAhead(j) \/ ~Writing(j)
    BY <1>6 DEF IsNext, AskAhead
  <2>2. Writing(j)
    <3>1. job[j].op \in {"none", "create", "update", "read", "import"}
      BY DEF TypeOK, Runs
    <3>2. QED
      BY <2>1, <3>1, ReadsOnlyLook DEF FollowInv, OwnCalls, Writing
  <2>3. Rank(job[j].op, Step("check", "service")) = 1
    BY DEF Rank
  <2>4. Rank(job[j].op, Step(verb, "service")) \in {32, 52, 62}
    BY <2>2 DEF Rank, Step, Phase, Position, WriteVerbs, Writing
  <2>5. QED
    BY <2>1, <2>2, <2>3, <2>4
<1>8. QED
  BY <1>1, <1>7 DEF FollowInv, Knows

\* As the documentation has it, an undisturbed run records the addresses of Amazon's
\* service, though it is the one that takes that service away, and no run records
\* none, whatever addresses services are given.
THEOREM AddressesOutlive ==
    ASSUME KubernetesAnswers PROVE Spec => AddressesOutliveService
<1>1. TypeOK /\ FollowInv /\ [Next]_vars =>
        [\A j \in Jobs :
            /\ StoredUndisturbed(j, {"create", "update", "read", "import"}) =>
                  /\ AmazonIps # <<>> => state'[j].ips = AmazonIps
                  /\ state'[j].ips # <<>>
            /\ StoredUndisturbed(j, {"read"}) /\ cluster["service"] = Absent =>
                  state'[j].ips = state[j].ips
            /\ /\ job[j].op # "none" /\ ~touched[j] /\ job'[j] # job[j]
               /\ AmazonIps # <<>> /\ AmazonIps' = <<>>
               => job[j].ips = AmazonIps]_vars
  <2> SUFFICES ASSUME TypeOK, FollowInv, [Next]_vars, NEW j \in Jobs
               PROVE  /\ StoredUndisturbed(j, {"create", "update", "read", "import"}) =>
                            /\ AmazonIps # <<>> => state'[j].ips = AmazonIps
                            /\ state'[j].ips # <<>>
                      /\ StoredUndisturbed(j, {"read"}) /\ cluster["service"] = Absent =>
                            state'[j].ips = state[j].ips
                      /\ /\ job[j].op # "none" /\ ~touched[j] /\ job'[j] # job[j]
                         /\ AmazonIps # <<>> /\ AmazonIps' = <<>>
                         => job[j].ips = AmazonIps
    OBVIOUS
  <2>1. AmazonIps # <<>> => AmazonIps = ServiceClusterIps(DnsService)
    BY DEF AmazonIps, DnsService, ServiceClusterIps, ExistsAndIsAwsOne
  <2>2. ASSUME StoredUndisturbed(j, {"create", "update", "read", "import"})
        PROVE  state'[j].ips # <<>> /\ (AmazonIps # <<>> => state'[j].ips = AmazonIps)
    BY <2>1, <2>2, FinishedKnows DEF StoredUndisturbed
  <2>3. ASSUME StoredUndisturbed(j, {"read"}), cluster["service"] = Absent
        PROVE  state'[j].ips = state[j].ips
    <3>1. /\ StoreState(j) /\ ~touched[j] /\ job[j].op = "read"
          /\ state[j] # NoState
      BY <2>3 DEF StoredUndisturbed, FollowInv, WillKnow
    <3>2. job[j].ips = <<>>
      <4>1. ServiceClusterIps(DnsService) = <<>> /\ ~AskAhead(j)
        BY <2>3, <3>1 DEF ServiceClusterIps, DnsService, StoreState, AskAhead
      <4>2. QED
        BY <3>1, <4>1 DEF FollowInv, Knows
    <3>3. QED
      BY <3>1, <3>2, StoredAddresses
  <2>4. QED
    BY <2>2, <2>3, TakerKnows
<1>2. QED
  BY <1>1, FollowInvariant, TypeCorrect, PTL DEF Spec, AddressesOutliveService
===============================================================================
