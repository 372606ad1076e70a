---------------------------- MODULE JobStateProofs -----------------------------
(* What a run that ends well records: the addresses of the DNS service, and *)
(* the cluster as the last calls of the run found it.                       *)
EXTENDS JobResourceProofs

-----------------------------------------------------------------------------
(* What a call does to the run that makes it.                              *)

Probe == Step("probe", "kubernetes")

\* A Get: the call s and those in skip are off the list, and the run knows this.
Sees(i, s, skip, ips, exists, marks) ==
    /\ IsNext(i, s) /\ UNCHANGED <<cluster, state, touched>>
    /\ \A j \in Jobs \ {i} : job'[j] = job[j]
    /\ job'[i].op = job[i].op /\ job'[i].plan = job[i].plan
    /\ job'[i].todo = job[i].todo \ ({s} \cup skip)
    /\ job'[i].ips = ips /\ job'[i].exists = exists /\ job'[i].marks = marks

\* A write: the run has only lost a call, or is over.
Writes(i, s, o) ==
    /\ IsNext(i, s) /\ UNCHANGED state
    /\ \A x \in Objects \ {o} : cluster'[x] = cluster[x]
    /\ \A j \in Jobs \ {i} :
          /\ job'[j] = job[j]
          /\ job[j].op # "none" /\ ~touched'[j] => UNCHANGED cluster /\ ~touched[j]
    /\ \/ job'[i] = Idle
       \/ /\ touched'[i] = touched[i]
          /\ job'[i].todo = job[i].todo \ {s}
          /\ \E todo : job'[i] = [job[i] EXCEPT !.todo = todo]

\* What Observed leaves, field by field.
LEMMA ObservedSees ==
    ASSUME TypeOK, NEW i \in Jobs, NEW s, NEW skip, NEW ips, NEW exists, NEW marks,
           NEW r \in Runs, Observed(i, s, r),
           r.op = job[i].op, r.plan = job[i].plan, r.todo = job[i].todo \ skip,
           r.ips = ips, r.exists = exists, r.marks = marks
    PROVE  Sees(i, s, skip, ips, exists, marks)
<1>1. job'[i] = [r EXCEPT !.todo = r.todo \ {s}]
  BY DEF Observed, TypeOK
<1>2. /\ job'[i].op = r.op /\ job'[i].plan = r.plan /\ job'[i].todo = r.todo \ {s}
      /\ job'[i].ips = r.ips /\ job'[i].exists = r.exists /\ job'[i].marks = r.marks
  BY <1>1 DEF Runs
<1>3. r.todo \ {s} = job[i].todo \ ({s} \cup skip)
  OBVIOUS
<1>4. /\ IsNext(i, s) /\ UNCHANGED <<cluster, state, touched>>
      /\ \A j \in Jobs \ {i} : job'[j] = job[j]
  BY DEF Observed, TypeOK
<1>5. QED
  BY <1>2, <1>3, <1>4 DEF Sees

\* What Write leaves.
LEMMA WriteWrites ==
    ASSUME TypeOK, NEW i \in Jobs, NEW s, NEW o \in Objects, NEW v, Write(i, s, o, v)
    PROVE  Writes(i, s, o)
<1>1. PICK answered \in BOOLEAN :
         /\ job' = [job EXCEPT ![i] = IF answered
                      THEN [job[i] EXCEPT !.todo = job[i].todo \ {s}] ELSE Idle]
         /\ touched' = [j \in Jobs |->
               IF j = i THEN touched[i] /\ answered
               ELSE touched[j] \/ (job[j].op # "none" /\ cluster' # cluster)]
  BY DEF Write
<1>2. IsNext(i, s) /\ UNCHANGED state /\ cluster' = [cluster EXCEPT ![o] = v]
  BY DEF Write
<1>3. \A x \in Objects \ {o} : cluster'[x] = cluster[x]
  BY <1>2 DEF TypeOK, Clusters
<1>4. ASSUME NEW j \in Jobs \ {i}
      PROVE  /\ job'[j] = job[j]
             /\ job[j].op # "none" /\ ~touched'[j] => UNCHANGED cluster /\ ~touched[j]
  BY <1>1 DEF TypeOK
<1>5. CASE answered
  <2>1. job'[i] = [job[i] EXCEPT !.todo = job[i].todo \ {s}]
    BY <1>1, <1>5 DEF TypeOK
  <2>2. job'[i].todo = job[i].todo \ {s}
    BY <2>1 DEF TypeOK, Runs
  <2>3. touched'[i] = touched[i]
    BY <1>1, <1>5 DEF TypeOK
  <2>4. QED
    BY <1>2, <1>3, <1>4, <2>1, <2>2, <2>3 DEF Writes
<1>6. CASE ~answered
  <2>1. job'[i] = Idle
    BY <1>1, <1>6 DEF TypeOK
  <2>2. QED
    BY <1>2, <1>3, <1>4, <2>1 DEF Writes
<1>7. QED
  BY <1>5, <1>6

WriteVerbs == {"delete", "remove", "import"}

ProbeEffect(i) ==
    Sees(i, Probe, {}, DnsClusterIps(ServiceClusterIps(cluster["kubernetes"])),
         job[i].exists, job[i].marks)

ExistsEffect(i, o) ==
    Sees(i, Step("exists", o), {}, job[i].ips,
         IF cluster[o] = Absent THEN job[i].exists ELSE job[i].exists \cup {o},
         job[i].marks)

ImportedEffect(i, k) ==
    Sees(i, Step("imported", k), {}, job[i].ips, job[i].exists,
         [job[i].marks EXCEPT ![k] = ImportedIntoHelm(cluster[MarkedObject(k)])])

CheckEffect(i, k) ==
    LET ips == IF k = "service" THEN ServiceClusterIps(cluster[k]) ELSE job[i].ips
    IN  \E skip \in SUBSET {Step("remove", k), Step("import", k), Probe} :
            /\ ips = <<>> => Probe \notin skip
            /\ ips # <<>> => Probe \in skip
            /\ ~ExistsAndIsAwsOne(cluster[k]) => Step("import", k) \in skip
            /\ Sees(i, Step("check", k), skip, ips, job[i].exists, job[i].marks)

IsAwsEffect(i, k) ==
    LET ips == IF job[i].op \in {"read", "import"} /\ k = "service"
               THEN ServiceClusterIps(cluster[k]) ELSE job[i].ips
    IN  \E skip \in SUBSET {Probe} :
            /\ ips = <<>> => Probe \notin skip
            /\ ips # <<>> => Probe \in skip
            /\ Sees(i, Step("isAws", k), skip, ips,
                    IF ExistsAndIsAwsOne(cluster[k])
                    THEN job[i].exists \cup {k} ELSE job[i].exists, job[i].marks)

\* No write gives the service another address, and one that leaves it is an import.
WriteEffect(i) ==
    /\ \E verb \in WriteVerbs, o \in Objects \ {"kubernetes"} :
          /\ Writes(i, Step(verb, o), o)
          /\ o = "service" /\ cluster'[o] # Absent =>
                verb = "import" /\ cluster'[o] = HelmPatch(cluster[o])
    /\ cluster'["service"] # Absent =>
          cluster["service"] # Absent /\ cluster'["service"].ips = cluster["service"].ips

\* Every call is one of these.
LEMMA CallEffects ==
    ASSUME TypeOK, NEW i \in Jobs, Call(i)
    PROVE  \/ ProbeEffect(i) \/ WriteEffect(i)
           \/ \E o \in AddOns : ExistsEffect(i, o)
           \/ \E k \in CoreDns : CheckEffect(i, k) \/ IsAwsEffect(i, k) \/ ImportedEffect(i, k)
<1>1. /\ job[i] \in Runs
      /\ \A o \in Objects : cluster[o] \in KubeObject \cup {Absent}
  BY DEF TypeOK, Clusters
<1>2. ASSUME ProbeKubernetes(i) PROVE ProbeEffect(i)
  <2> DEFINE ips == DnsClusterIps(ServiceClusterIps(cluster["kubernetes"]))
             r == [job[i] EXCEPT !.ips = ips]
  <2>1. ips \in Seq(Address)
    BY <1>1, ClientTypes, DnsType DEF Objects
  <2>2. Observed(i, Probe, r)
    BY <1>2 DEF ProbeKubernetes, Probe
  <2> HIDE DEF ips
  <2>3. /\ r \in Runs /\ r.op = job[i].op /\ r.plan = job[i].plan
        /\ r.todo = job[i].todo \ {} /\ r.ips = ips
        /\ r.exists = job[i].exists /\ r.marks = job[i].marks
    BY <1>1, <2>1 DEF Runs
  <2> HIDE DEF r
  <2>4. Sees(i, Probe, {}, ips, job[i].exists, job[i].marks)
    BY <2>2, <2>3, ObservedSees
  <2>5. QED
    BY <2>4 DEF ProbeEffect, ips
<1>3. ASSUME NEW o \in AddOns, ObserveExists(i, o) PROVE ExistsEffect(i, o)
  <2> DEFINE exists == IF cluster[o] = Absent THEN job[i].exists ELSE job[i].exists \cup {o}
             s == Step("exists", o)
             r == [job[i] EXCEPT !.exists = exists]
  <2>1. exists \in SUBSET Objects
    BY <1>1 DEF Objects, Runs
  <2>2. Observed(i, s, r)
    BY <1>3 DEF ObserveExists
  <2> HIDE DEF exists, s
  <2>3. /\ r \in Runs /\ r.op = job[i].op /\ r.plan = job[i].plan
        /\ r.todo = job[i].todo \ {} /\ r.ips = job[i].ips
        /\ r.exists = exists /\ r.marks = job[i].marks
    BY <1>1, <2>1 DEF Runs
  <2> HIDE DEF r
  <2>4. Sees(i, s, {}, job[i].ips, exists, job[i].marks)
    BY <2>2, <2>3, ObservedSees
  <2>5. QED
    BY <2>4 DEF ExistsEffect, exists, s
<1>4. ASSUME NEW k \in CoreDns, ObserveImported(i, k) PROVE ImportedEffect(i, k)
  <2> DEFINE mark == ImportedIntoHelm(cluster[MarkedObject(k)])
             marks == [job[i].marks EXCEPT ![k] = mark]
             s == Step("imported", k)
             r == [job[i] EXCEPT !.marks[k] = mark]
  <2>1. mark \in SUBSET Marks
    BY <1>1, ClientTypes DEF MarkedObject, Objects, CoreDns
  <2>2. Observed(i, s, r)
    BY <1>4 DEF ObserveImported
  <2> HIDE DEF mark, s
  <2>3. marks \in [CoreDns -> SUBSET Marks]
    BY <1>1, <2>1 DEF Runs
  <2>4. r = [job[i] EXCEPT !.marks = marks]
    OBVIOUS
  <2> HIDE DEF r, marks
  <2>5. /\ r \in Runs /\ r.op = job[i].op /\ r.plan = job[i].plan
        /\ r.todo = job[i].todo \ {} /\ r.ips = job[i].ips
        /\ r.exists = job[i].exists /\ r.marks = marks
    BY <1>1, <2>3, <2>4 DEF Runs
  <2>6. Sees(i, s, {}, job[i].ips, job[i].exists, marks)
    BY <2>2, <2>5, ObservedSees
  <2>7. QED
    BY <2>6 DEF ImportedEffect, marks, mark, s
<1>5. ASSUME NEW k \in CoreDns, ObserveIsAws(i, k) PROVE IsAwsEffect(i, k)
  <2> DEFINE s == Step("isAws", k)
             ips == IF job[i].op \in {"read", "import"} /\ k = "service"
                    THEN ServiceClusterIps(cluster[k]) ELSE job[i].ips
             skip == IF ips = <<>> THEN {} ELSE {Probe}
             exists == IF ExistsAndIsAwsOne(cluster[k])
                       THEN job[i].exists \cup {k} ELSE job[i].exists
             todo == IF ips = <<>> THEN job[i].todo ELSE job[i].todo \ {Probe}
             r == [job[i] EXCEPT !.exists = exists, !.ips = ips, !.todo = todo]
  <2>1. ips \in Seq(Address)
    BY <1>1, ClientTypes DEF Runs, Objects
  <2>2. exists \in SUBSET Objects /\ todo \in SUBSET Steps /\ todo = job[i].todo \ skip
    BY <1>1 DEF Runs, Objects
  <2>3. Observed(i, s, r)
    BY <1>5 DEF ObserveIsAws, AddressSteps, Probe
  <2>4. skip \in SUBSET {Probe} /\ (ips = <<>> => Probe \notin skip)
        /\ (ips # <<>> => Probe \in skip)
    OBVIOUS
  <2> HIDE DEF ips, exists, todo, skip, s
  <2>5. /\ r \in Runs /\ r.op = job[i].op /\ r.plan = job[i].plan
        /\ r.todo = todo /\ r.ips = ips /\ r.exists = exists /\ r.marks = job[i].marks
    BY <1>1, <2>1, <2>2 DEF Runs
  <2> HIDE DEF r
  <2>6. Sees(i, s, skip, ips, exists, job[i].marks)
    BY <2>2, <2>3, <2>5, ObservedSees
  <2>7. QED
    BY <2>4, <2>6 DEF IsAwsEffect, ips, exists, s
<1>6. ASSUME NEW k \in CoreDns, CheckIsAwsOne(i, k) PROVE CheckEffect(i, k)
  <2> DEFINE s == Step("check", k)
             ips == IF k = "service" THEN ServiceClusterIps(cluster[k]) ELSE job[i].ips
             skip == (IF ExistsAndIsAwsOne(cluster[k])
                      THEN {} ELSE {Step("remove", k), Step("import", k)})
                     \cup (IF ips = <<>> THEN {} ELSE {Probe})
             r == [job[i] EXCEPT !.todo = job[i].todo \ skip, !.ips = ips]
  <2>1. ips \in Seq(Address)
    BY <1>1, ClientTypes DEF Runs, Objects
  <2>2. Observed(i, s, r)
    BY <1>6 DEF CheckIsAwsOne, SkippedWith, AddressSteps, Probe
  <2>3. /\ skip \in SUBSET {Step("remove", k), Step("import", k), Probe}
        /\ ips = <<>> => Probe \notin skip
        /\ ips # <<>> => Probe \in skip
        /\ ~ExistsAndIsAwsOne(cluster[k]) => Step("import", k) \in skip
    BY DEF Step, Probe, CoreDns
  <2> HIDE DEF ips, skip, s
  <2>4. /\ r \in Runs /\ r.op = job[i].op /\ r.plan = job[i].plan
        /\ r.todo = job[i].todo \ skip /\ r.ips = ips
        /\ r.exists = job[i].exists /\ r.marks = job[i].marks
    BY <1>1, <2>1 DEF Runs
  <2> HIDE DEF r
  <2>5. Sees(i, s, skip, ips, job[i].exists, job[i].marks)
    BY <2>2, <2>4, ObservedSees
  <2>6. QED
    BY <2>3, <2>5 DEF CheckEffect, ips, s
<1>7. ASSUME NEW o \in AddOns, DeleteAddOn(i, o) PROVE WriteEffect(i)
  <2>1. Write(i, Step("delete", o), o, Absent) /\ o \in Objects \ {"kubernetes", "service"}
    BY <1>7 DEF DeleteAddOn, Objects, AddOns
  <2>2. Writes(i, Step("delete", o), o)
    BY <2>1, WriteWrites
  <2>3. cluster'["service"] = cluster["service"]
    BY <2>1 DEF Write, TypeOK, Clusters, Objects, CoreDns
  <2>4. QED
    BY <2>1, <2>2, <2>3 DEF WriteEffect, WriteVerbs
<1>8. ASSUME NEW k \in CoreDns, RemoveCoreDns(i, k) \/ ImportCoreDns(i, k)
      PROVE  WriteEffect(i)
  <2>1. PICK verb, v : /\ verb \in WriteVerbs /\ Write(i, Step(verb, k), k, v)
                       /\ v # Absent => /\ verb = "import" /\ cluster[k] # Absent
                                        /\ v = HelmPatch(cluster[k])
    BY <1>8 DEF RemoveCoreDns, ImportCoreDns, Importable, WriteVerbs
  <2>2. k \in Objects \ {"kubernetes"}
    BY DEF Objects, CoreDns
  <2>3. Writes(i, Step(verb, k), k)
    BY <2>1, <2>2, WriteWrites
  <2>4. v # Absent => v.ips = cluster[k].ips
    BY <1>1, <2>1, <2>2 DEF HelmPatch, KubeObject
  <2>5. cluster'["service"] = IF k = "service" THEN v ELSE cluster["service"]
    BY <2>1 DEF Write, TypeOK, Clusters, Objects, CoreDns
  <2>6. QED
    BY <2>1, <2>2, <2>3, <2>4, <2>5 DEF WriteEffect
<1>9. QED
  BY <1>2, <1>3, <1>4, <1>5, <1>6, <1>7, <1>8 DEF Call

-----------------------------------------------------------------------------
(* Addresses.                                                              *)

\* The cluster network has one DNS address: whoever writes the service gives it
\* that one, and it is the one derived from default/kubernetes, which nobody
\* writes.  A service without labels is held to it too: its addresses are not
\* reported, but an import that finds it in the place of the one it checked labels
\* it.
ServesDns(dns, c) ==
    /\ c["kubernetes"] # Absent /\ c["kubernetes"].labels # {}
    /\ DnsClusterIps(c["kubernetes"].ips) = dns
    /\ c["service"] # Absent => c["service"].ips = dns

OneDnsAddress(dns) ==
    /\ dns # <<>>
    /\ \A c \in InitialClusters : ServesDns(dns, c)
    /\ \A d \in Drifts :
          /\ d[1] # "kubernetes"
          /\ d[1] = "service" /\ d[2] # Absent => d[2].ips = dns

\* The call that asks kube-dns itself is still ahead.
LookupAhead(j) ==
    \/ Step("check", "service") \in job[j].todo
    \/ job[j].op = "import" /\ Step("isAws", "service") \in job[j].todo

\* A run that has no address yet will ask for one, or has recorded one earlier.
IpsInv(dns, j) ==
    /\ job[j].ips \in {<<>>, dns}
    /\ job[j].op \in {"create", "update", "import"} =>
          /\ job[j].ips = <<>> => Probe \in job[j].todo
          /\ LookupAhead(j) => job[j].ips = <<>>
    /\ job[j].op = "import" => Step("check", "service") \notin job[j].todo
    /\ job[j].op = "read" => state[j] # NoState
    /\ state[j] # NoState => state[j].ips = dns

AddressInv(dns) == ServesDns(dns, cluster) /\ \A j \in Jobs : IpsInv(dns, j)

\* kube-dns is asked before default/kubernetes.
LEMMA LookupFirst ==
    ASSUME NEW j \in Jobs, IsNext(j, Probe),
           job[j].op \in {"create", "update", "read"}
             \/ (job[j].op = "import" /\ Step("check", "service") \notin job[j].todo)
    PROVE  job[j].op # "read" => ~LookupAhead(j)
<1>1. \A s \in job[j].todo : Rank(job[j].op, Probe) <= Rank(job[j].op, s)
  BY DEF IsNext
<1>2. Rank(job[j].op, Step("check", "service")) = 1
  BY DEF Rank
<1>3. Rank(job[j].op, Probe) \in {25, 85} /\ (job[j].op = "import" => Rank(job[j].op, Probe) = 85)
  BY DEF Rank, Probe, Step, Phase, Position
<1>4. Rank(job[j].op, Step("isAws", "service")) = 82
  BY DEF Rank, Step, Phase, Position
<1>5. ~(25 <= 1) /\ ~(85 <= 1) /\ ~(85 <= 82)
  OBVIOUS
<1>6. QED
  BY <1>1, <1>2, <1>3, <1>4, <1>5 DEF LookupAhead

\* What the network serves is what ServiceExistsAndIsAwsOne answers.
LEMMA ServedAddresses ==
    ASSUME NEW dns, ServesDns(dns, cluster)
    PROVE  /\ ServiceClusterIps(cluster["service"]) \in {<<>>, dns}
           /\ DnsClusterIps(ServiceClusterIps(cluster["kubernetes"])) = dns
BY DEF ServesDns, ServiceClusterIps

\* A call of the run leaves it with the right address, or with a call that gets it.
LEMMA CallKeepsIps ==
    ASSUME TypeOK, NEW dns, dns # <<>>, AddressInv(dns), NEW i \in Jobs, Call(i)
    PROVE  AddressInv(dns)'
<1> USE DEF AddressInv
<1>1. CASE WriteEffect(i)
  <2>1. PICK verb \in WriteVerbs, o \in Objects \ {"kubernetes"} : Writes(i, Step(verb, o), o)
    BY <1>1 DEF WriteEffect
  <2>2. cluster'["kubernetes"] = cluster["kubernetes"]
    BY <2>1 DEF Writes, Objects
  <2>3. ServesDns(dns, cluster')
    BY <1>1, <2>2 DEF WriteEffect, ServesDns
  <2>4. CASE job'[i] = Idle
    BY <2>1, <2>3, <2>4 DEF Writes, IpsInv, Idle, LookupAhead
  <2>5. CASE job'[i] # Idle
    <3>1. /\ job'[i].todo = job[i].todo \ {Step(verb, o)}
          /\ \E todo : job'[i] = [job[i] EXCEPT !.todo = todo]
      BY <2>1, <2>5 DEF Writes
    <3>2. job'[i].ips = job[i].ips /\ job'[i].op = job[i].op
      BY <3>1 DEF TypeOK, Runs
    <3>3. Step(verb, o) # Probe
      BY DEF Step, Probe, WriteVerbs
    <3>4. UNCHANGED state /\ \A j \in Jobs \ {i} : job'[j] = job[j]
      BY <2>1 DEF Writes
    <3>5. IpsInv(dns, i)'
      BY <3>1, <3>2, <3>3, <3>4 DEF IpsInv, LookupAhead
    <3>6. \A j \in Jobs \ {i} : IpsInv(dns, j)'
      BY <3>4 DEF IpsInv, LookupAhead
    <3>7. QED
      BY <2>3, <3>5, <3>6
  <2>6. QED
    BY <2>4, <2>5
<1>2. ASSUME NEW s, NEW skip, NEW ips, NEW exists, NEW marks,
             Sees(i, s, skip, ips, exists, marks), IpsInv(dns, i)'
      PROVE  AddressInv(dns)'
  BY <1>2 DEF Sees, IpsInv, LookupAhead, ServesDns
<1>3. ASSUME NEW s, NEW skip, NEW exists, NEW marks,
             Sees(i, s, skip, job[i].ips, exists, marks),
             s # Probe, job[i].ips = <<>> => Probe \notin skip
      PROVE  IpsInv(dns, i)'
  BY <1>3 DEF Sees, IpsInv, LookupAhead
<1>4. CASE ProbeEffect(i)
  <2>1. Sees(i, Probe, {}, dns, job[i].exists, job[i].marks)
    BY <1>4, ServedAddresses DEF ProbeEffect
  <2>2. IsNext(i, Probe)
    BY <2>1 DEF Sees
  <2>3. job[i].op \in {"create", "update", "import"} => ~LookupAhead(i)
    BY <2>2, LookupFirst DEF IpsInv
  <2>4. IpsInv(dns, i)'
    BY <2>1, <2>3 DEF Sees, IpsInv, LookupAhead
  <2>5. QED
    BY <1>2, <2>1, <2>4
<1>5. ASSUME NEW o \in AddOns, ExistsEffect(i, o) PROVE AddressInv(dns)'
  <2>1. Step("exists", o) # Probe
    BY DEF Step, Probe
  <2>2. QED
    BY <1>2, <1>3, <1>5, <2>1 DEF ExistsEffect
<1>6. ASSUME NEW k \in CoreDns, ImportedEffect(i, k) PROVE AddressInv(dns)'
  <2>1. Step("imported", k) # Probe
    BY DEF Step, Probe
  <2>2. QED
    BY <1>2, <1>3, <1>6, <2>1 DEF ImportedEffect
<1>7. ASSUME NEW k \in CoreDns, CheckEffect(i, k) PROVE AddressInv(dns)'
  <2> DEFINE ips == IF k = "service" THEN ServiceClusterIps(cluster[k]) ELSE job[i].ips
             s == Step("check", k)
  <2>1. PICK skip \in SUBSET {Step("remove", k), Step("import", k), Probe} :
           /\ ips = <<>> => Probe \notin skip
           /\ Sees(i, s, skip, ips, job[i].exists, job[i].marks)
    BY <1>7 DEF CheckEffect
  <2>2. s # Probe
    BY DEF Step, Probe
  <2>3. CASE k # "service"
    BY <1>2, <1>3, <2>1, <2>2, <2>3
  <2>4. CASE k = "service"
    <3>1. ips \in {<<>>, dns}
      BY <2>4, ServedAddresses
    <3>2. s \in job[i].todo
      BY <2>1 DEF Sees, IsNext
    <3>3. /\ job'[i].todo = job[i].todo \ ({s} \cup skip) /\ job'[i].ips = ips
          /\ job'[i].op = job[i].op /\ UNCHANGED state
      BY <2>1 DEF Sees
    <3>4. job[i].op # "import"
      BY <2>4, <3>2 DEF IpsInv
    <3>5. job[i].op \in {"create", "update"} => Probe \in job[i].todo
      BY <2>4, <3>2 DEF IpsInv, LookupAhead
    <3>6. s \notin job'[i].todo /\ (ips = <<>> /\ Probe \in job[i].todo => Probe \in job'[i].todo)
      BY <2>1, <2>2, <3>3
    <3> HIDE DEF ips
    <3>7. IpsInv(dns, i)'
      BY <2>4, <3>1, <3>3, <3>4, <3>5, <3>6 DEF IpsInv, LookupAhead
    <3>8. QED
      BY <1>2, <2>1, <3>7
  <2>5. QED
    BY <2>3, <2>4
<1>8. ASSUME NEW k \in CoreDns, IsAwsEffect(i, k) PROVE AddressInv(dns)'
  <2> DEFINE lookup == job[i].op \in {"read", "import"} /\ k = "service"
             ips == IF lookup THEN ServiceClusterIps(cluster[k]) ELSE job[i].ips
             exists == IF ExistsAndIsAwsOne(cluster[k])
                       THEN job[i].exists \cup {k} ELSE job[i].exists
             s == Step("isAws", k)
  <2>1. PICK skip \in SUBSET {Probe} :
           /\ ips = <<>> => Probe \notin skip
           /\ Sees(i, s, skip, ips, exists, job[i].marks)
    BY <1>8 DEF IsAwsEffect
  <2>2. s # Probe
    BY DEF Step, Probe
  <2>3. CASE ~lookup
    BY <1>2, <1>3, <2>1, <2>2, <2>3
  <2>4. CASE lookup
    <3>1. ips \in {<<>>, dns}
      BY <2>4, ServedAddresses
    <3>2. s \in job[i].todo
      BY <2>1 DEF Sees, IsNext
    <3>3. /\ job'[i].todo = job[i].todo \ ({s} \cup skip) /\ job'[i].ips = ips
          /\ job'[i].op = job[i].op /\ UNCHANGED state
      BY <2>1 DEF Sees
    <3>4. job[i].op = "import" => Probe \in job[i].todo
      BY <2>4, <3>2 DEF IpsInv, LookupAhead
    <3>5. s \notin job'[i].todo /\ (ips = <<>> /\ Probe \in job[i].todo => Probe \in job'[i].todo)
      BY <2>1, <2>2, <3>3
    <3> HIDE DEF ips
    <3>6. IpsInv(dns, i)'
      BY <2>4, <3>1, <3>3, <3>4, <3>5 DEF IpsInv, LookupAhead
    <3>7. QED
      BY <1>2, <2>1, <3>6
  <2>5. QED
    BY <2>3, <2>4
<1>9. QED
  BY <1>1, <1>4, <1>5, <1>6, <1>7, <1>8, CallEffects

\* A run starts with the calls that get it an address.
LEMMA BeginKeepsIps ==
    ASSUME TypeOK, NEW dns, AddressInv(dns), NEW i \in Jobs,
           BeginCreate(i) \/ BeginUpdate(i) \/ BeginRead(i) \/ ImportState(i)
    PROVE  AddressInv(dns)'
<1>1. PICK op, p, todo :
         /\ op \in {"create", "update", "read", "import"}
         /\ Begin(i, op, p, todo)
         /\ op \in {"create", "update"} => todo = WriteSteps(p)
         /\ op \in {"read", "import"} => todo = ReadSteps(op)
         /\ op = "read" => state[i] # NoState
  BY DEF BeginCreate, BeginUpdate, BeginRead, ImportState
<1>2. /\ job'[i].op = op /\ job'[i].todo = todo /\ job'[i].ips = <<>>
      /\ \A j \in Jobs \ {i} : job'[j] = job[j]
      /\ UNCHANGED <<cluster, state>>
  BY <1>1 DEF Begin, Idle, TypeOK
<1>3. op \in {"create", "update", "import"} => Probe \in todo
  BY <1>1 DEF WriteSteps, ReadSteps, AddressSteps, Probe
<1>4. op = "import" => Step("check", "service") \notin todo
  BY <1>1 DEF ReadSteps, ObserveSteps, AddressSteps, Step
<1>5. IpsInv(dns, i)'
  BY <1>1, <1>2, <1>3, <1>4 DEF AddressInv, IpsInv
<1>6. \A j \in Jobs \ {i} : IpsInv(dns, j)'
  BY <1>2 DEF AddressInv, IpsInv, LookupAhead
<1>7. QED
  BY <1>2, <1>5, <1>6 DEF AddressInv

\* A run that ends well has an address, or keeps the recorded one.
LEMMA StoredIps ==
    ASSUME TypeOK, NEW dns, dns # <<>>, AddressInv(dns), NEW i \in Jobs, StoreState(i)
    PROVE  AddressInv(dns)'
<1>1. /\ job[i].todo = {} /\ job[i].op \in {"create", "update", "read", "import"}
      /\ job'[i] = Idle /\ UNCHANGED cluster
      /\ \A j \in Jobs \ {i} : job'[j] = job[j] /\ state'[j] = state[j]
  BY DEF StoreState, Finish, TypeOK, Runs
<1>2. job[i].op # "read" => job[i].ips = dns
  BY <1>1 DEF AddressInv, IpsInv
<1>3. job[i].op = "read" => state[i] # NoState /\ state[i].ips = dns
  BY <1>1 DEF AddressInv, IpsInv
<1>4. UpdateModel(job[i]).ips = job[i].ips /\ CreateModel(job[i]).ips = job[i].ips
  BY DEF UpdateModel, CreateModel
<1>5. ReadModel(job[i], state[i]).ips =
        IF job[i].ips = <<>> /\ state[i] # NoState THEN state[i].ips ELSE job[i].ips
  BY DEF ReadModel, UpdateModel
<1>6. state'[i].ips = dns
  <2>1. state'[i] = IF job[i].op = "create" THEN CreateModel(job[i])
                    ELSE IF job[i].op = "update" THEN UpdateModel(job[i])
                    ELSE ReadModel(job[i], state[i])
    BY DEF StoreState, TypeOK
  <2>2. job[i].ips \in {<<>>, dns}
    BY DEF AddressInv, IpsInv
  <2>3. QED
    BY <1>1, <1>2, <1>3, <1>4, <1>5, <2>1, <2>2
<1>7. IpsInv(dns, i)'
  BY <1>1, <1>6 DEF IpsInv, Idle, LookupAhead
<1>8. \A j \in Jobs \ {i} : IpsInv(dns, j)'
  BY <1>1 DEF AddressInv, IpsInv, LookupAhead
<1>9. QED
  BY <1>1, <1>7, <1>8 DEF AddressInv

\* Every step keeps the addresses right.
LEMMA AddressStep ==
    ASSUME NEW dns, OneDnsAddress(dns)
    PROVE  TypeOK /\ AddressInv(dns) /\ [Next]_vars => AddressInv(dns)'
<1> SUFFICES ASSUME TypeOK, AddressInv(dns), [Next]_vars PROVE AddressInv(dns)'
  OBVIOUS
<1>1. dns # <<>>
  BY DEF OneDnsAddress
<1>2. CASE Drift
  <2>1. PICK d \in Drifts : cluster' = [cluster EXCEPT ![d[1]] = d[2]]
    BY <1>2 DEF Drift
  <2>2. ServesDns(dns, cluster')
    BY <2>1 DEF OneDnsAddress, AddressInv, ServesDns, TypeOK, Clusters, Objects, CoreDns
  <2>3. UNCHANGED <<job, state>>
    BY <1>2 DEF Drift
  <2>4. QED
    BY <2>2, <2>3 DEF AddressInv, IpsInv, LookupAhead
<1>3. ASSUME NEW i \in Jobs, Delete(i) \/ ApiError(i) PROVE AddressInv(dns)'
  <2>1. /\ UNCHANGED cluster
        /\ \A j \in Jobs : job'[j] = job[j] \/ job'[j] = Idle
        /\ \A j \in Jobs : state'[j] = state[j] \/ (job'[j].op = "none" /\ state'[j] = NoState)
    BY <1>3 DEF Delete, ApiError, Finish, TypeOK, Idle
  <2>2. \A j \in Jobs : IpsInv(dns, j)'
    BY <2>1 DEF AddressInv, IpsInv, LookupAhead, Idle
  <2>3. QED
    BY <2>1, <2>2 DEF AddressInv
<1>4. CASE UNCHANGED vars
  BY <1>4 DEF vars, AddressInv, IpsInv, LookupAhead
<1>5. QED
  BY <1>1, <1>2, <1>3, <1>4, CallKeepsIps, BeginKeepsIps, StoredIps DEF Next, JobNext

\* Runs get the DNS address of the cluster, or have it recorded, whatever calls
\* failed before and whoever took the service away.
THEOREM AddressInvariant ==
    ASSUME NEW dns, OneDnsAddress(dns)
    PROVE  Spec => []AddressInv(dns)
<1>1. Init => AddressInv(dns)
  BY DEF Init, OneDnsAddress, AddressInv, IpsInv, Idle, LookupAhead
<1>2. QED
  BY <1>1, AddressStep, TypeCorrect, PTL DEF Spec

\* Where the network has one DNS address, a job that is in the state has recorded it.
THEOREM IpsServeDns ==
    ASSUME NEW dns, OneDnsAddress(dns)
    PROVE  Spec => []StoredIpsServeDns
<1>1. AddressInv(dns) => StoredIpsServeDns
  BY DEF AddressInv, ServesDns, IpsInv, StoredIpsServeDns
<1>2. QED
  BY <1>1, AddressInvariant, PTL

-----------------------------------------------------------------------------
(* Observations.                                                           *)

\* What a run that is not disturbed has seen is how the cluster is, and it looks
\* only after its last write.
Seen(j) ==
    /\ \A o \in AddOns :
          o \in job[j].exists <=> Step("exists", o) \notin job[j].todo /\ cluster[o] # Absent
    /\ \A k \in CoreDns :
          /\ k \in job[j].exists <=>
                Step("isAws", k) \notin job[j].todo /\ ExistsAndIsAwsOne(cluster[k])
          /\ Step("imported", k) \notin job[j].todo =>
                job[j].marks[k] = ImportedIntoHelm(cluster[MarkedObject(k)])
    /\ job[j].exists \subseteq AddOns \cup CoreDns

LooksLast(j) ==
    (\E s \in job[j].todo : s.verb \in WriteVerbs) => ObserveSteps \subseteq job[j].todo

SeenInv ==
    \A j \in Jobs :
        /\ job[j].op # "none" /\ ~touched[j] => Seen(j)
        /\ LooksLast(j)

\* When a run looks, its writes are behind it.
LEMMA LooksAfterWrites ==
    ASSUME TypeOK, NEW i \in Jobs, NEW s \in ObserveSteps, IsNext(i, s)
    PROVE  \A t \in job[i].todo : t.verb \notin WriteVerbs
<1> SUFFICES ASSUME NEW t \in job[i].todo, t.verb \in WriteVerbs PROVE FALSE
  OBVIOUS
<1>1. t \in Steps
  BY DEF TypeOK, Runs
<1>2. Position[t.obj] \in 1..6 /\ Position[s.obj] \in 1..6
  BY <1>1 DEF Steps, ObserveSteps, Step, Position, Objects, CoreDns, AddOns
<1>3. Phase[t.verb] \in {3, 5, 6} /\ Phase[s.verb] \in {7, 8, 9}
  BY DEF WriteVerbs, ObserveSteps, Step, Phase
<1>4. Rank(job[i].op, t) = 10 * Phase[t.verb] + Position[t.obj]
  BY DEF WriteVerbs, Rank, Step
<1>5. Rank(job[i].op, s) = 10 * Phase[s.verb] + Position[s.obj]
  BY DEF ObserveSteps, Rank, Step
<1>6. Rank(job[i].op, s) <= Rank(job[i].op, t)
  BY DEF IsNext
<1>7. QED
  BY <1>2, <1>3, <1>4, <1>5, <1>6

\* The calls of a run to come are told apart by their verbs and objects.
LEMMA StepsDiffer ==
    /\ \A s \in ObserveSteps : s # Probe /\ s.verb \notin WriteVerbs
    /\ \A verb \in WriteVerbs \cup {"check"} : \A o : Step(verb, o) \notin ObserveSteps
    /\ Probe \notin ObserveSteps
<1>1. \A s \in ObserveSteps : s.verb \in {"exists", "isAws", "imported"}
  BY DEF ObserveSteps, Step
<1>2. Probe.verb = "probe" /\ \A verb, o : Step(verb, o).verb = verb
  BY DEF Probe, Step
<1>3. QED
  BY <1>1, <1>2 DEF WriteVerbs

\* A call keeps what the run has seen true, and adds what it sees.
LEMMA CallKeepsSeen ==
    ASSUME TypeOK, SeenInv, NEW i \in Jobs, Call(i)
    PROVE  SeenInv'
<1>1. ASSUME NEW s, NEW skip, NEW ips, NEW exists, NEW marks,
             Sees(i, s, skip, ips, exists, marks),
             LooksLast(i)', ~touched[i] /\ job[i].op # "none" => Seen(i)'
      PROVE  SeenInv'
  <2>1. ASSUME NEW j \in Jobs \ {i}
        PROVE  LooksLast(j)' /\ (job'[j].op # "none" /\ ~touched'[j] => Seen(j)')
    BY <1>1 DEF Sees, SeenInv, Seen, LooksLast
  <2>2. LooksLast(i)' /\ (job'[i].op # "none" /\ ~touched'[i] => Seen(i)')
    BY <1>1 DEF Sees
  <2>3. QED
    BY <2>1, <2>2 DEF SeenInv
<1>2. CASE WriteEffect(i)
  <2>1. PICK verb \in WriteVerbs, o \in Objects \ {"kubernetes"} : Writes(i, Step(verb, o), o)
    BY <1>2 DEF WriteEffect
  <2>2. ASSUME NEW j \in Jobs \ {i}
        PROVE  LooksLast(j)' /\ (job'[j].op # "none" /\ ~touched'[j] => Seen(j)')
    BY <2>1 DEF Writes, SeenInv, Seen, LooksLast
  <2>3. CASE job'[i] = Idle
    BY <2>2, <2>3 DEF SeenInv, LooksLast, Idle
  <2>4. CASE job'[i] # Idle
    <3>1. /\ touched'[i] = touched[i] /\ job'[i].todo = job[i].todo \ {Step(verb, o)}
          /\ \E todo : job'[i] = [job[i] EXCEPT !.todo = todo]
      BY <2>1, <2>4 DEF Writes
    <3>2. /\ job'[i].op = job[i].op /\ job'[i].exists = job[i].exists
          /\ job'[i].marks = job[i].marks
      BY <3>1 DEF TypeOK, Runs
    <3>3. ObserveSteps \subseteq job[i].todo
      <4>1. Step(verb, o) \in job[i].todo /\ Step(verb, o).verb \in WriteVerbs
        BY <2>1 DEF Writes, IsNext, Step
      <4>2. QED
        BY <4>1 DEF SeenInv, LooksLast
    <3>4. ObserveSteps \subseteq job'[i].todo
      BY <3>1, <3>3, StepsDiffer
    <3>5. /\ \A x \in AddOns : Step("exists", x) \in ObserveSteps
          /\ \A k \in CoreDns : /\ Step("isAws", k) \in ObserveSteps
                               /\ Step("imported", k) \in ObserveSteps
      BY DEF ObserveSteps
    <3>6. Seen(i) => Seen(i)'
      BY <3>2, <3>3, <3>4, <3>5 DEF Seen
    <3>7. QED
      BY <2>2, <3>1, <3>2, <3>4, <3>6 DEF SeenInv, LooksLast
  <2>5. QED
    BY <2>3, <2>4
<1>3. ASSUME NEW s, NEW skip, NEW ips, Sees(i, s, skip, ips, job[i].exists, job[i].marks),
             ({s} \cup skip) \cap ObserveSteps = {}
      PROVE  SeenInv'
  <2>1. /\ job'[i].todo = job[i].todo \ ({s} \cup skip)
        /\ job'[i].exists = job[i].exists /\ job'[i].marks = job[i].marks
        /\ UNCHANGED cluster
    BY <1>3 DEF Sees
  <2>2. \A t \in ObserveSteps : t \in job'[i].todo <=> t \in job[i].todo
    BY <1>3, <2>1
  <2>3. /\ \A o \in AddOns : Step("exists", o) \in ObserveSteps
        /\ \A k \in CoreDns : /\ Step("isAws", k) \in ObserveSteps
                             /\ Step("imported", k) \in ObserveSteps
    BY DEF ObserveSteps
  <2>4. LooksLast(i)'
    BY <2>1, <2>2 DEF SeenInv, LooksLast
  <2>5. Seen(i) => Seen(i)'
    BY <2>1, <2>2, <2>3 DEF Seen
  <2>6. QED
    BY <1>1, <1>3, <2>4, <2>5 DEF SeenInv
<1>4. CASE ProbeEffect(i)
  BY <1>3, <1>4, StepsDiffer DEF ProbeEffect
<1>5. ASSUME NEW k \in CoreDns, CheckEffect(i, k) PROVE SeenInv'
  <2> DEFINE ips == IF k = "service" THEN ServiceClusterIps(cluster[k]) ELSE job[i].ips
  <2>1. PICK skip \in SUBSET {Step("remove", k), Step("import", k), Probe} :
           Sees(i, Step("check", k), skip, ips, job[i].exists, job[i].marks)
    BY <1>5 DEF CheckEffect
  <2>2. ({Step("check", k)} \cup skip) \cap ObserveSteps = {}
    BY StepsDiffer DEF WriteVerbs
  <2>3. QED
    BY <1>3, <2>1, <2>2
<1>6. ASSUME NEW s \in ObserveSteps, NEW skip \in SUBSET {Probe}, NEW ips, NEW exists,
             NEW marks, Sees(i, s, skip, ips, exists, marks)
      PROVE  /\ LooksLast(i)' /\ s \in job[i].todo /\ UNCHANGED cluster
             /\ \A t \in ObserveSteps : t \in job'[i].todo <=> t \in job[i].todo /\ t # s
             /\ job'[i].exists = exists /\ job'[i].marks = marks
  <2>1. /\ IsNext(i, s) /\ job'[i].todo = job[i].todo \ ({s} \cup skip)
        /\ job'[i].exists = exists /\ job'[i].marks = marks /\ UNCHANGED cluster
    BY <1>6 DEF Sees
  <2>2. LooksLast(i)'
    BY <2>1, LooksAfterWrites DEF LooksLast
  <2>3. QED
    BY <2>1, <2>2, StepsDiffer DEF IsNext
<1>7. ASSUME NEW o \in AddOns, ExistsEffect(i, o) PROVE SeenInv'
  <2> DEFINE s == Step("exists", o)
             exists == IF cluster[o] = Absent THEN job[i].exists ELSE job[i].exists \cup {o}
  <2>1. Sees(i, s, {}, job[i].ips, exists, job[i].marks)
    BY <1>7 DEF ExistsEffect
  <2>2. s \in ObserveSteps
    BY DEF ObserveSteps
  <2>3. /\ LooksLast(i)' /\ s \in job[i].todo /\ UNCHANGED cluster
        /\ \A t \in ObserveSteps : t \in job'[i].todo <=> t \in job[i].todo /\ t # s
        /\ job'[i].exists = exists /\ job'[i].marks = job[i].marks
    BY <1>6, <2>1, <2>2
  <2>4. Seen(i) => Seen(i)'
    BY <2>3 DEF Seen, ObserveSteps, Step, AddOns, CoreDns
  <2>5. QED
    BY <1>1, <2>1, <2>3, <2>4 DEF SeenInv
<1>8. ASSUME NEW k \in CoreDns, IsAwsEffect(i, k) PROVE SeenInv'
  <2> DEFINE s == Step("isAws", k)
             exists == IF ExistsAndIsAwsOne(cluster[k])
                       THEN job[i].exists \cup {k} ELSE job[i].exists
             ips == IF job[i].op \in {"read", "import"} /\ k = "service"
                    THEN ServiceClusterIps(cluster[k]) ELSE job[i].ips
  <2>1. PICK skip \in SUBSET {Probe} : Sees(i, s, skip, ips, exists, job[i].marks)
    BY <1>8 DEF IsAwsEffect
  <2>2. s \in ObserveSteps
    BY DEF ObserveSteps
  <2>3. /\ LooksLast(i)' /\ s \in job[i].todo /\ UNCHANGED cluster
        /\ \A t \in ObserveSteps : t \in job'[i].todo <=> t \in job[i].todo /\ t # s
        /\ job'[i].exists = exists /\ job'[i].marks = job[i].marks
    BY <1>6, <2>1, <2>2
  <2>4. Seen(i) => Seen(i)'
    BY <2>3 DEF Seen, ObserveSteps, Step, AddOns, CoreDns
  <2>5. QED
    BY <1>1, <2>1, <2>3, <2>4 DEF SeenInv
<1>9. ASSUME NEW k \in CoreDns, ImportedEffect(i, k) PROVE SeenInv'
  <2> DEFINE s == Step("imported", k)
             mark == ImportedIntoHelm(cluster[MarkedObject(k)])
             marks == [job[i].marks EXCEPT ![k] = mark]
  <2>1. Sees(i, s, {}, job[i].ips, job[i].exists, marks)
    BY <1>9 DEF ImportedEffect
  <2>2. s \in ObserveSteps
    BY DEF ObserveSteps
  <2>3. /\ LooksLast(i)' /\ s \in job[i].todo /\ UNCHANGED cluster
        /\ \A t \in ObserveSteps : t \in job'[i].todo <=> t \in job[i].todo /\ t # s
        /\ job'[i].exists = job[i].exists /\ job'[i].marks = marks
    BY <1>6, <2>1, <2>2
  <2>4. \A l \in CoreDns : marks[l] = IF l = k THEN mark ELSE job[i].marks[l]
    BY DEF TypeOK, Runs
  <2>5. Seen(i) => Seen(i)'
    <3> HIDE DEF marks, mark
    <3>1. mark = ImportedIntoHelm(cluster'[MarkedObject(k)])
      BY <2>3 DEF mark
    <3>2. QED
      BY <2>3, <2>4, <3>1 DEF Seen, ObserveSteps, Step, AddOns, CoreDns
  <2>6. QED
    BY <1>1, <2>1, <2>3, <2>5 DEF SeenInv
<1>10. QED
  BY <1>2, <1>4, <1>5, <1>7, <1>8, <1>9, CallEffects

\* Every step keeps it.
LEMMA SeenStep == TypeOK /\ SeenInv /\ [Next]_vars => SeenInv'
<1> SUFFICES ASSUME TypeOK, SeenInv, [Next]_vars PROVE SeenInv'
  OBVIOUS
<1>1. CASE Drift
  <2>1. UNCHANGED job /\ \A j \in Jobs : job[j].op # "none" => touched'[j]
    BY <1>1 DEF Drift
  <2>2. QED
    BY <2>1 DEF SeenInv, LooksLast
<1>2. ASSUME NEW i \in Jobs, BeginCreate(i) \/ BeginUpdate(i) \/ BeginRead(i) \/ ImportState(i)
      PROVE  SeenInv'
  <2>1. PICK op, p, todo : Begin(i, op, p, todo) /\ ObserveSteps \subseteq todo
    <3>1. /\ \A p : ObserveSteps \subseteq WriteSteps(p)
          /\ \A op : ObserveSteps \subseteq ReadSteps(op)
      BY DEF WriteSteps, ReadSteps
    <3>2. QED
      BY <1>2, <3>1 DEF BeginCreate, BeginUpdate, BeginRead, ImportState
  <2>2. /\ job'[i].exists = {} /\ job'[i].todo = todo
        /\ \A j \in Jobs \ {i} : job'[j] = job[j]
        /\ UNCHANGED <<cluster, touched>>
    BY <2>1 DEF Begin, Idle, TypeOK
  <2>3. LooksLast(i)' /\ Seen(i)'
    BY <2>1, <2>2 DEF LooksLast, Seen, ObserveSteps
  <2>4. QED
    BY <2>2, <2>3 DEF SeenInv, Seen, LooksLast
<1>3. ASSUME NEW i \in Jobs, Delete(i) \/ StoreState(i) \/ ApiError(i) PROVE SeenInv'
  <2>1. /\ UNCHANGED cluster
        /\ \A j \in Jobs : \/ job'[j] = job[j] /\ touched'[j] = touched[j]
                           \/ job'[j] = Idle
    BY <1>3 DEF Delete, StoreState, ApiError, Finish, TypeOK
  <2>2. QED
    BY <2>1 DEF SeenInv, Seen, LooksLast, Idle
<1>4. CASE UNCHANGED vars
  BY <1>4 DEF vars, SeenInv, Seen, LooksLast
<1>5. QED
  BY <1>1, <1>2, <1>3, <1>4, CallKeepsSeen DEF Next, JobNext

\* What an undisturbed run has seen stays true until it records it.
THEOREM SeenInvariant == Spec => []SeenInv
<1>1. Init => SeenInv
  BY DEF Init, SeenInv, LooksLast, Idle
<1>2. QED
  BY <1>1, SeenStep, TypeCorrect, PTL DEF Spec

-----------------------------------------------------------------------------
(* What is recorded.                                                       *)

\* An undisturbed run that is over has seen the cluster as it is.
LEMMA FinishedHasSeen ==
    ASSUME TypeOK, SeenInv, NEW j \in Jobs, StoreState(j), ~touched[j]
    PROVE  /\ job[j].exists = Present
           /\ \A k \in CoreDns : job[j].marks[k] = ImportedIntoHelm(cluster[MarkedObject(k)])
<1>1. Seen(j) /\ job[j].todo = {}
  BY DEF StoreState, SeenInv
<1>2. QED
  BY <1>1 DEF Seen, Present

\* What a run stores, by handler.
LEMMA StoredModel ==
    ASSUME TypeOK, NEW j \in Jobs, StoreState(j)
    PROVE  state'[j] = IF job[j].op = "create" THEN CreateModel(job[j])
                       ELSE IF job[j].op = "update" THEN UpdateModel(job[j])
                       ELSE ReadModel(job[j], state[j])
BY DEF StoreState, TypeOK

\* The fields of a model, whichever handler stored it.
LEMMA ModelFields ==
    ASSUME TypeOK, NEW j \in Jobs, StoreState(j)
    PROVE  /\ state'[j].marks = job[j].marks
           /\ job[j].op # "create" \/ job[j].plan.removeAwsCni =>
                 state'[j].exists = job[j].exists
           /\ state'[j].exists \subseteq job[j].exists
           /\ state'[j].settings.removeKubeProxy =
                 (job[j].plan.removeKubeProxy
                    /\ ~({"kubeProxy", "kubeProxyConfig"} \subseteq job[j].exists))
           /\ state'[j].settings.removeCoreDns =
                 (job[j].plan.removeCoreDns /\ ~(CoreDns \subseteq job[j].exists))
           /\ state'[j].settings.importCorednsToHelm =
                 (job[j].plan.importCorednsToHelm
                    /\ \A k \in CoreDns : job[j].marks[k] = Marks)
           /\ state'[j].settings.removeAwsCni =
                 ((job[j].op = "create" \/ job[j].plan.removeAwsCni)
                    /\ "awsNode" \notin job[j].exists)
<1>1. job[j].plan \in Settings /\ job[j].op \in {"create", "update", "read", "import"}
  BY DEF StoreState, TypeOK, Runs
<1>2. CASE job[j].op = "update"
  <2>1. state'[j] = UpdateModel(job[j])
    BY <1>2, StoredModel
  <2>2. QED
    BY <1>2, <2>1 DEF UpdateModel, StillMet
<1>3. CASE job[j].op \in {"read", "import"}
  <2>1. state'[j] = ReadModel(job[j], state[j])
    BY <1>3, StoredModel
  <2>2. QED
    BY <1>3, <2>1 DEF ReadModel, UpdateModel, StillMet
<1>4. CASE job[j].op = "create"
  <2>1. state'[j] = CreateModel(job[j])
    BY <1>4, StoredModel
  <2> DEFINE m == UpdateModel(job[j])
             gone == "awsNode" \notin job[j].exists
  <2>2. /\ m.marks = job[j].marks /\ m.exists = job[j].exists
        /\ m.settings.removeKubeProxy =
              (job[j].plan.removeKubeProxy
                 /\ ~({"kubeProxy", "kubeProxyConfig"} \subseteq job[j].exists))
        /\ m.settings.removeCoreDns =
              (job[j].plan.removeCoreDns /\ ~(CoreDns \subseteq job[j].exists))
        /\ m.settings.importCorednsToHelm =
              (job[j].plan.importCorednsToHelm
                 /\ \A k \in CoreDns : job[j].marks[k] = Marks)
    BY DEF UpdateModel, StillMet
  <2>3. m \in Models
    BY ModelTypes DEF TypeOK
  <2>4. state'[j] = [m EXCEPT !.settings.removeAwsCni = gone,
                              !.exists = IF job[j].plan.removeAwsCni
                                         THEN m.exists ELSE m.exists \ {"awsNode"}]
    BY <2>1 DEF CreateModel
  <2> HIDE DEF m, gone
  <2>5. /\ state'[j].marks = m.marks
        /\ state'[j].exists = IF job[j].plan.removeAwsCni
                              THEN m.exists ELSE m.exists \ {"awsNode"}
        /\ state'[j].settings = [m.settings EXCEPT !.removeAwsCni = gone]
    BY <2>3, <2>4 DEF Models
  <2>6. /\ state'[j].settings.removeAwsCni = gone
        /\ state'[j].settings.removeKubeProxy = m.settings.removeKubeProxy
        /\ state'[j].settings.removeCoreDns = m.settings.removeCoreDns
        /\ state'[j].settings.importCorednsToHelm = m.settings.importCorednsToHelm
    BY <2>3, <2>5 DEF Models, Settings
  <2>7. gone = ((job[j].op = "create" \/ job[j].plan.removeAwsCni)
                  /\ "awsNode" \notin job[j].exists)
    BY <1>4 DEF gone
  <2>8. QED
    BY <1>4, <2>2, <2>5, <2>6, <2>7
<1>5. QED
  BY <1>1, <1>2, <1>3, <1>4

\* The computed attributes a run records describe the cluster as it is.
THEOREM HonestState == Spec => StateIsHonest
<1>1. TypeOK /\ SeenInv =>
        [\A j \in Jobs :
            /\ StoredUndisturbed(j, {"create", "update", "read", "import"})
            /\ job[j].op = "create" => job[j].plan.removeAwsCni
            => /\ state'[j].exists = Present
               /\ \A k \in CoreDns \ {"podDisruptionBudget"} :
                     state'[j].marks[k] = ImportedIntoHelm(cluster[k])]_vars
  BY FinishedHasSeen, ModelFields DEF StoredUndisturbed, MarkedObject
<1>2. QED
  BY <1>1, SeenInvariant, TypeCorrect, PTL DEF StateIsHonest

\* What is recorded fits together.
FitsTogether(m) ==
    /\ m.settings.removeAwsCni => "awsNode" \notin m.exists
    /\ m.settings.removeKubeProxy => ~({"kubeProxy", "kubeProxyConfig"} \subseteq m.exists)
    /\ m.settings.removeCoreDns => ~(CoreDns \subseteq m.exists)
    /\ m.settings.importCorednsToHelm => \A k \in CoreDns : m.marks[k] = Marks

StateInv == \A j \in Jobs : state[j] # NoState => FitsTogether(state[j])

\* Only a handler that ends well records anything, and what it records fits.
THEOREM StateFitsTogether == Spec => []StateInv
<1>1. Init => StateInv
  BY DEF Init, StateInv
<1>2. TypeOK /\ StateInv /\ [Next]_vars => StateInv'
  <2> SUFFICES ASSUME TypeOK, StateInv, [Next]_vars PROVE StateInv'
    OBVIOUS
  <2>1. ASSUME NEW j \in Jobs, StoreState(j) PROVE StateInv'
    <3>1. FitsTogether(state[j])'
      BY <2>1, ModelFields DEF FitsTogether
    <3>2. \A i \in Jobs \ {j} : state'[i] = state[i]
      BY <2>1 DEF StoreState, TypeOK
    <3>3. QED
      BY <3>1, <3>2 DEF StateInv
  <2>2. ASSUME NEW j \in Jobs, Delete(j) PROVE StateInv'
    BY <2>2 DEF Delete, StateInv, TypeOK
  <2>3. ASSUME NEW j \in Jobs, ApiError(j) PROVE StateInv'
    BY <2>3 DEF ApiError, StateInv
  <2>4. ASSUME NEW j \in Jobs,
               BeginCreate(j) \/ BeginUpdate(j) \/ BeginRead(j) \/ ImportState(j)
        PROVE  StateInv'
    BY <2>4 DEF BeginCreate, BeginUpdate, BeginRead, ImportState, Begin, StateInv
  <2>5. ASSUME NEW j \in Jobs, Call(j) PROVE StateInv'
    <3>1. UNCHANGED state
      BY <2>5, CallEffects
      DEF ProbeEffect, WriteEffect, ExistsEffect, CheckEffect, IsAwsEffect, ImportedEffect,
          Sees, Writes
    <3>2. QED
      BY <3>1 DEF StateInv
  <2>6. CASE Drift \/ UNCHANGED vars
    BY <2>6 DEF Drift, vars, StateInv
  <2>7. QED
    BY <2>1, <2>2, <2>3, <2>4, <2>5, <2>6 DEF Next, JobNext
<1>3. QED
  BY <1>1, <1>2, TypeCorrect, PTL DEF Spec

\* A refresh works with the settings that were recorded.
ReadInv == \A j \in Jobs :
    job[j].op = "read" => state[j] # NoState /\ job[j].plan = state[j].settings

\* Settings are equal if they agree on the four attributes.
LEMMA SameSettings ==
    ASSUME NEW p \in Settings, NEW q \in Settings,
           p.removeAwsCni = q.removeAwsCni, p.removeKubeProxy = q.removeKubeProxy,
           p.removeCoreDns = q.removeCoreDns,
           p.importCorednsToHelm = q.importCorednsToHelm
    PROVE  p = q
BY DEF Settings

\* The settings are not touched while a refresh is under way.
THEOREM RefreshKnowsSettings == Spec => []ReadInv
<1>1. Init => ReadInv
  BY DEF Init, ReadInv, Idle
<1>2. TypeOK /\ ReadInv /\ [Next]_vars => ReadInv'
  <2> SUFFICES ASSUME TypeOK, ReadInv, [Next]_vars PROVE ReadInv'
    OBVIOUS
  <2>1. ASSUME NEW j \in Jobs, StoreState(j) \/ ApiError(j) \/ Delete(j) PROVE ReadInv'
    <3>1. /\ \A i \in Jobs \ {j} : job'[i] = job[i] /\ state'[i] = state[i]
          /\ job'[j].op = "none"
      BY <2>1 DEF StoreState, ApiError, Finish, Delete, Idle, TypeOK
    <3>2. QED
      BY <3>1 DEF ReadInv
  <2>2. ASSUME NEW j \in Jobs,
               BeginCreate(j) \/ BeginUpdate(j) \/ BeginRead(j) \/ ImportState(j)
        PROVE  ReadInv'
    <3>1. PICK op, p, todo : /\ Begin(j, op, p, todo)
                             /\ op = "read" => state[j] # NoState /\ p = state[j].settings
      BY <2>2 DEF BeginCreate, BeginUpdate, BeginRead, ImportState
    <3>2. /\ job'[j].op = op /\ job'[j].plan = p /\ UNCHANGED state
          /\ \A i \in Jobs \ {j} : job'[i] = job[i]
      BY <3>1 DEF Begin, Idle, TypeOK
    <3>3. QED
      BY <3>1, <3>2 DEF ReadInv
  <2>3. ASSUME NEW j \in Jobs, Call(j) PROVE ReadInv'
    <3>1. UNCHANGED state /\ \A i \in Jobs \ {j} : job'[i] = job[i]
      BY <2>3, CallEffects
      DEF ProbeEffect, WriteEffect, ExistsEffect, CheckEffect, IsAwsEffect, ImportedEffect,
          Sees, Writes
    <3>2. GoesOn(j) \/ job'[j] = Idle
      BY <2>3, CallGoesOn
    <3>3. QED
      BY <3>1, <3>2 DEF ReadInv, GoesOn, Idle
  <2>4. CASE Drift \/ UNCHANGED vars
    BY <2>4 DEF Drift, vars, ReadInv
  <2>5. QED
    BY <2>1, <2>2, <2>3, <2>4 DEF Next, JobNext
<1>3. QED
  BY <1>1, <1>2, TypeCorrect, PTL DEF Spec

\* A refresh that finds the cluster as the state describes it changes no setting.
THEOREM StableRefresh == Spec => RefreshIsStable
<1>1. TypeOK /\ SeenInv /\ StateInv /\ ReadInv =>
        [\A j \in Jobs :
            /\ StoredUndisturbed(j, {"read"})
            /\ state[j].exists = Present
            /\ \A k \in CoreDns \ {"podDisruptionBudget"} :
                  state[j].marks[k] = ImportedIntoHelm(cluster[k])
            => state'[j].settings = state[j].settings]_vars
  <2> SUFFICES ASSUME TypeOK, SeenInv, StateInv, ReadInv, NEW j \in Jobs,
                      StoreState(j), ~touched[j], job[j].op = "read",
                      state[j].exists = Present,
                      \A k \in CoreDns \ {"podDisruptionBudget"} :
                         state[j].marks[k] = ImportedIntoHelm(cluster[k])
               PROVE  state'[j].settings = state[j].settings
    BY DEF StoredUndisturbed
  <2>1. /\ state[j] \in Models /\ job[j].plan = state[j].settings
        /\ FitsTogether(state[j])
    BY DEF ReadInv, StateInv, TypeOK
  <2>2. job[j].exists = state[j].exists
    BY FinishedHasSeen
  <2>3. state[j].settings.importCorednsToHelm => \A k \in CoreDns : job[j].marks[k] = Marks
    <3>1. ASSUME NEW k \in CoreDns, state[j].settings.importCorednsToHelm
          PROVE  job[j].marks[k] = Marks
      <4>1. MarkedObject(k) \in CoreDns \ {"podDisruptionBudget"}
        BY DEF MarkedObject, CoreDns
      <4>2. ImportedIntoHelm(cluster[MarkedObject(k)]) = Marks
        BY <2>1, <3>1, <4>1 DEF FitsTogether
      <4>3. QED
        BY <4>2, FinishedHasSeen
    <3>2. QED
      BY <3>1
  <2>4. state[j].settings \in Settings /\ state'[j].settings \in Settings
    <3>1. ReadModel(job[j], state[j]) \in Models
      BY ModelTypes DEF TypeOK
    <3>2. QED
      BY <2>1, <3>1, StoredModel DEF Models
  <2> DEFINE p == state[j].settings
             q == state'[j].settings
  <2>5. /\ q.removeAwsCni = p.removeAwsCni /\ q.removeKubeProxy = p.removeKubeProxy
        /\ q.removeCoreDns = p.removeCoreDns
        /\ q.importCorednsToHelm = p.importCorednsToHelm
    BY <2>1, <2>2, <2>3, <2>4, ModelFields DEF FitsTogether, Settings
  <2>6. QED
    BY <2>4, <2>5, SameSettings
<1>2. QED
  BY <1>1, SeenInvariant, StateFitsTogether, RefreshKnowsSettings, TypeCorrect, PTL
  DEF RefreshIsStable

\* An undisturbed Create or Update that is over stores the settings it was given.
LEMMA FinishedKeepsPlan ==
    ASSUME TypeOK, SeenInv, CleaningInv, NEW j \in Jobs,
           StoreState(j), ~touched[j], job[j].op \in {"create", "update"},
           job[j].plan.importCorednsToHelm =>
              \A k \in CoreDns \ {"podDisruptionBudget"} : ImportedIntoHelm(cluster[k]) = Marks,
           job[j].op = "create" => job[j].plan.removeAwsCni \/ cluster["awsNode"] # Absent
    PROVE  state'[j].settings = job[j].plan
<1>1. job[j].plan \in Settings /\ state'[j].settings \in Settings
  <2>1. CreateModel(job[j]) \in Models /\ UpdateModel(job[j]) \in Models
    BY ModelTypes DEF TypeOK
  <2>2. QED
    BY <2>1, StoredModel DEF Models, TypeOK, Runs
<1>2. Cleaned(job[j].plan)
  BY FinishedMeansCleaned DEF Writing, Quiet
<1>3. job[j].exists = Present
  BY FinishedHasSeen
<1>4. job[j].plan.importCorednsToHelm => \A k \in CoreDns : job[j].marks[k] = Marks
  <2>1. \A k \in CoreDns : MarkedObject(k) \in CoreDns \ {"podDisruptionBudget"}
    BY DEF MarkedObject, CoreDns
  <2>2. QED
    BY <2>1, FinishedHasSeen
<1>5. "awsNode" \in Present <=> cluster["awsNode"] # Absent
  BY DEF Present, AddOns, CoreDns
<1> DEFINE p == job[j].plan
           q == state'[j].settings
<1>6. q.removeAwsCni = p.removeAwsCni
  BY <1>1, <1>2, <1>3, <1>5, ModelFields DEF Cleaned, Settings
<1>7. q.removeKubeProxy = p.removeKubeProxy
  BY <1>1, <1>2, <1>3, ModelFields DEF Cleaned, Settings
<1>8. q.removeCoreDns = p.removeCoreDns
  <2>1. p.removeCoreDns => ~(CoreDns \subseteq Present)
    BY <1>2 DEF Cleaned, CoreDns
  <2>2. QED
    BY <1>1, <1>3, <2>1, ModelFields DEF Settings
<1>9. q.importCorednsToHelm = p.importCorednsToHelm
  BY <1>1, <1>4, ModelFields DEF Settings
<1>10. QED
  BY <1>1, <1>6, <1>7, <1>8, <1>9, SameSettings

\* An undisturbed Create or Update stores the settings Terraform planned.
THEOREM PlanKept == Spec => PlanIsKept
<1>1. TypeOK /\ SeenInv /\ CleaningInv =>
        [\A j \in Jobs :
            /\ StoredUndisturbed(j, {"create", "update"})
            /\ job[j].plan.importCorednsToHelm =>
                  \A k \in CoreDns \ {"podDisruptionBudget"} :
                     ImportedIntoHelm(cluster[k]) = Marks
            /\ job[j].op = "create" =>
                  job[j].plan.removeAwsCni \/ cluster["awsNode"] # Absent
            => state'[j].settings = job[j].plan]_vars
  BY FinishedKeepsPlan DEF StoredUndisturbed
<1>2. QED
  BY <1>1, SeenInvariant, CleaningInvariant, TypeCorrect, PTL DEF PlanIsKept
===============================================================================
