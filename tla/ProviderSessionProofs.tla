------------------------- MODULE ProviderSessionProofs -------------------------
(* Which cluster the handlers of one provider work on, for any number of   *)
(* jobs, servers and configurations.                                       *)
EXTENDS ProviderSession, TLAPS

-----------------------------------------------------------------------------
(* Client configuration.                                                   *)

\* A client for a given host talks to that host, whatever files there are.
LEMMA HostDecides ==
    ASSUME NEW s, NEW host, host # None, IsClient(ServerFor(s, host))
    PROVE  ServerFor(s, host) = host
<1> DEFINE paths  == ConfigPaths(s)
           server == Override(host, ServerOfEntry(EntryOf(s, paths), paths))
<1>1. server = host
  BY DEF Override
<1>2. ServerFor(s, host) \in {Broken, Empty, server}
  BY DEF ServerFor
<1>3. Broken \notin Servers /\ Empty \notin Servers
  BY NamesAssumption DEF Maybe
<1>4. QED
  BY <1>1, <1>2, <1>3 DEF IsClient

-----------------------------------------------------------------------------
(* Types.                                                                  *)

\* The provider, the runs and the ids keep their types.
THEOREM TypeCorrect == Spec => []TypeOK
<1>1. Init => TypeOK
  BY DEF Init, TypeOK, Idle, Runs, Pcs, Maybe
<1>2. TypeOK /\ [Next]_vars => TypeOK'
  <2> SUFFICES ASSUME TypeOK, [Next]_vars PROVE TypeOK'
    OBVIOUS
  <2> USE DEF TypeOK
  <2>1. ASSUME NEW c \in Configs, Configure(c) PROVE TypeOK'
    <3>1. HostOf(c) \in [known : BOOLEAN, host : Maybe(Servers)]
      BY SessionAssumption DEF HostOf, Maybe
    <3>2. clientSet' \in Maybe(Servers)
      <4> DEFINE kept == IF Persistent THEN clientSet ELSE None
      <4>1. kept \in Maybe(Servers)
        BY DEF Maybe
      <4>2. QED
        BY <2>1, <4>1 DEF Configure, IsClient, Maybe
    <3>3. QED
      BY <2>1, <3>1, <3>2 DEF Configure
  <2>2. ASSUME NEW j \in Jobs, NEW known \in Maybe(Servers), Begin(j, known)
        PROVE  TypeOK'
    BY <2>2 DEF Begin, Idle, Runs, Pcs, Maybe
  <2>3. ASSUME NEW j \in Jobs, BeginApply(j) \/ BeginRead(j) \/ ImportState(j)
        PROVE  TypeOK'
    BY <2>2, <2>3 DEF BeginApply, BeginRead, ImportState, Maybe
  <2>4. ASSUME NEW j \in Jobs, Delete(j) PROVE TypeOK'
    BY <2>4 DEF Delete, Maybe
  <2>5. ASSUME NEW j \in Jobs, CheckHost(j) PROVE TypeOK'
    <3> DEFINE pc   == IF AdoptsId(j) THEN "adopt" ELSE "client"
               left == IF AdoptsId(j) THEN {"known", "host"} ELSE {}
    <3>1. pc \in Pcs /\ left \in SUBSET {"known", "host"}
      BY DEF Pcs
    <3>2. run' = [run EXCEPT ![j].pc = pc, ![j].left = left]
          /\ UNCHANGED <<config, model, clientSet, id>>
      BY <2>5 DEF CheckHost
    <3> HIDE DEF pc, left
    <3>3. QED
      BY <3>1, <3>2 DEF Runs
  <2>6. ASSUME NEW j \in Jobs, NEW part \in {"known", "host"}, AdoptPart(j, part)
        PROVE  TypeOK'
    <3> DEFINE pc   == IF run[j].left = {part} THEN "client" ELSE "adopt"
               left == run[j].left \ {part}
    <3>1. pc \in Pcs /\ left \in SUBSET {"known", "host"}
      BY DEF Pcs, Runs
    <3>2. run' = [run EXCEPT ![j].left = left, ![j].pc = pc]
      BY <2>6 DEF AdoptPart
    <3>3. model' \in [known : BOOLEAN, host : Maybe(Servers)]
          /\ UNCHANGED <<config, clientSet, id>>
      BY <2>6 DEF AdoptPart, Runs
    <3> HIDE DEF pc, left
    <3>4. QED
      BY <3>1, <3>2, <3>3 DEF Runs
  <2>7. ASSUME NEW j \in Jobs, UseCached(j) PROVE TypeOK'
    <3> DEFINE pc == IF clientSet = None THEN "connect" ELSE "work"
    <3>1. pc \in Pcs
      BY DEF Pcs
    <3>2. run' = [run EXCEPT ![j].pc = pc, ![j].client = clientSet]
          /\ UNCHANGED <<config, model, clientSet, id>>
      BY <2>7 DEF UseCached
    <3> HIDE DEF pc
    <3>3. QED
      BY <3>1, <3>2 DEF Runs
  <2>8. ASSUME NEW j \in Jobs, Connect(j) PROVE TypeOK'
    <3> DEFINE made   == ServerFor(config.files, model.host)
               client == IF IsClient(made) THEN made ELSE None
               pc     == IF IsClient(made) THEN "cache"
                         ELSE IF made = Empty THEN "empty" ELSE "error"
    <3>1. client \in Maybe(Servers) /\ pc \in Pcs
      BY DEF IsClient, Maybe, Pcs
    <3>2. run' = [run EXCEPT ![j].pc = pc, ![j].client = client]
          /\ UNCHANGED <<config, model, clientSet, id>>
      BY <2>8 DEF Connect
    <3> HIDE DEF client, pc
    <3>3. QED
      BY <3>1, <3>2 DEF Runs
  <2>9. ASSUME NEW j \in Jobs, Cache(j) PROVE TypeOK'
    BY <2>9 DEF Cache, GoTo, Runs, Pcs
  <2>10. ASSUME NEW j \in Jobs, EmptyConfig(j) PROVE TypeOK'
    BY <2>10 DEF EmptyConfig, GoTo, Runs, Pcs
  <2>11. ASSUME NEW j \in Jobs, GiveUp(j) \/ Store(j) PROVE TypeOK'
    BY <2>11 DEF GiveUp, Store, Idle, Runs, Pcs, Maybe
  <2>12. CASE UNCHANGED vars
    BY <2>12 DEF vars
  <2>13. QED
    BY <2>1, <2>3, <2>4, <2>5, <2>6, <2>7, <2>8, <2>9, <2>10, <2>11, <2>12
    DEF Next, JobNext
<1>3. QED
  BY <1>1, <1>2, PTL DEF Spec

-----------------------------------------------------------------------------
(* What the handlers do.                                                   *)

\* What a step of the handler of j does: its own run moves on.
Moves(j) ==
    /\ UNCHANGED config
    /\ \A i \in Jobs \ {j} : run'[i] = run[i] /\ id'[i] = id[i]

\* Every handler step moves one job only.
LEMMA JobMoves ==
    ASSUME TypeOK, NEW j \in Jobs, JobNext(j)
    PROVE  Moves(j)
BY DEF JobNext, BeginApply, BeginRead, ImportState, Begin, Delete, CheckHost, AdoptPart,
       UseCached, Connect, Cache, EmptyConfig, GiveUp, Store, GoTo, Moves, TypeOK

\* No handler runs without a command.
LEMMA InCommand ==
    ASSUME config = None => AllIdle, NEW j \in Jobs, JobNext(j)
    PROVE  config # None
BY DEF AllIdle, JobNext, BeginApply, BeginRead, ImportState, Begin, Delete, CheckHost,
       AdoptPart, UseCached, Connect, Cache, EmptyConfig, GiveUp, Store

\* A command finds no handler running, and in a process of its own no client set
\* but the one it has just made.
LEMMA ConfigureStarts ==
    ASSUME ~Persistent, NEW c \in Configs, Configure(c)
    PROVE  /\ AllIdle' /\ model' = HostOf(c) /\ config' \in {None, c}
           /\ clientSet' # None => /\ clientSet' = ServerFor(c.files, HostOf(c).host)
                                   /\ IsClient(ServerFor(c.files, HostOf(c).host))
BY DEF Configure, AllIdle

\* The part of each step that touches the run of j.
LEMMA Begins ==
    ASSUME TypeOK, NEW j \in Jobs, NEW known, Begin(j, known)
    PROVE  /\ run[j].pc = "idle" /\ run'[j].pc = "start" /\ run'[j].id = known
           /\ UNCHANGED <<model, clientSet, id>>
BY DEF Begin, Idle, TypeOK

LEMMA Checks ==
    ASSUME TypeOK, NEW j \in Jobs, CheckHost(j)
    PROVE  /\ run[j].pc = "start" /\ run'[j].id = run[j].id
           /\ run'[j].pc = IF AdoptsId(j) THEN "adopt" ELSE "client"
           /\ run'[j].left = IF AdoptsId(j) THEN {"known", "host"} ELSE {}
           /\ UNCHANGED <<model, clientSet, id>>
BY DEF CheckHost, TypeOK, Runs

LEMMA Adopts ==
    ASSUME TypeOK, NEW j \in Jobs, NEW part \in {"known", "host"}, AdoptPart(j, part)
    PROVE  /\ run[j].pc = "adopt" /\ run'[j].id = run[j].id
           /\ run'[j].left = run[j].left \ {part}
           /\ run'[j].pc = IF run[j].left = {part} THEN "client" ELSE "adopt"
           /\ model'.known = (part = "known" \/ model.known)
           /\ model'.host = IF part = "host" THEN run[j].id ELSE model.host
           /\ UNCHANGED <<clientSet, id>>
BY DEF AdoptPart, TypeOK, Runs

LEMMA Connects ==
    ASSUME TypeOK, NEW j \in Jobs, Connect(j)
    PROVE  /\ run[j].pc = "connect" /\ run'[j].id = run[j].id
           /\ UNCHANGED <<model, clientSet, id>>
           /\ \/ /\ run'[j].pc = "cache"
                 /\ run'[j].client = ServerFor(config.files, model.host)
                 /\ IsClient(ServerFor(config.files, model.host))
              \/ run'[j].pc \in {"empty", "error"}
BY DEF Connect, TypeOK, Runs

LEMMA Proceeds ==
    ASSUME TypeOK, NEW j \in Jobs
    PROVE  /\ UseCached(j) => /\ run[j].pc = "client" /\ run'[j].id = run[j].id
                              /\ run'[j].client = clientSet
                              /\ run'[j].pc = IF clientSet = None THEN "connect" ELSE "work"
                              /\ UNCHANGED <<model, clientSet, id>>
           /\ Cache(j) => /\ run[j].pc = "cache" /\ run'[j].pc = "work"
                          /\ run'[j].id = run[j].id /\ run'[j].client = run[j].client
                          /\ clientSet' = run[j].client /\ UNCHANGED <<model, id>>
           /\ EmptyConfig(j) => /\ run[j].pc = "empty" /\ run'[j].pc \in {"warned", "error"}
                                /\ run'[j].id = run[j].id
                                /\ UNCHANGED <<model, clientSet, id>>
           /\ GiveUp(j) => /\ run'[j].pc = "idle" /\ UNCHANGED <<model, clientSet, id>>
           /\ Store(j) => /\ run[j].pc = "work" /\ run'[j].pc = "idle"
                          /\ id'[j] = model.host /\ UNCHANGED <<model, clientSet>>
<1> USE DEF TypeOK, Runs
<1>1. UseCached(j) => /\ run[j].pc = "client" /\ run'[j].id = run[j].id
                      /\ run'[j].client = clientSet
                      /\ run'[j].pc = IF clientSet = None THEN "connect" ELSE "work"
                      /\ UNCHANGED <<model, clientSet, id>>
  BY DEF UseCached
<1>2. Cache(j) => /\ run[j].pc = "cache" /\ run'[j].pc = "work"
                  /\ run'[j].id = run[j].id /\ run'[j].client = run[j].client
                  /\ clientSet' = run[j].client /\ UNCHANGED <<model, id>>
  BY DEF Cache, GoTo
<1>3. EmptyConfig(j) => /\ run[j].pc = "empty" /\ run'[j].pc \in {"warned", "error"}
                        /\ run'[j].id = run[j].id
                        /\ UNCHANGED <<model, clientSet, id>>
  BY DEF EmptyConfig, GoTo
<1>4. GiveUp(j) => /\ run'[j].pc = "idle" /\ UNCHANGED <<model, clientSet, id>>
  BY DEF GiveUp, Idle
<1>5. Store(j) => /\ run[j].pc = "work" /\ run'[j].pc = "idle"
                  /\ id'[j] = model.host /\ UNCHANGED <<model, clientSet>>
  BY DEF Store, Idle
<1>6. QED
  BY <1>1, <1>2, <1>3, <1>4, <1>5

-----------------------------------------------------------------------------
(* Commands that know the host.                                            *)

\* Nobody adopts an id, and all clients are for the configured host.
KnownSession ==
    /\ model.known /\ model.host = config.host
    /\ clientSet \in {None, config.host}
    /\ \A j \in Jobs :
          /\ run[j].pc # "adopt"
          /\ run[j].pc \in {"cache", "work"} => run[j].client = config.host

KnownInv ==
    /\ config = None => AllIdle
    /\ config # None /\ config.host # Unknown => KnownSession

LEMMA KnownStep ==
    ASSUME TypeOK, KnownInv, config # None, config.host # Unknown, NEW j \in Jobs, JobNext(j)
    PROVE  KnownSession'
<1>1. Moves(j) /\ KnownSession
  BY JobMoves DEF KnownInv
<1>2. config.host # None
  BY SessionAssumption, NamesAssumption DEF TypeOK
<1> SUFFICES /\ UNCHANGED model /\ clientSet' \in {None, config.host}
             /\ run'[j].pc # "adopt"
             /\ run'[j].pc \in {"cache", "work"} => run'[j].client = config.host
  BY <1>1 DEF KnownSession, Moves
<1>3. CASE BeginApply(j) \/ BeginRead(j) \/ ImportState(j)
  BY <1>1, <1>3, Begins DEF BeginApply, BeginRead, ImportState, KnownSession
<1>4. CASE Delete(j)
  BY <1>1, <1>4 DEF Delete, KnownSession
<1>5. CASE CheckHost(j)
  <2>1. ~AdoptsId(j)
    BY <1>1 DEF AdoptsId, KnownSession
  <2>2. QED
    BY <1>1, <1>5, <2>1, Checks DEF KnownSession
<1>6. CASE Connect(j)
  <2>1. IsClient(ServerFor(config.files, model.host)) =>
           ServerFor(config.files, model.host) = config.host
    BY <1>1, <1>2, HostDecides DEF KnownSession
  <2>2. QED
    BY <1>1, <1>6, <2>1, Connects DEF KnownSession
<1>7. CASE UseCached(j) \/ Cache(j) \/ EmptyConfig(j) \/ GiveUp(j) \/ Store(j)
  BY <1>1, <1>7, Proceeds DEF KnownSession
<1>8. QED
  BY <1>1, <1>3, <1>4, <1>5, <1>6, <1>7 DEF JobNext, AdoptPart, KnownSession

\* As long as every command has a process of its own.
THEOREM KnownInvariant ==
    ASSUME ~Persistent PROVE Spec => []KnownInv
<1>1. Init => KnownInv
  BY DEF Init, KnownInv, AllIdle, Idle
<1>2. TypeOK /\ KnownInv /\ [Next]_vars => KnownInv'
  <2> SUFFICES ASSUME TypeOK, KnownInv, [Next]_vars PROVE KnownInv'
    OBVIOUS
  <2>1. ASSUME NEW c \in Configs, Configure(c) PROVE KnownInv'
    <3>1. /\ AllIdle' /\ model' = HostOf(c) /\ config' \in {None, c}
          /\ clientSet' # None => /\ clientSet' = ServerFor(c.files, HostOf(c).host)
                                  /\ IsClient(ServerFor(c.files, HostOf(c).host))
      BY <2>1, ConfigureStarts
    <3>2. ASSUME config' = c, c.host # Unknown PROVE KnownSession'
      <4>1. model' = [known |-> TRUE, host |-> c.host] /\ HostOf(c).host = c.host
        BY <3>1, <3>2 DEF HostOf
      <4>2. c.host # None
        BY <3>2, SessionAssumption, NamesAssumption
      <4>3. clientSet' \in {None, c.host}
        BY <3>1, <4>1, <4>2, HostDecides
      <4>4. QED
        BY <3>1, <3>2, <4>1, <4>3 DEF KnownSession, AllIdle
    <3>3. QED
      BY <3>1, <3>2 DEF KnownInv
  <2>2. ASSUME NEW j \in Jobs, JobNext(j) PROVE KnownInv'
    <3>1. config # None /\ UNCHANGED config
      BY <2>2, InCommand, JobMoves DEF KnownInv, Moves
    <3>2. QED
      BY <2>2, <3>1, KnownStep DEF KnownInv
  <2>3. CASE UNCHANGED vars
    BY <2>3 DEF vars, KnownInv, AllIdle, KnownSession
  <2>4. QED
    BY <2>1, <2>2, <2>3 DEF Next
<1>3. QED
  BY <1>1, <1>2, TypeCorrect, PTL DEF Spec

\* Every call goes to the configured host, whatever hosts jobs have on record and
\* whatever files there are.
THEOREM CallsReachHost ==
    ASSUME ~Persistent PROVE Spec => []ConfiguredHost
<1>1. KnownInv => ConfiguredHost
  BY DEF KnownInv, KnownSession, AllIdle, ConfiguredHost
<1>2. QED
  BY <1>1, KnownInvariant, PTL

-----------------------------------------------------------------------------
(* Commands that do not know the host.                                     *)

\* A provider without a host finds no server in kubeconfig files.  The README says
\* what happens if it does.
NoStrayFile ==
    \A c \in Configs : c.host = Unknown => ~IsClient(ServerFor(c.files, None))

\* The provider's host is that of some job, once there is a client set; a Read has
\* the id its job has on record, and a host before it works.
OnRecord ==
    /\ model.host = None \/ \E i \in Jobs : model.host = id[i]
    /\ clientSet # None => model.host # None
    /\ \A j \in Jobs :
          /\ run[j].pc # "idle" => run[j].id = id[j] /\ id[j] # None
          /\ run[j].pc \in {"cache", "work"} => model.host # None

RecordInv == config # None /\ config.host = Unknown => OnRecord

LEMMA RecordStep ==
    ASSUME NoStrayFile, TypeOK, RecordInv, config # None, config.host = Unknown,
           NEW j \in Jobs, JobNext(j)
    PROVE  OnRecord'
<1>1. Moves(j) /\ OnRecord
  BY JobMoves DEF RecordInv
<1>2. ASSUME /\ model'.host = model.host \/ (model'.host = run[j].id /\ run[j].pc # "idle")
             /\ model.host # None => model'.host # None
             /\ clientSet' # None => model'.host # None
             /\ id'[j] = id[j] \/ (id'[j] = model.host /\ model'.host = model.host)
             /\ run'[j].pc # "idle" => run'[j].id = id'[j] /\ id'[j] # None
             /\ run'[j].pc \in {"cache", "work"} => model'.host # None
      PROVE  OnRecord'
  <2>1. model'.host = None \/ \E i \in Jobs : model'.host = id'[i]
    <3>1. CASE id'[j] = id[j]
      BY <1>1, <1>2, <3>1 DEF OnRecord, Moves
    <3>2. CASE id'[j] = model.host /\ model'.host = model.host
      BY <3>2
    <3>3. QED
      BY <1>2, <3>1, <3>2
  <2>2. ASSUME NEW i \in Jobs \ {j}
        PROVE  /\ run'[i].pc # "idle" => run'[i].id = id'[i] /\ id'[i] # None
               /\ run'[i].pc \in {"cache", "work"} => model'.host # None
    BY <1>1, <1>2 DEF OnRecord, Moves
  <2>3. QED
    BY <1>2, <2>1, <2>2 DEF OnRecord
<1>3. /\ clientSet # None => model.host # None
      /\ run[j].pc # "idle" => run[j].id = id[j] /\ id[j] # None
      /\ run[j].pc \in {"cache", "work"} => model.host # None
  BY <1>1 DEF OnRecord
<1>4. CASE BeginApply(j) \/ BeginRead(j) \/ ImportState(j)
  <2>1. BeginRead(j)
    BY <1>4 DEF BeginApply, ImportState
  <2>2. QED
    BY <1>2, <1>3, <2>1, Begins DEF BeginRead
<1>5. ~Delete(j)
  BY DEF Delete
<1>6. CASE CheckHost(j)
  BY <1>2, <1>3, <1>6, Checks
<1>7. ASSUME NEW part \in {"known", "host"}, AdoptPart(j, part) PROVE OnRecord'
  BY <1>2, <1>3, <1>7, Adopts
<1>8. CASE Connect(j)
  <2>1. IsClient(ServerFor(config.files, model.host)) => model.host # None
    BY DEF NoStrayFile, TypeOK
  <2>2. QED
    BY <1>2, <1>3, <1>8, <2>1, Connects
<1>9. CASE UseCached(j) \/ Cache(j) \/ EmptyConfig(j)
  BY <1>2, <1>3, <1>9, Proceeds
<1>10. CASE GiveUp(j) \/ Store(j)
  BY <1>2, <1>3, <1>10, Proceeds
<1>11. QED
  BY <1>4, <1>5, <1>6, <1>7, <1>8, <1>9, <1>10 DEF JobNext

\* However the hosts of the jobs are mixed up, no other host comes in.
THEOREM RecordInvariant ==
    ASSUME ~Persistent, NoStrayFile PROVE Spec => []RecordInv
<1>1. Init => RecordInv
  BY DEF Init, RecordInv
<1>2. TypeOK /\ KnownInv /\ RecordInv /\ [Next]_vars => RecordInv'
  <2> SUFFICES ASSUME TypeOK, KnownInv, RecordInv, [Next]_vars PROVE RecordInv'
    OBVIOUS
  <2>1. ASSUME NEW c \in Configs, Configure(c) PROVE RecordInv'
    <3>1. /\ AllIdle' /\ model' = HostOf(c) /\ config' \in {None, c}
          /\ clientSet' # None => IsClient(ServerFor(c.files, HostOf(c).host))
      BY <2>1, ConfigureStarts
    <3>2. ASSUME config' = c, c.host = Unknown PROVE OnRecord'
      <4>1. model'.host = None /\ HostOf(c).host = None
        BY <3>1, <3>2 DEF HostOf
      <4>2. clientSet' = None
        BY <3>1, <3>2, <4>1 DEF NoStrayFile
      <4>3. QED
        BY <3>1, <4>1, <4>2 DEF OnRecord, AllIdle
    <3>3. QED
      BY <3>1, <3>2 DEF RecordInv
  <2>2. ASSUME NEW j \in Jobs, JobNext(j) PROVE RecordInv'
    <3>1. config # None /\ UNCHANGED config
      BY <2>2, InCommand, JobMoves DEF KnownInv, Moves
    <3>2. QED
      BY <2>2, <3>1, RecordStep DEF RecordInv
  <2>3. CASE UNCHANGED vars
    BY <2>3 DEF vars, RecordInv, OnRecord
  <2>4. QED
    BY <2>1, <2>2, <2>3 DEF Next
<1>3. QED
  BY <1>1, <1>2, TypeCorrect, KnownInvariant, PTL DEF Spec

\* A handler never stores a host nobody told Terraform of, and never none, whichever
\* hosts the jobs have on record and however their handlers interleave.
THEOREM HostsStayOnRecord ==
    ASSUME ~Persistent, NoStrayFile PROVE Spec => HostStaysOnRecord
<1>1. TypeOK /\ KnownInv /\ RecordInv =>
        [\A j \in Jobs :
            Store(j) => /\ id'[j] # None
                        /\ IF config.host = Unknown THEN \E i \in Jobs : id'[j] = id[i]
                           ELSE id'[j] = config.host]_vars
  <2> SUFFICES ASSUME TypeOK, KnownInv, RecordInv, NEW j \in Jobs, Store(j)
               PROVE  /\ id'[j] # None
                      /\ IF config.host = Unknown THEN \E i \in Jobs : id'[j] = id[i]
                         ELSE id'[j] = config.host
    OBVIOUS
  <2>1. run[j].pc = "work" /\ id'[j] = model.host /\ config # None
    BY Proceeds DEF Store, KnownInv, AllIdle
  <2>2. CASE config.host = Unknown
    BY <2>1, <2>2 DEF RecordInv, OnRecord
  <2>3. CASE config.host # Unknown
    BY <2>1, <2>3, SessionAssumption, NamesAssumption DEF KnownInv, KnownSession, TypeOK
  <2>4. QED
    BY <2>2, <2>3
<1>2. QED
  BY <1>1, KnownInvariant, RecordInvariant, TypeCorrect, PTL DEF HostStaysOnRecord

-----------------------------------------------------------------------------
(* Handlers one at a time.                                                 *)

\* No two handlers run at once, as under terraform -parallelism=1.
OneAtATime == \A i, j \in Jobs : run[i].pc # "idle" /\ run[j].pc # "idle" => i = j

\* In a command that does not know the host, a Read has its id from the state, and
\* the provider's host once it asks for a client.  A host that is known is there,
\* except while it is being filled in.
HasHost(j) ==
    /\ run[j].pc # "idle" => run[j].id # None
    /\ run[j].pc # "empty"
    /\ run[j].pc \in {"client", "connect"} => model.host # None
    /\ run[j].pc = "adopt" => "host" \in run[j].left \/ model.host # None

FilledIn == (\A j \in Jobs : run[j].pc # "adopt") /\ model.known => model.host # None

HostInv ==
    /\ config = None => AllIdle
    /\ config # None /\ config.host = Unknown => FilledIn /\ \A j \in Jobs : HasHost(j)

\* A client for a given host is never missing its host.
LEMMA HostIsNotEmpty ==
    ASSUME NEW s, NEW host \in Servers PROVE ServerFor(s, host) # Empty
<1> DEFINE paths  == ConfigPaths(s)
           server == Override(host, ServerOfEntry(EntryOf(s, paths), paths))
<1>1. server = host /\ host # None /\ host # Empty /\ Broken # Empty
  BY NamesAssumption DEF Override, Maybe
<1>2. ServerFor(s, host) \in {Broken, server}
  BY <1>1 DEF ServerFor
<1>3. QED
  BY <1>1, <1>2

\* The step of the only handler that runs.
LEMMA SerialStepHasHost ==
    ASSUME TypeOK, HostInv, NEW j \in Jobs, JobNext(j), OneAtATime',
           config # None, config.host = Unknown, run[j].pc # "idle" => OneAtATime
    PROVE  HostInv'
<1> USE DEF TypeOK
<1>1. /\ FilledIn /\ HasHost(j) /\ UNCHANGED config
      /\ \A i \in Jobs \ {j} : run'[i] = run[i] /\ HasHost(i)
  BY JobMoves DEF HostInv, Moves
<1>2. SUFFICES FilledIn' /\ \A i \in Jobs : HasHost(i)'
  BY <1>1 DEF HostInv
<1>3. ASSUME run[j].pc # "idle" PROVE \A i \in Jobs \ {j} : run[i].pc = "idle"
  BY <1>3 DEF OneAtATime
<1>4. ASSUME UNCHANGED model, HasHost(j)',
             run'[j].pc = "adopt" <=> run[j].pc = "adopt"
      PROVE  FilledIn' /\ \A i \in Jobs : HasHost(i)'
  BY <1>1, <1>4 DEF FilledIn, HasHost
<1>5. CASE BeginApply(j) \/ BeginRead(j) \/ ImportState(j)
  <2>1. BeginRead(j)
    BY <1>5 DEF BeginApply, ImportState
  <2>2. run'[j].pc = "start" /\ run'[j].id # None /\ UNCHANGED model /\ run[j].pc = "idle"
    BY <2>1 DEF BeginRead, Begin, Idle
  <2>3. QED
    BY <1>4, <2>2 DEF HasHost
<1>6. CASE Delete(j)
  BY <1>1, <1>4, <1>6 DEF Delete, HasHost
<1>7. CASE CheckHost(j)
  <2>1. /\ run[j].pc = "start" /\ UNCHANGED model /\ run'[j].id = run[j].id
        /\ run'[j].pc = IF AdoptsId(j) THEN "adopt" ELSE "client"
        /\ run'[j].left = IF AdoptsId(j) THEN {"known", "host"} ELSE {}
    BY <1>7 DEF CheckHost, Runs
  <2>2. run[j].id # None
    BY <1>1, <2>1 DEF HasHost
  <2>3. \A i \in Jobs : run[i].pc # "adopt"
    BY <1>3, <2>1
  <2>4. CASE AdoptsId(j)
    <3>1. HasHost(j)'
      BY <2>1, <2>2, <2>4 DEF HasHost
    <3>2. \A i \in Jobs \ {j} : HasHost(i)'
      BY <1>1, <2>1 DEF HasHost
    <3>3. FilledIn'
      BY <2>1, <2>4 DEF FilledIn
    <3>4. QED
      BY <3>1, <3>2, <3>3
  <2>5. CASE ~AdoptsId(j)
    <3>1. model.host # None
      BY <1>1, <2>2, <2>3, <2>5 DEF AdoptsId, FilledIn
    <3>2. HasHost(j)'
      BY <2>1, <2>2, <2>5, <3>1 DEF HasHost
    <3>3. QED
      BY <1>1, <2>1, <3>1, <3>2 DEF FilledIn, HasHost
  <2>6. QED
    BY <2>4, <2>5
<1>8. ASSUME NEW part \in {"known", "host"}, AdoptPart(j, part)
      PROVE  FilledIn' /\ \A i \in Jobs : HasHost(i)'
  <2>1. /\ run[j].pc = "adopt" /\ part \in run[j].left
        /\ run'[j].id = run[j].id /\ run'[j].left = run[j].left \ {part}
        /\ run'[j].pc = IF run[j].left = {part} THEN "client" ELSE "adopt"
    BY <1>8 DEF AdoptPart, Runs
  <2>2. run[j].id # None
    BY <1>1, <2>1 DEF HasHost
  <2>3. model'.host = IF part = "host" THEN run[j].id ELSE model.host
    BY <1>8 DEF AdoptPart
  <2>4. "host" \in run'[j].left \/ model'.host # None
    BY <1>1, <2>1, <2>2, <2>3 DEF HasHost
  <2>5. HasHost(j)'
    BY <2>1, <2>2, <2>4 DEF HasHost
  <2>6. \A i \in Jobs \ {j} : HasHost(i)'
    BY <1>1, <1>3, <2>1 DEF HasHost
  <2>7. FilledIn'
    BY <2>1, <2>4 DEF FilledIn
  <2>8. QED
    BY <2>5, <2>6, <2>7
<1>9. CASE UseCached(j)
  <2>1. /\ run[j].pc = "client" /\ UNCHANGED model /\ run'[j].id = run[j].id
        /\ run'[j].pc \in {"connect", "work"}
    BY <1>9 DEF UseCached, Runs
  <2>2. QED
    BY <1>1, <1>4, <2>1 DEF HasHost
<1>10. CASE Connect(j)
  <2>1. run[j].pc = "connect" /\ model.host \in Servers
    BY <1>1, <1>10 DEF Connect, HasHost, Maybe
  <2>2. ServerFor(config.files, model.host) # Empty
    BY <2>1, HostIsNotEmpty
  <2>3. /\ UNCHANGED model /\ run'[j].id = run[j].id
        /\ run'[j].pc \in {"cache", "error"}
    BY <1>10, <2>2 DEF Connect, Runs
  <2>4. QED
    BY <1>1, <1>4, <2>1, <2>3 DEF HasHost
<1>11. CASE Cache(j)
  <2>1. /\ run[j].pc = "cache" /\ UNCHANGED model /\ run'[j].id = run[j].id
        /\ run'[j].pc = "work"
    BY <1>11 DEF Cache, GoTo, Runs
  <2>2. QED
    BY <1>1, <1>4, <2>1 DEF HasHost
<1>12. CASE EmptyConfig(j)
  BY <1>1, <1>12 DEF EmptyConfig, HasHost
<1>13. CASE GiveUp(j) \/ Store(j)
  <2>1. run[j].pc # "adopt" /\ run'[j].pc = "idle" /\ UNCHANGED model
    BY <1>13 DEF GiveUp, Store, Idle
  <2>2. QED
    BY <1>4, <2>1 DEF HasHost
<1>14. QED
  BY <1>5, <1>6, <1>7, <1>8, <1>9, <1>10, <1>11, <1>12, <1>13 DEF JobNext

NoReadLacksHost ==
    config # None /\ config.host = Unknown => \A j \in Jobs : run[j].pc # "empty"

\* "We don't want to throw error here": no Read fails for want of a host, whichever
\* jobs and hosts there are, as long as handlers run one at a time.  They then do not
\* even need the warning: every Read finds a host.  The run session_torn shows that
\* two at a time are enough to break it.
THEOREM SerialReadsFindHost ==
    Spec /\ []OneAtATime => []NoReadLacksHost /\ UnknownHostIsNoError
<1>1. Init => HostInv
  BY DEF Init, HostInv, AllIdle, Idle
<1>2. TypeOK /\ HostInv /\ OneAtATime /\ OneAtATime' /\ [Next]_vars => HostInv'
  <2> SUFFICES ASSUME TypeOK, HostInv, OneAtATime, OneAtATime', [Next]_vars PROVE HostInv'
    OBVIOUS
  <2>1. ASSUME NEW c \in Configs, Configure(c) PROVE HostInv'
    <3>1. AllIdle /\ AllIdle' /\ model' = HostOf(c) /\ config' \in {None, c}
      BY <2>1 DEF Configure, AllIdle
    <3>2. c.host = Unknown => ~model'.known
      BY <3>1 DEF HostOf
    <3>3. QED
      BY <3>1, <3>2 DEF HostInv, AllIdle, HasHost, FilledIn
  <2>2. ASSUME NEW j \in Jobs, JobNext(j) PROVE HostInv'
    <3>1. config # None /\ UNCHANGED config
      BY <2>2, JobMoves
      DEF HostInv, AllIdle, JobNext, BeginApply, BeginRead, ImportState, Begin, Delete, Moves,
          CheckHost, AdoptPart, UseCached, Connect, Cache, EmptyConfig, GiveUp, Store
    <3>2. CASE config.host = Unknown
      BY <2>2, <3>1, <3>2, SerialStepHasHost
    <3>3. CASE config.host # Unknown
      BY <3>1, <3>3 DEF HostInv
    <3>4. QED
      BY <3>2, <3>3
  <2>3. CASE UNCHANGED vars
    BY <2>3 DEF vars, HostInv, AllIdle, HasHost, FilledIn
  <2>4. QED
    BY <2>1, <2>2, <2>3 DEF Next
<1>3. TypeOK /\ HostInv =>
        [\A j \in Jobs :
            EmptyConfig(j) /\ config.host = Unknown => run'[j].pc = "warned"]_vars
  BY DEF HostInv, AllIdle, HasHost, EmptyConfig
<1>4. HostInv => NoReadLacksHost
  BY DEF HostInv, HasHost, NoReadLacksHost
<1>5. QED
  BY <1>1, <1>2, <1>3, <1>4, TypeCorrect, PTL DEF Spec, UnknownHostIsNoError

\* Once a Read has filled the host in, all clients are for it.
SerialSession ==
    /\ clientSet # None => model.known /\ clientSet = model.host
    /\ \A j \in Jobs :
          /\ run[j].pc # "idle" => run[j].id # None
          /\ run[j].pc \in {"client", "connect"} => model.known
          /\ run[j].pc \in {"cache", "work"} => model.known /\ run[j].client = model.host
          /\ run[j].pc = "adopt" => clientSet = None /\ ("known" \in run[j].left \/ model.known)

SerialInv == config # None /\ config.host = Unknown => SerialSession

LEMMA SerialStep ==
    ASSUME NoStrayFile, TypeOK, SerialInv, config # None, config.host = Unknown,
           NEW j \in Jobs, JobNext(j), run[j].pc # "idle" => OneAtATime
    PROVE  SerialSession'
<1>1. Moves(j) /\ SerialSession
  BY JobMoves DEF SerialInv
<1>2. ASSUME run[j].pc # "idle" PROVE \A i \in Jobs \ {j} : run[i].pc = "idle"
  BY <1>2 DEF OneAtATime
<1>3. ASSUME /\ run[j].pc = "idle" => UNCHANGED <<model, clientSet>>
             /\ clientSet' # None => model'.known /\ clientSet' = model'.host
             /\ run'[j].pc # "idle" => run'[j].id # None
             /\ run'[j].pc \in {"client", "connect"} => model'.known
             /\ run'[j].pc \in {"cache", "work"} => model'.known /\ run'[j].client = model'.host
             /\ run'[j].pc = "adopt" =>
                   clientSet' = None /\ ("known" \in run'[j].left \/ model'.known)
      PROVE  SerialSession'
  <2>1. ASSUME NEW i \in Jobs \ {j}
        PROVE  /\ run'[i] = run[i]
               /\ run[i].pc = "idle" \/ UNCHANGED <<model, clientSet>>
    BY <1>1, <1>2, <1>3 DEF Moves
  <2>2. QED
    BY <1>1, <1>3, <2>1 DEF SerialSession
<1>4. /\ clientSet # None => model.known /\ clientSet = model.host
      /\ run[j].pc # "idle" => run[j].id # None
      /\ run[j].pc \in {"client", "connect"} => model.known
      /\ run[j].pc \in {"cache", "work"} => model.known /\ run[j].client = model.host
      /\ run[j].pc = "adopt" => clientSet = None /\ ("known" \in run[j].left \/ model.known)
  BY <1>1 DEF SerialSession
<1>5. CASE BeginApply(j) \/ BeginRead(j) \/ ImportState(j)
  <2>1. BeginRead(j)
    BY <1>5 DEF BeginApply, ImportState
  <2>2. QED
    BY <1>3, <1>4, <2>1, Begins DEF BeginRead
<1>6. ~Delete(j)
  BY DEF Delete
<1>7. CASE CheckHost(j)
  BY <1>3, <1>4, <1>7, Checks DEF AdoptsId
<1>8. ASSUME NEW part \in {"known", "host"}, AdoptPart(j, part) PROVE SerialSession'
  BY <1>3, <1>4, <1>8, Adopts
<1>9. CASE Connect(j)
  <2>1. IsClient(ServerFor(config.files, model.host)) =>
           ServerFor(config.files, model.host) = model.host
    BY HostDecides DEF NoStrayFile, TypeOK
  <2>2. QED
    BY <1>3, <1>4, <1>9, <2>1, Connects
<1>10. CASE UseCached(j) \/ Cache(j) \/ EmptyConfig(j)
  BY <1>3, <1>4, <1>10, Proceeds
<1>11. CASE GiveUp(j) \/ Store(j)
  <2>1. run[j].pc # "idle"
    BY <1>11 DEF GiveUp, Store
  <2>2. QED
    BY <1>3, <1>4, <1>11, <2>1, Proceeds
<1>12. QED
  BY <1>5, <1>6, <1>7, <1>8, <1>9, <1>10, <1>11 DEF JobNext

\* The id a handler stores names the server its calls went to.  Two handlers at a
\* time are enough to break it: one gets its client set, another one, which had found
\* the host unknown before, replaces it, and the first stores what it finds.
IdNamesCluster ==
    [][\A j \in Jobs : Store(j) => id'[j] = run[j].client]_vars

\* If handlers run one at a time, what a job has on record names the server it was
\* read from, although not the one it was applied to: the run session_ids has a job
\* go over to another's host.
THEOREM SerialIdsNameClusters ==
    ASSUME ~Persistent, NoStrayFile
    PROVE  Spec /\ []OneAtATime => IdNamesCluster
<1>1. Init => SerialInv
  BY DEF Init, SerialInv
<1>2. TypeOK /\ KnownInv /\ SerialInv /\ OneAtATime /\ [Next]_vars => SerialInv'
  <2> SUFFICES ASSUME TypeOK, KnownInv, SerialInv, OneAtATime, [Next]_vars
               PROVE  SerialInv'
    OBVIOUS
  <2>1. ASSUME NEW c \in Configs, Configure(c) PROVE SerialInv'
    <3>1. /\ AllIdle' /\ model' = HostOf(c) /\ config' \in {None, c}
          /\ clientSet' # None => IsClient(ServerFor(c.files, HostOf(c).host))
      BY <2>1, ConfigureStarts
    <3>2. config' = c /\ c.host = Unknown => clientSet' = None
      BY <3>1 DEF NoStrayFile, HostOf
    <3>3. QED
      BY <3>1, <3>2 DEF SerialInv, SerialSession, AllIdle
  <2>2. ASSUME NEW j \in Jobs, JobNext(j) PROVE SerialInv'
    <3>1. config # None /\ UNCHANGED config
      BY <2>2, InCommand, JobMoves DEF KnownInv, Moves
    <3>2. QED
      BY <2>2, <3>1, SerialStep DEF SerialInv
  <2>3. CASE UNCHANGED vars
    BY <2>3 DEF vars, SerialInv, SerialSession
  <2>4. QED
    BY <2>1, <2>2, <2>3 DEF Next
<1>3. TypeOK /\ KnownInv /\ SerialInv =>
        [\A j \in Jobs : Store(j) => id'[j] = run[j].client]_vars
  <2> SUFFICES ASSUME TypeOK, KnownInv, SerialInv, NEW j \in Jobs, Store(j)
               PROVE  id'[j] = run[j].client
    OBVIOUS
  <2>1. run[j].pc = "work" /\ id'[j] = model.host /\ config # None
    BY Proceeds DEF Store, KnownInv, AllIdle
  <2>2. QED
    BY <2>1 DEF KnownInv, KnownSession, SerialInv, SerialSession
<1>4. QED
  BY <1>1, <1>2, <1>3, TypeCorrect, KnownInvariant, PTL DEF Spec, IdNamesCluster

===============================================================================
