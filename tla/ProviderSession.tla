---------------------------- MODULE ProviderSession ----------------------------
(***************************************************************************)
(* One CleanEksProvider object and the cleaneks_job resources that share   *)
(* it: Configure (provider_configure.go), GetClientSet (provider.go) and   *)
(* the first and the last lines of Create, Read and Update                 *)
(* (resource_job.go), which find the cluster a handler works on and store  *)
(* its host as the id of the job.  What a handler does with the cluster in *)
(* between is JobResource.                                                 *)
(*                                                                         *)
(* Handlers of different jobs run concurrently and take no lock.  The      *)
(* write of Host is a data race: types.String is a flag and a string, and  *)
(* another handler can see either of them first.                           *)
(*                                                                         *)
(* Terraform is external.  A command configures the provider, then calls   *)
(* handlers.  Its plan can be made while the host is unknown, because the  *)
(* EKS cluster is yet to be created or replaced; only Read runs then.  By  *)
(* then jobs may be on record with different hosts: an apply leaves jobs   *)
(* alone that are as planned, and one that fails leaves the rest.          *)
(***************************************************************************)
EXTENDS ClientConfig

CONSTANTS
    Jobs,        \* the cleaneks_job resources
    Configs,     \* the provider configurations Terraform may send
    Unknown,     \* a host Terraform cannot tell yet
    Persistent   \* does the process serve several commands (main -debug)

ASSUME SessionAssumption ==
    /\ Unknown \notin Maybe(Servers)
    /\ \A c \in Configs : c.host \in Servers \cup {Unknown} /\ c.files \in FileSettings
    /\ Persistent \in BOOLEAN

VARIABLES
    config,     \* what the command under way was configured with, or None
    model,      \* model.Host of the provider: is it known, and its string
    clientSet,  \* the cached client set: the server it talks to, or None
    run,        \* the handler run of each job
    id          \* the id the Terraform state records of each job, or None

vars == <<config, model, clientSet, run, id>>

Idle == [pc |-> "idle", id |-> None, left |-> {}, client |-> None]

Init ==
    /\ config = None
    /\ model = [known |-> TRUE, host |-> None]
    /\ clientSet = None
    /\ run = [j \in Jobs |-> Idle]
    /\ id = [j \in Jobs |-> None]

-----------------------------------------------------------------------------
(* Terraform starts a command, in a new process unless this one stays.     *)

AllIdle == \A j \in Jobs : run[j].pc = "idle"

HostOf(c) == IF c.host = Unknown THEN [known |-> FALSE, host |-> None]
                                 ELSE [known |-> TRUE, host |-> c.host]

\* Mutant: what failed is kept as well.
NotBroken(s) == s # Broken

\* GetClientSet gave a client set.
IsClient(s) == s \in Servers

\* A client set that is there is kept.  An empty configuration is a warning, any
\* other error ends the command.
Configure(c) ==
    LET kept == IF Persistent THEN clientSet ELSE None
        made == ServerFor(c.files, HostOf(c).host)
    IN  /\ AllIdle
        /\ model' = HostOf(c)
        /\ clientSet' = IF kept = None /\ IsClient(made) THEN made ELSE kept
        /\ config' = IF kept = None /\ made = Broken THEN None ELSE c
        /\ UNCHANGED <<run, id>>

-----------------------------------------------------------------------------
(* Terraform calls a handler.  The id in the plan of a Create or an Update *)
(* is unknown; Read gets the recorded one, after ImportState the user's.   *)

Begin(j, known) ==
    /\ config # None /\ run[j].pc = "idle"
    /\ run' = [run EXCEPT ![j] = [Idle EXCEPT !.pc = "start", !.id = known]]
    /\ UNCHANGED <<config, model, clientSet, id>>

BeginApply(j) == Begin(j, None) /\ config.host # Unknown

BeginRead(j) == Begin(j, id[j]) /\ id[j] # None

ImportState(j) ==
    \E h \in Servers : Begin(j, h) /\ id[j] = None /\ config.host # Unknown

Delete(j) ==
    /\ config # None /\ config.host # Unknown /\ run[j].pc = "idle" /\ id[j] # None
    /\ id' = [id EXCEPT ![j] = None]
    /\ UNCHANGED <<config, model, clientSet, run>>

-----------------------------------------------------------------------------
(* The handler.                                                            *)

GoTo(j, pc) == run' = [run EXCEPT ![j].pc = pc]

\* Mutant: the id is taken for the host whenever there is one.
AdoptsAlways(j) == run[j].id # None

AdoptsId(j) == ~model.known /\ run[j].id # None

CheckHost(j) ==
    /\ run[j].pc = "start"
    /\ run' = [run EXCEPT ![j].pc   = IF AdoptsId(j) THEN "adopt" ELSE "client",
                          ![j].left = IF AdoptsId(j) THEN {"known", "host"} ELSE {}]
    /\ UNCHANGED <<config, model, clientSet, id>>

\* Host = model.ID, of which others see one part before the other.
AdoptPart(j, part) ==
    /\ run[j].pc = "adopt" /\ part \in run[j].left
    /\ model' = IF part = "known" THEN [model EXCEPT !.known = TRUE]
                                  ELSE [model EXCEPT !.host = run[j].id]
    /\ run' = [run EXCEPT ![j].left = @ \ {part},
                          ![j].pc   = IF run[j].left = {part} THEN "client" ELSE "adopt"]
    /\ UNCHANGED <<config, clientSet, id>>

\* The cached client set, if there is one.
UseCached(j) ==
    /\ run[j].pc = "client"
    /\ run' = [run EXCEPT ![j].pc     = IF clientSet = None THEN "connect" ELSE "work",
                          ![j].client = clientSet]
    /\ UNCHANGED <<config, model, clientSet, id>>

\* GetClientSet reads the model as it is now.
Connect(j) ==
    LET made == ServerFor(config.files, model.host)
    IN  /\ run[j].pc = "connect"
        /\ run' = [run EXCEPT ![j].pc     = IF IsClient(made) THEN "cache"
                                            ELSE IF made = Empty THEN "empty" ELSE "error",
                              ![j].client = IF IsClient(made) THEN made ELSE None]
        /\ UNCHANGED <<config, model, clientSet, id>>

Cache(j) ==
    /\ run[j].pc = "cache"
    /\ clientSet' = run[j].client
    /\ GoTo(j, "work")
    /\ UNCHANGED <<config, model, id>>

\* Read answers an empty configuration with a warning while the host is unknown.
EmptyConfig(j) ==
    /\ run[j].pc = "empty"
    /\ GoTo(j, IF run[j].id # None /\ ~model.known THEN "warned" ELSE "error")
    /\ UNCHANGED <<config, model, clientSet, id>>

\* The handler returns without storing anything.
GiveUp(j) ==
    /\ run[j].pc \in {"warned", "error", "work"}
    /\ run' = [run EXCEPT ![j] = Idle]
    /\ UNCHANGED <<config, model, clientSet, id>>

\* The id of the job is the provider's host, as it is by now.
Store(j) ==
    /\ run[j].pc = "work"
    /\ id' = [id EXCEPT ![j] = model.host]
    /\ run' = [run EXCEPT ![j] = Idle]
    /\ UNCHANGED <<config, model, clientSet>>

JobNext(j) ==
    \/ BeginApply(j) \/ BeginRead(j) \/ ImportState(j) \/ Delete(j)
    \/ CheckHost(j) \/ \E part \in {"known", "host"} : AdoptPart(j, part)
    \/ UseCached(j) \/ Connect(j) \/ Cache(j) \/ EmptyConfig(j)
    \/ GiveUp(j) \/ Store(j)

Next == (\E c \in Configs : Configure(c)) \/ \E j \in Jobs : JobNext(j)

Spec == Init /\ [][Next]_vars

-----------------------------------------------------------------------------
(* Properties.                                                             *)

Pcs == {"idle", "start", "adopt", "client", "connect", "cache", "work",
        "empty", "warned", "error"}

Runs == [pc : Pcs, id : Maybe(Servers), left : SUBSET {"known", "host"},
         client : Maybe(Servers)]

\* The type invariant.
TypeOK ==
    /\ config \in Configs \cup {None}
    /\ model \in [known : BOOLEAN, host : Maybe(Servers)]
    /\ clientSet \in Maybe(Servers)
    /\ run \in [Jobs -> Runs]
    /\ id \in [Jobs -> Maybe(Servers)]

\* Calls go to the host Terraform configured the provider with, whatever
\* kubeconfig files there are and whoever made the client set.
ConfiguredHost ==
    \A j \in Jobs :
        run[j].pc = "work" /\ config.host # Unknown => run[j].client = config.host

\* The only host a handler stores is one Terraform knows of: the configured one, or
\* while that is unknown one that some job has on record.  Never none, although the
\* provider's host is none until a Read has filled it in, and others fill it in too.
HostStaysOnRecord ==
    [][\A j \in Jobs :
          Store(j) => /\ id'[j] # None
                      /\ IF config.host = Unknown THEN \E i \in Jobs : id'[j] = id[i]
                         ELSE id'[j] = config.host]_vars

\* "Use ID as host if value is known": a Read made while the provider's host is
\* unknown works on the host its own job has on record, and leaves it there.
IdIsHost ==
    [][\A j \in Jobs :
          Store(j) /\ config.host = Unknown =>
             run[j].client = run[j].id /\ id'[j] = run[j].id]_vars

\* "We don't want to throw error here as we EKS cluster might not exist yet": a
\* Read made while the host is unknown does not fail for want of a host.
UnknownHostIsNoError ==
    [][\A j \in Jobs :
          EmptyConfig(j) /\ config.host = Unknown => run'[j].pc = "warned"]_vars
===============================================================================
