----------------------------- MODULE ClientConfig -----------------------------
(***************************************************************************)
(* newKubernetesClientConfig (internal/provider/provider_configure.go):    *)
(* which API server a client made from the provider's settings talks to.   *)
(*                                                                         *)
(* A kubeconfig file names a server for each cluster, a cluster for each   *)
(* context it has, and its current context; None stands for what a file or *)
(* a setting does not say, and for the empty string.  How files are merged *)
(* and checked is clientcmd's (k8s.io/client-go), and external.            *)
(* Credentials, TLS and proxy settings are left out: they decide how a     *)
(* client talks to its server, not which one it talks to.  Left out too is *)
(* what only ends the call: a path whose ~ cannot be expanded, a host that *)
(* cannot be parsed, a client that cannot be made of the configuration.    *)
(***************************************************************************)
EXTENDS Naturals, Sequences

CONSTANTS Servers,    \* the API servers
          Contexts,   \* names of contexts in kubeconfig files
          Entries,    \* names of clusters in kubeconfig files
          Paths,      \* the paths settings may name
          Disk,       \* what is at each path: a file, or Missing
          None,       \* nothing said
          Missing,    \* no file
          Empty,      \* the error ErrEmptyConfig
          Broken      \* every other error

Maybe(S) == S \cup {None}

Files == [current : Maybe(Contexts), cluster : [Contexts -> Maybe(Entries)],
          server : [Entries -> Maybe(Servers)]]

ASSUME DiskAssumption == Disk \in [Paths -> Files \cup {Missing}]

ASSUME NamesAssumption ==
    /\ None \notin Servers \cup Contexts \cup Entries \cup Paths
    /\ {Empty, Broken} \cap Maybe(Servers) = {} /\ Empty # Broken

\* config_path, config_paths, KUBE_CONFIG_PATHS, config_context and
\* config_context_cluster.
FileSettings == [configPath : Maybe(Paths), configPaths : Seq(Paths),
                 envPaths : Seq(Paths), context : Maybe(Contexts),
                 cluster : Maybe(Entries)]

-----------------------------------------------------------------------------
\* The first of these that says anything.
ConfigPaths(s) ==
    IF s.configPath # None THEN << s.configPath >>
    ELSE IF s.configPaths # <<>> THEN s.configPaths
    ELSE s.envPaths

\* A single path is an ExplicitPath and has to be there; of several, the ones
\* that are missing are skipped.
Unreadable(paths) == Len(paths) = 1 /\ Disk[paths[1]] = Missing

Readable(paths) == SelectSeq(paths, LAMBDA p : Disk[p] # Missing)

\* The files that are there, in the order of the paths.
FilesAt(paths) ==
    LET there == Readable(paths) IN [i \in DOMAIN there |-> Disk[there[i]]]

\* What files say together: the first that says anything decides.
FirstOf(said) ==
    LET something == SelectSeq(said, LAMBDA v : v # None)
    IN  IF something = <<>> THEN None ELSE something[1]

CurrentOf(paths) ==
    LET files == FilesAt(paths) IN FirstOf([i \in DOMAIN files |-> files[i].current])

\* The context and its cluster, unless the settings name others.  They are
\* looked at only together with kubeconfig files.
ContextOf(s, paths) ==
    IF s.context # None THEN s.context ELSE CurrentOf(paths)

ClusterOfContext(c, paths) ==
    LET files == FilesAt(paths)
    IN  IF c = None THEN None ELSE FirstOf([i \in DOMAIN files |-> files[i].cluster[c]])

EntryOf(s, paths) ==
    IF s.cluster # None THEN s.cluster
    ELSE ClusterOfContext(ContextOf(s, paths), paths)

ServerOfEntry(e, paths) ==
    LET files == FilesAt(paths)
    IN  IF e = None THEN None ELSE FirstOf([i \in DOMAIN files |-> files[i].server[e]])

\* A context that is not in the files, or a cluster the settings name that is not.
Dangling(s, paths) ==
    \/ /\ ContextOf(s, paths) # None
       /\ ClusterOfContext(ContextOf(s, paths), paths) = None
    \/ s.cluster # None /\ ServerOfEntry(s.cluster, paths) = None

\* Mutant: the files win over the provider's host.
FilesFirst(host, server) == IF server # None THEN server ELSE host

\* The static host is an override: it wins over what the files say.
Override(host, server) == IF host # None THEN host ELSE server

\* The server of a client for settings s and that host, or the error.
ServerFor(s, host) ==
    LET paths  == ConfigPaths(s)
        server == Override(host, ServerOfEntry(EntryOf(s, paths), paths))
    IN  IF paths # <<>> /\ (Unreadable(paths) \/ Dangling(s, paths)) THEN Broken
        ELSE IF server = None THEN Empty
        ELSE server
===============================================================================
