------------------------------- MODULE MCSession -------------------------------
(* Two API servers, kubeconfig files, and configurations that name them.   *)
EXTENDS ProviderSession

CONSTANTS h1, h2,      \* the servers
          file, other  \* a path with a kubeconfig file, and one without

\* One cluster, that of h1, under the names EKS writes.
Kubeconfig == [current |-> "eks", cluster |-> [c \in Contexts |->
                  IF c = "eks" THEN "cluster" ELSE None],
               server |-> [e \in Entries |-> h1]]

MCDisk == [p \in Paths |-> IF p = file THEN Kubeconfig ELSE Missing]

FilesOf(path, paths, env, context) ==
    [configPath |-> path, configPaths |-> paths, envPaths |-> env,
     context |-> context, cluster |-> None]

NoFiles    == FilesOf(None, <<>>, <<>>, None)
OneFile    == FilesOf(file, <<>>, <<other>>, None)
TwoFiles   == FilesOf(None, <<other, file>>, <<other>>, "eks")
GoneFile   == FilesOf(None, <<>>, <<other>>, None)
GoneFiles  == FilesOf(None, <<other, other>>, <<>>, None)
BadContext == FilesOf(None, <<>>, <<other, file>>, "dev")

Config(h, files) == [host |-> h, files |-> files]

\* The cluster moves from one server to the other; files are there or not,
\* but none can be read while the host is unknown.
SharedConfigs ==
    { Config(h1, NoFiles), Config(h1, TwoFiles), Config(h2, OneFile),
      Config(h2, GoneFile), Config(h2, GoneFiles), Config(h1, BadContext),
      Config(Unknown, NoFiles), Config(Unknown, GoneFiles), Config(Unknown, BadContext) }

\* The same without files.
PlainConfigs == { Config(h1, NoFiles), Config(h2, NoFiles), Config(Unknown, NoFiles) }

\* A kubeconfig file of h1's cluster, which the provider can always read.
FileConfigs == { Config(h2, OneFile), Config(Unknown, OneFile) }
===============================================================================
