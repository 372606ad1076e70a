------------------------------ MODULE KubeClient ------------------------------
(***************************************************************************)
(* The Kubernetes objects the provider reads, deletes and relabels, and    *)
(* what the functions of internal/provider/client.go compute from one API  *)
(* answer.  The five kinds of object share one text in client.go, repeated *)
(* per kind; here they share one operator.                                 *)
(*                                                                         *)
(* An object is the part of its metadata the provider looks at:            *)
(*   annotations  the meta.helm.sh annotations that are present WITH the   *)
(*                value Helm requires (a wrong value counts as missing, as *)
(*                it does in the code);                                    *)
(*   labels       "managedBy" is app.kubernetes.io/managed-by = Helm,      *)
(*                "amazon" is eks.amazonaws.com/component, "other" is any  *)
(*                further label; {} is the nil map;                        *)
(*   podLabels    the same labels on the pod template (deployment only);   *)
(*   selector     the labels of spec.selector.matchLabels (deployment      *)
(*                only);                                                   *)
(*   ips          spec.clusterIPs (services only).                         *)
(* An address is a network and the number in its last segment: the code    *)
(* only ever replaces that segment.                                        *)
(***************************************************************************)
EXTENDS Naturals, Sequences

CONSTANTS Absent,   \* what a Get that answers NotFound stands for
          Nets      \* the networks service addresses are taken from

Annotations == {"releaseName", "releaseNamespace"}

Labels == {"managedBy", "amazon", "other"}

Address == [net : Nets, host : Nat]

KubeObject == [annotations : SUBSET Annotations,
               labels      : SUBSET Labels,
               podLabels   : SUBSET Labels,
               selector    : SUBSET Labels,
               ips         : Seq(Address)]

ASSUME AbsentAssumption == Absent \notin KubeObject

\* The CoreDNS objects, and the two add-ons removed whatever their labels.
CoreDns == {"deployment", "service", "serviceAccount", "configMap",
            "podDisruptionBudget"}

AddOns == {"awsNode", "kubeProxy", "kubeProxyConfig"}

\* "kubernetes" is service default/kubernetes, which is only ever read.
Objects == CoreDns \cup AddOns \cup {"kubernetes"}

-----------------------------------------------------------------------------
(* What client.go computes from the answer of a Get.                       *)

ExistsAndIsAwsOne(o) == o # Absent /\ "amazon" \in o.labels

\* The addresses are returned for any service that has labels at all.
ServiceClusterIps(o) ==
    IF o = Absent \/ o.labels = {} THEN <<>> ELSE o.ips

\* The four answers of ...ImportedIntoHelm, as the set of those that are true.
Marks == {"releaseName", "releaseNamespace", "managedBy", "amazonRemoved"}

\* Mutant: labels are reported whatever they are.
ImportedWithAnyLabel(o) == IF o = Absent THEN Marks ELSE o.annotations \cup o.labels

ImportedIntoHelm(o) ==
    IF o = Absent
    THEN Marks
    ELSE o.annotations \cup (o.labels \cap {"managedBy"})
           \cup (IF "amazon" \in o.labels THEN {} ELSE {"amazonRemoved"})

\* patchFunc of Import...IntoHelm.  Its "updated" is HelmPatch(o) # o.
HelmPatch(o) ==
    [o EXCEPT !.annotations = Annotations,
              !.labels      = (@ \cup {"managedBy"}) \ {"amazon"},
              !.podLabels   = @ \ {"amazon"}]

\* The API server refuses a workload whose selector its own pods do not match.
Admissible(o) == o.selector \subseteq o.podLabels

(***************************************************************************)
(* The fallback when kube-dns has no address to report: the last segment   *)
(* of the first address of default/kubernetes is replaced by ".10", or by  *)
(* ":a" in IPv6.                                                           *)
(***************************************************************************)
DnsClusterIps(ips) ==
    IF ips = <<>> THEN <<>> ELSE << [ips[1] EXCEPT !.host = 10] >>
===============================================================================
