-------------------------------- MODULE MCJobs ---------------------------------
(* Small clusters, settings and other writers for the runs of JobResource. *)
EXTENDS JobResource

CONSTANT eks   \* the service network

KubernetesIps == << [net |-> eks, host |-> 1] >>
DnsIps        == << [net |-> eks, host |-> 10] >>

Object(annotations, labels, ips) ==
    [annotations |-> annotations, labels |-> labels,
     podLabels |-> {}, selector |-> {}, ips |-> ips]

IpsOf(o) == IF o = "service" THEN DnsIps ELSE <<>>

Amazon(o)  == Object({}, {"amazon", "other"}, IpsOf(o))
Helm(o)    == Object(Annotations, {"managedBy", "other"}, IpsOf(o))
Foreign(o) == Object({}, {}, IpsOf(o))

Kubernetes == Object({}, {"other"}, KubernetesIps)

ClusterOf(objects) ==
    [o \in Objects |-> IF o = "kubernetes" THEN Kubernetes
                       ELSE IF o \in objects THEN Amazon(o) ELSE Absent]

Plan(cni, proxy, remove, import) ==
    [removeAwsCni |-> cni, removeKubeProxy |-> proxy,
     removeCoreDns |-> remove, importCorednsToHelm |-> import]

(***************************************************************************)
(* One job: the cluster EKS hands out, whose DNS service has an address of *)
(* its own, or one whose add-ons were never installed and where a person   *)
(* has deployed a kube-dns without labels.  The settings are the example   *)
(* of the docs (its calls are those of the defaults), an import, a job     *)
(* that keeps AWS CNI, and one that is told to do nothing.  At any moment  *)
(* EKS brings aws-node back, or the service at the usual address.          *)
(***************************************************************************)
OwnIps == << [net |-> eks, host |-> 20] >>

AloneClusters ==
    { [ClusterOf(CoreDns \cup AddOns) EXCEPT !["service"].ips = OwnIps],
      [ClusterOf({}) EXCEPT !["service"] = Foreign("service")] }

ExamplePlan == Plan(TRUE, TRUE, TRUE, TRUE)

AlonePlans ==
    { ExamplePlan, Plan(TRUE, TRUE, FALSE, TRUE),
      Plan(FALSE, TRUE, TRUE, FALSE), Plan(FALSE, FALSE, FALSE, FALSE) }

AloneDrifts ==
    { <<"awsNode", Amazon("awsNode")>>, <<"service", Amazon("service")>> }

\* A run somebody else wrote into is followed for as long as it removes CoreDNS.
DisturbedWhileRemoving ==
    \A j \in Jobs : touched[j] => \E k \in CoreDns : Step("remove", k) \in job[j].todo

(***************************************************************************)
(* Two jobs: CoreDNS reduced to deployment and service, kube-proxy to its  *)
(* daemonset.                                                              *)
(***************************************************************************)
TogetherClusters == {ClusterOf({"deployment", "service", "kubeProxy"})}

\* Told to remove CoreDNS only.
RemovePlans == {Plan(FALSE, FALSE, TRUE, FALSE)}

NoDrifts == {}

\* Argo CD replaces the deployment by its chart's.
HandoverDrifts == {<<"deployment", Helm("deployment")>>}

ExamplePlans == {ExamplePlan}

\* Told to keep AWS CNI.
KeepCniPlans == {Plan(FALSE, TRUE, TRUE, FALSE)}

\* The disruption budget is Amazon's still, the rest of CoreDNS is gone.
BudgetClusters == {ClusterOf({"podDisruptionBudget"})}

KeepPlans == {Plan(FALSE, FALSE, FALSE, FALSE)}
===============================================================================
