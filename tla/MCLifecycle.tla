------------------------------ MODULE MCLifecycle ------------------------------
(* Jobs applied again and again.                                           *)
EXTENDS TerraformLifecycle, MCJobs

\* The defaults, an import, and a configuration that leaves kube-proxy and CoreDNS alone.
LifePlans ==
    {DefaultSettings, Plan(TRUE, TRUE, FALSE, TRUE), Plan(TRUE, FALSE, FALSE, FALSE)}

\* The cluster EKS hands out, or one without the add-ons.
LifeClusters == {ClusterOf(CoreDns \cup AddOns), ClusterOf({})}

\* EKS reinstalls AWS CNI, Helm deploys its CoreDNS service.
LifeDrifts == {<<"awsNode", Amazon("awsNode")>>, <<"service", Helm("service")>>}

\* Two jobs, one removing CoreDNS and one importing it.
LifeTogetherPlans == {DefaultSettings, Plan(TRUE, TRUE, FALSE, TRUE)}

DefaultPlans == {DefaultSettings}

\* Only one of the two objects of kube-proxy comes back.
ProxyDrifts == {<<"kubeProxy", Amazon("kubeProxy")>>}

\* With KeepCniPlans: a cluster that never had AWS CNI.
EmptyClusters == {ClusterOf({})}
===============================================================================
