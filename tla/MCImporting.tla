------------------------------ MODULE MCImporting ------------------------------
(* Jobs that import, call by call.                                         *)
EXTENDS ImportingJobs, MCJobs

\* One job imports, or removes, what another imports.
ImportingPlans == {Plan(FALSE, FALSE, FALSE, TRUE), Plan(FALSE, FALSE, TRUE, FALSE)}

\* A deployment whose selector names Amazon's label cannot be relabelled.
Selected == [Amazon("deployment") EXCEPT !.podLabels = {"amazon"}, !.selector = {"amazon"}]

ImportingClusters ==
    LET amazon == ClusterOf({"deployment"})
    IN  {amazon, [amazon EXCEPT !["deployment"] = Selected]}

\* A person labels or deletes the deployment, Helm takes it over, EKS brings it back.
Labelled == [Amazon("deployment") EXCEPT !.labels = {"amazon"}]

ImportingDrifts ==
    { <<"deployment", Amazon("deployment")>>, <<"deployment", Labelled>>,
      <<"deployment", Helm("deployment")>>, <<"deployment", Absent>> }
===============================================================================
