------------------------------- MODULE MCImport --------------------------------
(* One CoreDNS deployment, relabelled by two jobs while others write it.   *)
EXTENDS HelmImport

Deployment(annotations, labels, podLabels, selector) ==
    [annotations |-> annotations, labels |-> labels,
     podLabels |-> podLabels, selector |-> selector, ips |-> <<>>]

\* Amazon's, with and without a label of another writer; the same with one
\* annotation; Helm's; and one whose selector names Amazon's label, as EKS
\* creates it.
Amazon   == Deployment({}, {"amazon"}, {"amazon", "other"}, {"other"})
Labelled == Deployment({}, {"amazon", "other"}, {"amazon", "other"}, {"other"})
Half     == Deployment({"releaseName"}, {"amazon"}, {"amazon", "other"}, {"other"})
Helm     == Deployment(Annotations, {"managedBy"}, {"other"}, {"other"})
Selected == Deployment({}, {"amazon"}, {"amazon", "other"}, {"amazon", "other"})

MCValues == {Amazon, Labelled, Half, Helm, Selected, Absent}
===============================================================================
