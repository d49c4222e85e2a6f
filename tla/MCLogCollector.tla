--------------------------- MODULE MCLogCollector ---------------------------
(***************************************************************************)
(* Instances of LogCollector for TLC: an OpenShift or plain cluster with    *)
(* two kinds of Service, a namespace that was asked for and the one of the  *)
(* ingress operator.                                                        *)
(***************************************************************************)
EXTENDS LogCollector, TLC

Res(group, kind, namespaced) == [group |-> group, kind |-> kind, namespaced |-> namespaced]

Namespaces == Res("", "Namespace", FALSE)
Nodes      == Res("", "Node", FALSE)
Pods       == Res("", "Pod", TRUE)
Secrets    == Res("", "Secret", TRUE)
Services   == Res("", "Service", TRUE)
Licenses   == Res("triliovault.trilio.io", "License", TRUE)
Knative    == Res("serving.knative.dev", "Service", TRUE)
Ingresses  == Res("operator.openshift.io", "IngressController", TRUE)
Webhooks   == Res("security.openshift.io", "Webhook", FALSE)

MCApi ==
  "" :> <<Res("", "Event", TRUE), Namespaces, Nodes, Pods, Secrets, Services>> @@
  "triliovault.trilio.io" :> <<Licenses>> @@
  "serving.knative.dev" :> <<Knative>> @@
  "operator.openshift.io" :> <<Ingresses>> @@
  "security.openshift.io" :> <<Webhooks>>

Obj(res, ns, name, mark) == [res |-> res, ns |-> ns, name |-> name, mark |-> mark]

TvkPod  == Obj(Pods, "tvk", "p1", "tvk")
AppPod  == Obj(Pods, "tvk", "p2", "app")
OcpPod  == Obj(Pods, "openshift-ingress-operator", "p3", "tvk")
License == Obj(Licenses, "tvk", "lic", "none")
Node    == Obj(Nodes, "", "node", "none")
Core    == Obj(Services, "tvk", "svc", "tvk")
Serving == Obj(Knative, "tvk", "svc", "tvk")

Fixed == {Obj(Namespaces, "", ns, "none") : ns \in {"tvk", "openshift-ingress-operator"}} \cup
         {Obj(Ingresses, "openshift-ingress-operator", "default", "none"),
          Obj(Secrets, "tvk", "cert", "owned"), Obj(Webhooks, "", "hook", "webhook")}

MCObject == Fixed \cup {TvkPod, AppPod, OcpPod, License, Node, Core, Serving}
MCEvent  == {[o |-> o, n |-> n] : o \in {TvkPod}, n \in 1..2} \cup
            {[o |-> o, n |-> 1] : o \in {License, Node, Serving}}
MCLive   == {MCObject, MCObject \ {TvkPod, Serving, License}}

MCServed == {DOMAIN MCApi, {"", "triliovault.trilio.io", "serving.knative.dev"}}

MCPreferred == [g \in DOMAIN MCApi |-> "v1"]
MCTrimmed   == [ns \in {"tvk", " tvk", "default", "openshift-ingress-operator"} |->
                  IF ns = " tvk" THEN "tvk" ELSE ns]
Running(last) == [last |-> last, state |-> "running"]
MCStatus ==
  [o \in {TvkPod, AppPod, OcpPod} |->
     IF o = TvkPod THEN "main" :> Running("terminated")
     ELSE "init" :> [last |-> "none", state |-> "waiting"]]

PodGvk(version) == [group |-> "", version |-> version, kind |-> "Pod"]
File(clustered, namespaces, keep, gvks, labels) ==
  [clustered |-> clustered, namespaces |-> namespaces, keep |-> keep, gvks |-> gvks, labels |-> labels]

MCInputs ==
  {[file |-> NoInputs, flags |-> "namespaces" :> <<"tvk">>],
   [file |-> File(TRUE, <<>>, TRUE, {PodGvk("")}, {"app"}), flags |-> "keep" :> FALSE],
   [file |-> File(FALSE, <<"default">>, FALSE, {}, {"app"}),
    flags |-> "namespaces" :> <<" tvk", "tvk">> @@ "keep" :> TRUE],
   [file |-> NoInputs, flags |-> <<>>],
   [file |-> NoInputs, flags |-> "clustered" :> TRUE @@ "namespaces" :> <<"tvk">>]}

(* A config file as the one of the documentation.                           *)
FileInputs == {[file |-> File(FALSE, <<"tvk">>, FALSE, {}, {}), flags |-> <<>>]}
=============================================================================
