------------------------------ MODULE MCLocator ------------------------------
(***************************************************************************)
(* Connections of the registry's descriptors, one or two for each type and *)
(* with each way of naming a namespace, over objects of which two have the *)
(* same name in different namespaces.                                      *)
(***************************************************************************)
EXTENDS Locator

CONSTANTS podA, podB, svc, svcB, mon, rs, dep, hpa, sa, saV, crb, rb, db, app, dbView, podView, absent, missing, malformed

Objects == {podA, podB, svc, svcB, mon, rs, dep, hpa, sa, saV, crb, rb, db, app, dbView, podView}

Core(kind) == [group |-> "", kind |-> kind]
Pod == Core("Pod")
Service == Core("Service")
ServiceAccount == Core("ServiceAccount")
ServiceMonitor == [group |-> "monitoring.coreos.com", kind |-> "ServiceMonitor"]
ReplicaSet == [group |-> "apps", kind |-> "ReplicaSet"]
Deployment == [group |-> "apps", kind |-> "Deployment"]
HPA == [group |-> "autoscaling", kind |-> "HorizontalPodAutoscaler"]
RoleBinding == [group |-> "rbac.authorization.k8s.io", kind |-> "RoleBinding"]
ClusterRoleBinding == [group |-> "rbac.authorization.k8s.io", kind |-> "ClusterRoleBinding"]
MySQL == [group |-> "kubedb.com", kind |-> "MySQL"]
GenericResource == [group |-> "ui.k8s.appscode.com", kind |-> "GenericResource"]
AppBinding == [group |-> "appcatalog.appscode.com", kind |-> "AppBinding"]

All(S, v) == [x \in S |-> v]
GVKs ==
  All({podA, podB}, Pod) @@ All({svc, svcB}, Service) @@ All({sa, saV}, ServiceAccount)
    @@ All({dbView, podView}, GenericResource) @@ mon :> ServiceMonitor @@ rs :> ReplicaSet @@ dep :> Deployment
    @@ hpa :> HPA @@ crb :> ClusterRoleBinding @@ rb :> RoleBinding @@ db :> MySQL @@ app :> AppBinding
Names ==
  All({svc, svcB}, "s") @@ dbView :> "w~MySQL" @@ podView :> "w~Pod" @@ saV :> "v" @@ All(Objects, "w")
NamespacesOf == All({podB, svcB, rb, podView}, "b") @@ crb :> "" @@ All(Objects, "a")
NamespacedKinds == {GVKs[x] : x \in Objects \ {crb}}

Web == {<<"app", "web">>}
Account == ".spec.serviceAccountName"
Subjects == ".subjects"

Look == [labels |-> {}, inner |-> missing, selector |-> missing, nsSelector |-> missing,
         owners |-> {}, refs |-> [p \in {Account, Subjects} |-> <<>>]]
Using(rows) == [p \in {Account, Subjects} |-> rows]
OwnedBy(gvk, x, n) == {[gvk |-> gvk, name |-> "w", uid |-> <<x, n>>, controller |-> TRUE]}
ByRs(n) == OwnedBy(ReplicaSet, rs, n)

\* The look of x at first, and what else it may look like.
Usual(x) ==
  CASE x = podA -> [Look EXCEPT !.labels = Web, !.owners = ByRs(1), !.refs = Using(<<<<"w">>>>)]
    [] x = podB -> [Look EXCEPT !.labels = Web, !.refs = Using(<<<<"w">>>>)]
    [] x = svc  -> [Look EXCEPT !.labels = Web, !.selector = Web]
    [] x = mon  -> [Look EXCEPT !.selector = Web, !.nsSelector = [any |-> FALSE, names |-> {"a", "b"}]]
    [] x = rs   -> [Look EXCEPT !.selector = Web, !.owners = OwnedBy(Deployment, dep, 1)]
    [] x = hpa  -> [Look EXCEPT !.refs = Using(<<<<"w", "a", "Deployment", <<"apps", "v1">>>>>>)]
    [] x = crb  -> [Look EXCEPT !.refs = Using(<<<<"w", "a", "ServiceAccount">>, <<"w", "", "User">>, <<"v", "a", "ServiceAccount">>>>)]
    [] x = rb   -> [Look EXCEPT !.refs = Using(<<<<"w", "a", "ServiceAccount">>>>)]
    [] x = app  -> [Look EXCEPT !.owners = OwnedBy(MySQL, db, 1)]
    [] OTHER    -> Look
Others(x) ==
  CASE x = podA -> {[Look EXCEPT !.refs = Using(<<<<"none">>>>)]}
    [] x \in {podB, svc} -> {Look}
    [] x = svcB -> {[Look EXCEPT !.labels = Web, !.selector = Web]}
    [] x = mon  -> {[Look EXCEPT !.selector = Web, !.nsSelector = [any |-> FALSE, names |-> {}]],
                    [Look EXCEPT !.selector = Web, !.nsSelector = [any |-> TRUE, names |-> {}]],
                    [Look EXCEPT !.selector = {}, !.nsSelector = [any |-> FALSE, names |-> {"b"}]],
                    [Look EXCEPT !.selector = malformed]}
    [] x = rs   -> {[Look EXCEPT !.selector = Web]}
    [] x = hpa  -> {[Look EXCEPT !.refs = Using(<<<<"w", "a", "ReplicaSet", <<"apps", "v1">>>>>>)]}
    [] x = crb  -> {[Look EXCEPT !.refs = Using(<<<<"w", "b", "ServiceAccount">>>>)]}
    [] OTHER    -> {}
AllLooks == [x \in Objects |-> {Usual(x)} \cup Others(x)]

E0 == [type |-> "MatchSelector", level |-> "", nsPath |-> MetadataNamespace, selectorPath |-> TRUE,
       selector |-> {}, targetLabelPath |-> FALSE, rename |-> [n \in {"w", "s"} |-> n], references |-> <<>>]
Joins(from, to, e) == [src |-> from, dst |-> to] @@ e

Connections == [name \in {"exposes", "monitors", "selects", "controlled", "scales", "runsAs", "grants", "allows", "binds", "views"} |->
  CASE name = "exposes"    -> Joins(Service, Pod, E0)
    [] name = "monitors"   -> Joins(ServiceMonitor, Service, [E0 EXCEPT !.nsPath = "spec.namespaceSelector"])
    [] name = "selects"    -> Joins(ReplicaSet, Pod, [E0 EXCEPT !.level = "Controller"])
    [] name = "controlled" -> Joins(ReplicaSet, Deployment, [E0 EXCEPT !.type = "OwnedBy", !.level = "Controller"])
    [] name = "scales"     -> Joins(HPA, Deployment, [E0 EXCEPT !.type = "MatchRef", !.references = <<Subjects>>])
    [] name = "runsAs"     -> Joins(Pod, ServiceAccount, [E0 EXCEPT !.type = "MatchRef", !.references = <<Account>>])
    [] name = "grants"     -> Joins(ClusterRoleBinding, ServiceAccount,
                                [E0 EXCEPT !.type = "MatchRef", !.nsPath = "", !.references = <<Subjects>>])
    [] name = "allows"     -> Joins(RoleBinding, ServiceAccount,
                                [E0 EXCEPT !.type = "MatchRef", !.references = <<Subjects>>])
    [] name = "binds"      -> Joins(MySQL, AppBinding, [E0 EXCEPT !.type = "MatchName", !.level = "Controller"])
    [] name = "views"      -> Joins(MySQL, GenericResource,
                                [E0 EXCEPT !.type = "MatchName", !.rename = [n \in {"w"} |-> "w~MySQL"]])]

AnyIn(gvk, ns) == [gvk |-> gvk, namespace |-> ns, name |-> "", selector |-> {}]
Locators ==
  {[src |-> AnyIn(ServiceMonitor, "a"), path |-> <<"monitors", "exposes", "runsAs">>],
   [src |-> AnyIn(ServiceAccount, "a"), path |-> <<"runsAs", "exposes", "monitors">>],
   [src |-> AnyIn(Deployment, ""), path |-> <<"controlled", "selects">>],
   [src |-> AnyIn(ClusterRoleBinding, ""), path |-> <<"grants">>],
   [src |-> AnyIn(Pod, ""), path |-> <<>>],
   [src |-> AnyIn(Service, "a"), path |-> <<"exposes", "binds">>],
   [src |-> AnyIn(GenericResource, "b"), path |-> <<"views">>],
   [src |-> [AnyIn(Service, "a") EXCEPT !.name = "s", !.selector = missing], path |-> <<"exposes">>]}

\* The views are made by the API server, for objects that do not change here.
AnyChange == UNION {{x} \X (AllLooks[x] \cup {absent}) : x \in Objects \ {dbView, podView}}
UsualWorld == {[x \in Objects |-> IF x = saV THEN absent ELSE Usual(x)]}
=============================================================================
