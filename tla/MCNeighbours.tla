------------------------------ MODULE MCNeighbours ------------------------------
(***************************************************************************)
(* The pages of a Pod, a workload, a Service, one of type ExternalName,    *)
(* and a Namespace, each with a few neighbours of every kind, and some     *)
(* that are none.                                                          *)
(***************************************************************************)
EXTENDS Neighbours, CalicoSelector, TLC

\* What the values that appear begin with, end with and contain.
MCParts == [v \in {"api", "web", "a", "ns"} |-> IF v = "api" THEN {"api", "a"} ELSE {v}]

MCStrings == STRING

MCLabelSets == {<<>>, "app" :> "api", "app" :> "web" @@ "tier" :> "a"}

\* And what selectors are evaluated on: with the labels Calico adds.
MCLabellings == UNION {{l, WorkloadLabels(l), NamespaceLabels(l)} : l \in MCLabelSets}

-----------------------------------------------------------------------------
(* Policies. *)

AppIsApi == <<Word("app"), Symbol("Eq"), Quoted("api")>>
HasTier  == <<Call("has"), Word("tier"), Symbol("RParen")>>
InNs(k)  == <<Word(k), Symbol("Eq"), Quoted("ns")>>

Global(text, nsText) ==
    [kind |-> "CalicoGlobalNetworkPolicy",
     spec |-> [selector |-> text, namespaceSelector |-> nsText, types |-> {}, rules |-> {"egress"}]]

Of(key, value) == [matchLabels |-> key :> value, matchExpressions |-> {}]
By(key, operator, values) ==
    [matchLabels |-> <<>>,
     matchExpressions |-> {[key |-> key, operator |-> operator, values |-> values]}]

Rule(selector, sections) == [endpointSelector |-> selector, sections |-> sections]

Policies ==
    {[kind |-> "PodDisruptionBudget", namespace |-> Home,
      spec |-> [selector |-> By("app", "NotIn", {"web"})]],
     [kind |-> "NetworkPolicy", namespace |-> Home,
      spec |-> [podSelector |-> Everything, types |-> {}, rules |-> {"egress"}]],
     [kind |-> "NetworkPolicy", namespace |-> "other",
      spec |-> [podSelector |-> Everything, types |-> {"egress"}, rules |-> {}]],
     [kind |-> "CiliumNetworkPolicy", namespace |-> Home,
      rules |-> {Rule(Of("app", "api"), {"ingressDeny"}), Rule(Of("app", "web"), {"egress"})}],
     [kind |-> "CiliumClusterwideNetworkPolicy",
      rules |-> {Rule(By("app", "In", {}), {"ingress"}), Rule(Absent, {})}],
     [kind |-> "CalicoNetworkPolicy", namespace |-> Home,
      spec |-> [selector |-> InNs("projectcalico.org/namespace"), types |-> {"egress"}, rules |-> {}]],
     Global(AppIsApi, <<Symbol("Not")>> \o HasTier),
     Global(<<>>, InNs("projectcalico.org/name")),
     Global(HasTier, <<>>)}

-----------------------------------------------------------------------------
(* Services, slices, routes and constraints. *)

Slice(name, service, pods) ==
    [kind |-> "EndpointSlice", namespace |-> Home, name |-> name, service |-> service,
     targets |-> pods]

\* A dual-stack Service has two slices of the same Pods.
Slices == {Slice("v4", "svc", {"it"}), Slice("v6", "svc", {"it", "pod2"}),
           Slice("stray", "", {"it"}), Slice("others", "svc2", {"pod2"})}

Service(name, type, selector) ==
    [kind |-> "Service", namespace |-> Home, name |-> name, type |-> type, selector |-> selector]

Services == {Service("svc", "ClusterIP", "app" :> "api"), Service("svc2", "ClusterIP", <<>>)}
MoreServices == {Service("alias", "ExternalName", "app" :> "api"),
                 Service("none", "ClusterIP", "zone" :> "")}

Scaler(kind, target) ==
    [kind |-> kind, namespace |-> Home, target |-> [kind |-> "Workload", name |-> target]]

Scalers == {Scaler("HorizontalPodAutoscaler", "it"), Scaler("VerticalPodAutoscaler", "it2")}

Ingress(backends) == [kind |-> "Ingress", namespace |-> Home, backends |-> backends]
Ref(name, kind, group, namespace) ==
    [name |-> name, kind |-> kind, group |-> group, namespace |-> namespace]
Route(kind, refs) == [kind |-> kind, namespace |-> Home, backendRefs |-> refs]

Routes ==
    {Ingress(<<"svc2", "it">>), Ingress(<<"it", Absent>>), Ingress(<<Absent>>),
     Slice("own", "it", {}), Slice("others", "svc2", {"pod2"}),
     Route("HTTPRoute", {Ref("it", "", "", ""), Ref("it", "Service", "", "other")}),
     Route("GRPCRoute", {Ref("it", "Service", "", "other"), Ref("it", "ServiceImport", "mcs", "")}),
     Route("TLSRoute", {Ref("svc2", "", "", ""), Ref("it", "Service", "", "ns")})}

Template(name, kind) == [kind |-> "ConstraintTemplate", name |-> name, declares |-> kind]
Constraint(kind, scope, namespaces, excluded, selector) ==
    [kind |-> kind, scope |-> scope, namespaces |-> namespaces, excludedNamespaces |-> excluded,
     namespaceSelector |-> selector]

Constraints ==
    {Template("a", "RequiredLabels"), Template("b", "RequiredLabels"), Template("c", "AllowedRepos"),
     Template("d", ""),
     Constraint("RequiredLabels", "", {}, {}, By("app", "Exists", {})),
     Constraint("RequiredLabels", "Cluster", {"ns"}, {}, Absent),
     Constraint("AllowedRepos", "Namespaced", {"ns", "other"}, {"other"}, Absent),
     Constraint("AllowedRepos", "", {}, {"ns"}, Absent)}

MCObjects == Policies \cup Slices \cup Services \cup MoreServices \cup Scalers \cup Routes
                \cup Constraints

-----------------------------------------------------------------------------
(* Clusters. *)

Cluster(of, ls, around, changes) ==
    [page |-> of, labels |-> ls, nsLabels |-> <<>>, objects |-> around, budget |-> changes]

Api == "app" :> "api"

MCClusters ==
    {Cluster("Pod", Api, Policies, 2),
     Cluster("Pod", Api, Slices \cup Services, 3),
     Cluster("Workload", Api, Policies \cup Services \cup MoreServices \cup Scalers, 1),
     Cluster("Workload", <<>>, Services \cup Scalers, 2),
     Cluster("Service", <<>>, Routes \ {Ingress(<<Absent>>)}, 2),
     Cluster("ExternalName", <<>>, Routes \ {Ingress(<<"it", Absent>>), Ingress(<<Absent>>)}, 2),
     Cluster("Namespace", <<>>, Constraints, 3)}
=============================================================================
