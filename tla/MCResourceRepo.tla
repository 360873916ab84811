----------------------------- MODULE MCResourceRepo ----------------------------
(***************************************************************************)
(* Four commands, each about one part of the repository: metrics of pods   *)
(* in two namespaces, owners of two dependents, queries, partial names.    *)
(***************************************************************************)
EXTENDS ResourceRepo

Type(kind, version, group, namespaced) ==
    [kind |-> kind, version |-> version, group |-> group, namespaced |-> namespaced]
PodMetricsType == Type("PodMetrics", "v1beta1", "metrics.k8s.io", TRUE)
ReplicaSet     == Type("ReplicaSet", "v1", "apps", TRUE)
Node           == Type("Node", "v1", "", FALSE)
MCTypes        == {PodMetricsType, ReplicaSet, Node}

Id(type, ns, name) == [type |-> type, ns |-> ns, name |-> name]
m1 == Id(PodMetricsType, "a", "web")
m2 == Id(PodMetricsType, "a", "web-2")
m3 == Id(PodMetricsType, "b", "web")
r1 == Id(ReplicaSet, "a", "web")
r2 == Id(ReplicaSet, "a", "web-2")
r3 == Id(ReplicaSet, "b", "web")
n1 == Id(Node, "", "web")
MCIds == {m1, m2, m3, r1, r2, r3, n1}

MCSubstring == {<<"web", "web">>, <<"web", "web-2">>, <<"web-2", "web-2">>}

Ref(ns, parsed, kind, version, group) ==
    [ns |-> ns, parsed |-> parsed, kind |-> kind, version |-> version, group |-> group,
     name |-> "web", uid |-> 0]
ownedByRS      == Ref("a", TRUE, "ReplicaSet", "v1", "apps")
ownedByNode    == Ref("a", TRUE, "Node", "v1", "")
groupless      == Ref("b", TRUE, "ReplicaSet", "v1beta2", "")
groupAsVersion == Ref("b", TRUE, "ReplicaSet", "apps", "")
unparsed       == Ref("a", FALSE, "ReplicaSet", "", "")
unserved       == Ref("a", TRUE, "Widget", "v1", "example.com")
MCReferences   == {ownedByRS, ownedByNode, groupless, groupAsVersion, unparsed, unserved}

Born(uid, S) == [id \in MCIds |-> IF id \in S THEN [exists |-> TRUE, uid |-> uid, rv |-> 1]
                                  ELSE Gone]

Command(state, args, exact, moving, pods, dependents, queries) ==
    [state |-> state, args |-> args, exact |-> exact, moving |-> moving, pods |-> pods,
     dependents |-> dependents, queries |-> queries]

\* uid 0: the owner the references mean; uid 1: one created anew before the
\* command began.
MCStarts ==
    {Command(Born(0, S), <<>>, FALSE, {m1, m2, m3}, {m1, m2, m3}, {}, {}) :
        S \in {{}, {m1, m3}}}
    \cup
    {Command(Born(u, S), <<"web">>, TRUE, {r1, r3, n1}, {},
             {<<ownedByRS, ownedByNode>>, <<unparsed>>, <<groupless, unserved, groupAsVersion>>}, {}) :
        S \in {{}, {r1, n1, r3}}, u \in 0..1}
    \cup
    {Command(Born(0, {r1}), <<>>, FALSE, {r1, r2, r3}, {}, {}, Q) :
        Q \in {{Objects(ReplicaSet, "a", {}), Objects(ReplicaSet, "b", {})},
               {Objects(ReplicaSet, "a", {"web", "web-2"})},
               {EndpointSlices(ReplicaSet, "a"), DynamicObject(ReplicaSet, "b", "web")},
               {Ingresses(ReplicaSet, "a")}}}
    \cup
    {Command(Born(0, {n1}), <<>>, FALSE, {n1}, {}, {}, Q) :
        Q \in {{KubeGetNodeStatsSummary(Node, "web"), KubeGetNodeHealthz(Node, "web")},
               {KubeGetNodeConfigz(Node, "web"), MetricsUnavailableReason(Node, "web")}}}
    \cup
    {Command(Born(0, S), args, FALSE, {r1, r2}, {}, {}, {}) :
        S \in SUBSET {r1, r2}, args \in {<<"web">>, <<"web-2", "web">>}}

=============================================================================
