------------------------------- MODULE Neighbours -------------------------------
(***************************************************************************)
(* The page of an object asks, one request after the other, for the        *)
(* objects around it: the Services, disruption budgets and policies of a   *)
(* Pod; those and the autoscalers of a workload; the endpoint slices,      *)
(* ingresses and routes of a Service; the Gatekeeper constraints of a      *)
(* Namespace (KubeGet*Matching* and KubeGet*ForService, with               *)
(* network_policy.go).  Some answers call for more requests.  Meanwhile    *)
(* objects come and go, labels change, and requests fail.                  *)
(***************************************************************************)
EXTENDS Naturals, Sequences

CONSTANTS
    It,                     \* the name of the object whose page it is, a Namespace's apart
    Home,                   \* its namespace, or the Namespace itself
    Objects,                \* the objects that may be created
    LabelSets,              \* the labels that an object or a Namespace may have
    Clusters,               \* what the cluster may be at first, and its budget
    SelectorSelects(_, _),  \* Calico's selectors: does the text select the labels?
    Absent                  \* a field that is not there

VARIABLES
    page,           \* what the page is of: one of Pages
    labels,         \* the labels of a Pod, or of the Pods of a workload
    nsLabels,       \* the labels of the Namespace
    objects,        \* the other objects of the cluster
    budget,         \* bound on the changes and failures to come
    step,           \* the next of the page's own requests, 0 before it begins
    more,           \* the requests that answers called for, still to be made
    pageLabels,     \* the labels as the page read them
    globals,        \* the GlobalNetworkPolicies listed, before they are matched
    named,          \* [by, object]: the objects the page names, and the requests
    failed,         \* history: the requests of the page that failed
    broken,         \* the page is an error
    ever, always,   \* history: the objects there at some time, and all the time,
    everNs          \* since the page began, and its Namespace's labels

cluster_vars == <<page, labels, nsLabels, objects>>
page_vars    == <<step, more, pageLabels, globals, named, failed, broken>>
history_vars == <<ever, always, everNs>>
vars == <<page, labels, nsLabels, objects, budget, step, more, pageLabels, globals, named,
          failed, broken, ever, always, everNs>>

RouteKinds == {"HTTPRoute", "GRPCRoute", "TCPRoute", "UDPRoute", "TLSRoute"}
CiliumKinds == {"CiliumNetworkPolicy", "CiliumClusterwideNetworkPolicy"}
CalicoKinds == {"CalicoNetworkPolicy", "CalicoGlobalNetworkPolicy"}
PolicyKinds == {"PodDisruptionBudget", "NetworkPolicy"} \cup CiliumKinds \cup CalicoKinds
Autoscalers == {"HorizontalPodAutoscaler", "VerticalPodAutoscaler"}
Namespaced ==
    {"EndpointSlice", "Service", "Ingress", "PodDisruptionBudget", "NetworkPolicy",
     "CiliumNetworkPolicy", "CalicoNetworkPolicy"} \cup RouteKinds \cup Autoscalers

\* A Service of type ExternalName has a page of its own.
Pages == {"Pod", "Workload", "Service", "ExternalName", "Namespace"}

\* The kinds that no ConstraintTemplate declares.
OtherKinds ==
    Namespaced \cup PolicyKinds \cup {"Namespace", "ConstraintTemplate"}

\* What a page asks for by itself, in this order; a workload whose Pods have no
\* labels has none that labels select.
OwnRequests(p, l) ==
    CASE p = "Pod" ->
            <<"EndpointSlice", "PodDisruptionBudget", "NetworkPolicy", "CiliumNetworkPolicy",
              "CiliumClusterwideNetworkPolicy", "CalicoNetworkPolicy",
              "CalicoGlobalNetworkPolicy">>
      [] p = "Workload" /\ DOMAIN l # {} ->
            <<"Service", "PodDisruptionBudget", "NetworkPolicy", "CiliumNetworkPolicy",
              "CiliumClusterwideNetworkPolicy", "CalicoNetworkPolicy",
              "CalicoGlobalNetworkPolicy", "HorizontalPodAutoscaler", "VerticalPodAutoscaler">>
      [] p = "Workload" /\ DOMAIN l = {} ->
            <<"HorizontalPodAutoscaler", "VerticalPodAutoscaler">>
      [] p = "Service" ->
            <<"EndpointSlice", "Ingress", "HTTPRoute", "GRPCRoute", "TCPRoute", "UDPRoute",
              "TLSRoute">>
      [] p = "ExternalName" ->
            <<"Ingress", "HTTPRoute", "GRPCRoute", "TCPRoute", "UDPRoute", "TLSRoute">>
      [] p = "Namespace" -> <<"ConstraintTemplate">>

ASSUME NeighboursAssumption ==
    /\ \A c \in Clusters : /\ c.page \in Pages
                           /\ c.labels \in LabelSets /\ c.nsLabels \in LabelSets
                           /\ c.objects \subseteq Objects
                           /\ c.budget \in Nat
    /\ \A o \in Objects : /\ o.kind # ""
                          /\ (o.kind = "Service") => o.name # ""
                          /\ (o.kind = "ConstraintTemplate") => o.declares \notin OtherKinds

Directions == {"ingress", "egress"}

-----------------------------------------------------------------------------
(* Kubernetes label selectors. *)

Everything == [matchLabels |-> <<>>, matchExpressions |-> {}]

\* An expression with values where there must be none, or without, is an error.
LabelSelectorAsSelector(ls) ==
    \A e \in ls.matchExpressions : e.operator \in {"In", "NotIn"} <=> e.values # {}

Matches(ls, l) ==
    /\ \A k \in DOMAIN ls.matchLabels : k \in DOMAIN l /\ l[k] = ls.matchLabels[k]
    /\ \A e \in ls.matchExpressions :
        LET exists == e.key \in DOMAIN l
        IN  CASE e.operator = "In"           -> exists /\ l[e.key] \in e.values
              [] e.operator = "NotIn"        -> exists => l[e.key] \notin e.values
              [] e.operator = "Exists"       -> exists
              [] e.operator = "DoesNotExist" -> ~exists

selectorSelects(selector, l) ==
    LET ls == IF selector = Absent THEN Everything ELSE selector
    IN  LabelSelectorAsSelector(ls) /\ Matches(ls, l)

-----------------------------------------------------------------------------
(* Which policies select the Pod, and which traffic they restrict. *)

networkPolicySelectsPod(spec, l) == selectorSelects(spec.podSelector, l)

pdbMatches(spec, l) == spec.selector # Absent /\ selectorSelects(spec.selector, l)

\* types as written, or by default.
policyTypesWithDefault(spec) ==
    IF spec.types # {} THEN spec.types
    ELSE {"ingress"} \cup (IF "egress" \in spec.rules THEN {"egress"} ELSE {})

ciliumMatchingRules(rules, l) == {r \in rules : selectorSelects(r.endpointSelector, l)}

DirectionsOfRules(rules) ==
    {d \in Directions :
        \E r \in rules : r.sections \cap (IF d = "ingress" THEN {"ingress", "ingressDeny"}
                                          ELSE {"egress", "egressDeny"}) # {}}

\* Mutation: the directions of all the rules, whether they match or not.
DirectionsOfAllRules(rules, l) == DirectionsOfRules(rules)

ciliumDirections(rules, l) == DirectionsOfRules(ciliumMatchingRules(rules, l))

WithLabel(l, key, value) ==
    [k \in DOMAIN l \cup {key} |-> IF k = key THEN value ELSE l[k]]

\* Mutation: the Pod's bare labels.
BareLabels(l) == l

withCalicoNamespaceLabel(l) == WithLabel(l, "projectcalico.org/namespace", Home)

calicoPolicySelectsPod(spec, l) ==
    SelectorSelects(spec.selector, withCalicoNamespaceLabel(l))

calicoNamespaceSelectorMatches(spec, l) ==
    \/ spec.namespaceSelector = <<>>
    \/ SelectorSelects(spec.namespaceSelector, WithLabel(l, "projectcalico.org/name", Home))

policyMatches(o, l) ==
    CASE o.kind = "PodDisruptionBudget" -> pdbMatches(o.spec, l)
      [] o.kind = "NetworkPolicy" -> networkPolicySelectsPod(o.spec, l)
      [] o.kind \in CiliumKinds -> ciliumMatchingRules(o.rules, l) # {}
      [] o.kind = "CalicoNetworkPolicy" -> o.spec # Absent /\ calicoPolicySelectsPod(o.spec, l)
      [] OTHER -> FALSE

directionsOf(o, l) ==
    CASE o.kind \in CiliumKinds -> ciliumDirections(o.rules, l)
      [] o.kind \in {"NetworkPolicy"} \cup CalicoKinds -> policyTypesWithDefault(o.spec)
      [] OTHER -> {}

-----------------------------------------------------------------------------
(* Services, what routes to them, autoscalers, and Gatekeeper. *)

\* A label that is absent reads as an empty value here.
isSubset(selector, l) ==
    /\ DOMAIN selector # {}
    /\ \A k \in DOMAIN selector : selector[k] = (IF k \in DOMAIN l THEN l[k] ELSE "")

doesServiceMatchLabels(svc, l) == svc.type # "ExternalName" /\ isSubset(svc.selector, l)

\* The backends are looked at in order until one is the Service.
doesIngressUseService(ing) == \E i \in DOMAIN ing.backends : ing.backends[i] = It

\* A backend that is no Service is dereferenced all the same.
DereferencesNothing(ing) ==
    \E i \in DOMAIN ing.backends : /\ ing.backends[i] = Absent
                                   /\ \A j \in 1..(i - 1) : ing.backends[j] # It

\* An absent kind, group or namespace is the empty one.
doesRouteUseService(route) ==
    \E ref \in route.backendRefs :
        /\ ref.name = It
        /\ ref.kind \in {"", "Service"}
        /\ ref.group = ""
        /\ ref.namespace \in {"", Home}

\* The group of the target is not compared.
Targets(autoscaler) ==
    /\ autoscaler.target.kind = "Workload"
    /\ autoscaler.target.name = It

gatekeeperConstraintMatchesNamespace(c, l) ==
    /\ c.scope # "Cluster"
    /\ c.namespaces # {} => Home \in c.namespaces
    /\ Home \notin c.excludedNamespaces
    /\ c.namespaceSelector # Absent => selectorSelects(c.namespaceSelector, l)

-----------------------------------------------------------------------------
(* Requests, what they are answered, and what the page makes of an answer. *)

\* A list of a kind; a get also has a name, and says of what it is made.
Listing(kind) == [kind |-> kind, name |-> "", of |-> Absent]
ServiceOf(slice) == [kind |-> "Service", name |-> slice.service, of |-> slice]
TheNamespace == [kind |-> "Namespace", name |-> Home, of |-> Absent]

InReach(o) == o.kind \in Namespaced => o.namespace = Home

\* Mutation: without the API group, Calico's kind of the same name is meant, too.
SuitsWithoutGroup(o, rq) ==
    /\ o.kind = rq.kind \/ (rq.kind = "NetworkPolicy" /\ o.kind = "CalicoNetworkPolicy")
    /\ InReach(o)
    /\ rq.name # "" => o.name = rq.name

\* The objects of one kind, of the namespace or of the cluster; or the one asked for.
Suits(o, rq) ==
    /\ o.kind = rq.kind
    /\ InReach(o)
    /\ rq.name # "" => o.name = rq.name

Answer(rq) == {o \in objects : Suits(o, rq)}

SliceOfPod(slice) == It \in slice.targets /\ slice.service # ""

\* Is an object of an answer named?
Picks(o) ==
    CASE page = "Pod" -> o.kind = "Service" \/ policyMatches(o, pageLabels)
      [] page = "Workload" ->
            \/ o.kind = "Service" /\ doesServiceMatchLabels(o, pageLabels)
            \/ o.kind \in Autoscalers /\ Targets(o)
            \/ policyMatches(o, pageLabels)
      [] page \in {"Service", "ExternalName"} ->
            \/ o.kind = "EndpointSlice" /\ o.service = It
            \/ o.kind = "Ingress" /\ doesIngressUseService(o)
            \/ o.kind \in RouteKinds /\ doesRouteUseService(o)
      [] page = "Namespace" ->
            /\ o.kind # "ConstraintTemplate"
            /\ gatekeeperConstraintMatchesNamespace(o, pageLabels)

\* The requests that an answer calls for: a Service for every slice, even if two
\* are of the same; each kind of constraints once.
CalledFor(os) ==
    CASE page = "Pod" ->
            {ServiceOf(s) : s \in {o \in os : o.kind = "EndpointSlice" /\ SliceOfPod(o)}}
      [] page = "Namespace" ->
            {Listing(t.declares) :
                t \in {o \in os : o.kind = "ConstraintTemplate" /\ o.declares # ""}}
      [] OTHER -> {}

\* A GlobalNetworkPolicy against the Pod and its Namespace's labels.
GlobalMatches(o, l) ==
    /\ o.spec # Absent
    /\ calicoPolicySelectsPod(o.spec, pageLabels)
    /\ calicoNamespaceSelectorMatches(o.spec, l)

-----------------------------------------------------------------------------
(* The page. *)

Init ==
    /\ \E c \in Clusters : /\ page = c.page
                           /\ labels = c.labels
                           /\ nsLabels = c.nsLabels
                           /\ objects = c.objects
                           /\ budget = c.budget
    /\ step = 0
    /\ more = {}
    /\ pageLabels = <<>>
    /\ globals = {}
    /\ named = {}
    /\ failed = {}
    /\ broken = FALSE
    /\ ever = {} /\ always = {} /\ everNs = {}

Begun == step > 0 /\ ~broken
Done  == Begun /\ more = {} /\ step > Len(OwnRequests(page, pageLabels))

\* The object is read, and its page begins.
Begin ==
    /\ step = 0
    /\ pageLabels' = IF page = "Namespace" THEN nsLabels ELSE labels
    /\ step' = 1
    /\ ever' = objects /\ always' = objects /\ everNs' = {nsLabels}
    /\ UNCHANGED <<cluster_vars, budget, more, globals, named, failed, broken>>

\* The requests that are due: what an answer called for, before the page's own.
Due ==
    IF more # {} THEN more
    ELSE {Listing(OwnRequests(page, pageLabels)[i]) :
            i \in DOMAIN OwnRequests(page, pageLabels) \cap {step}}

IsDue(rq) == Begun /\ rq \in Due

Made(rq) == step' = IF rq \in more THEN step ELSE step + 1

\* The answer of a request: what matches is named, and what it calls for is due.
Names(rq) ==
    /\ IsDue(rq)
    /\ rq.kind \notin {"Namespace", "CalicoGlobalNetworkPolicy"}
    /\ \A o \in Answer(rq) : o.kind = "Ingress" => ~DereferencesNothing(o)
    /\ named' = named \cup {[by |-> rq, object |-> o] : o \in {x \in Answer(rq) : Picks(x)}}
    /\ more' = (more \ {rq}) \cup CalledFor(Answer(rq))
    /\ Made(rq)
    /\ UNCHANGED <<cluster_vars, budget, pageLabels, globals, failed, broken, history_vars>>

\* The ingresses: one that has a backend without a Service ends the page in an
\* error.
IngressPanics(rq) ==
    /\ IsDue(rq)
    /\ \E o \in Answer(rq) : o.kind = "Ingress" /\ DereferencesNothing(o)
    /\ broken' = TRUE
    /\ UNCHANGED <<cluster_vars, budget, step, more, pageLabels, globals, named, failed,
                   history_vars>>

\* The GlobalNetworkPolicies: the Namespace is asked for only if there is one.
ListGlobals(rq) ==
    /\ IsDue(rq)
    /\ rq = Listing("CalicoGlobalNetworkPolicy")
    /\ globals' = Answer(rq)
    /\ more' = (more \ {rq}) \cup {r \in {TheNamespace} : globals' # {}}
    /\ Made(rq)
    /\ UNCHANGED <<cluster_vars, budget, pageLabels, named, failed, broken, history_vars>>

\* Every listed GlobalNetworkPolicy against the Pod and the Namespace's labels.
MatchGlobals(rq, l) ==
    /\ IsDue(rq)
    /\ rq = TheNamespace
    /\ named' = named \cup {[by |-> rq, object |-> o] : o \in {g \in globals : GlobalMatches(g, l)}}
    /\ more' = more \ {rq}
    /\ Made(rq)

GetNamespace(rq) ==
    /\ MatchGlobals(rq, nsLabels)
    /\ UNCHANGED <<cluster_vars, budget, pageLabels, globals, failed, broken, history_vars>>

\* A list that fails is an empty one; so is a Service that cannot be had; a
\* Namespace that cannot be had has no labels.
RequestFails(rq) ==
    /\ budget > 0
    /\ budget' = budget - 1
    /\ \/ /\ IsDue(rq)
          /\ rq # TheNamespace
          /\ more' = more \ {rq}
          /\ Made(rq)
          /\ UNCHANGED named
       \/ MatchGlobals(rq, <<>>)
    /\ failed' = failed \cup {rq}
    /\ UNCHANGED <<cluster_vars, pageLabels, globals, broken, history_vars>>

-----------------------------------------------------------------------------
(* The cluster. *)

Changes == budget > 0 /\ budget' = budget - 1 /\ UNCHANGED page_vars

\* The kinds that a page is about; the others make no difference to it.
Concerns(p) ==
    CASE p = "Pod" -> {"EndpointSlice", "Service"} \cup PolicyKinds
      [] p = "Workload" -> {"Service"} \cup PolicyKinds \cup Autoscalers
      [] p = "Service" -> {"EndpointSlice", "Ingress"} \cup RouteKinds
      [] p = "ExternalName" -> {"Ingress"} \cup RouteKinds
      [] p = "Namespace" -> {o.kind : o \in Objects} \ (Namespaced \cup PolicyKinds)

Create ==
    /\ Changes
    /\ \E o \in Objects \ objects : /\ o.kind \in Concerns(page)
                                    /\ objects' = objects \cup {o}
                                    /\ ever' = ever \cup {o}
    /\ UNCHANGED <<page, labels, nsLabels, always, everNs>>

Delete ==
    /\ Changes
    /\ \E o \in objects : objects' = objects \ {o} /\ always' = always \ {o}
    /\ UNCHANGED <<page, labels, nsLabels, ever, everNs>>

Relabel ==
    /\ Changes
    /\ labels' \in LabelSets
    /\ UNCHANGED <<page, nsLabels, objects, history_vars>>

RelabelNamespace ==
    /\ Changes
    /\ nsLabels' \in LabelSets
    /\ everNs' = everNs \cup {nsLabels'}
    /\ UNCHANGED <<page, labels, objects, ever, always>>

Asks == \E rq \in Due : \/ Names(rq) \/ IngressPanics(rq) \/ ListGlobals(rq)
                        \/ GetNamespace(rq) \/ RequestFails(rq)

Next == Begin \/ Asks \/ Create \/ Delete \/ Relabel \/ RelabelNamespace

Spec == Init /\ [][Next]_vars

-----------------------------------------------------------------------------
(* Properties. *)

\* The page's own state is well formed, and what a request found is of the kind
\* that was asked for, though the names of two kinds may differ in the API group
\* alone (template_functions_dynamic.go:479-489).
TypeOKNeighbours ==
    /\ page \in Pages
    /\ labels \in LabelSets /\ nsLabels \in LabelSets
    /\ pageLabels \in LabelSets \cup {<<>>}
    /\ budget \in Nat
    /\ step \in 0..(Len(OwnRequests(page, pageLabels)) + 1)
    /\ objects \subseteq Objects /\ ever \subseteq Objects /\ globals \subseteq ever
    /\ always \subseteq ever \cap objects
    /\ (step = 0) => named = {} /\ globals = {} /\ more = {} /\ failed = {}
    /\ (step > 0) => objects \subseteq ever /\ nsLabels \in everNs
    /\ \A g \in globals : g.kind = "CalicoGlobalNetworkPolicy"
    /\ \A e \in named : /\ e.object \in ever
                        /\ \/ e.object.kind = e.by.kind
                           \/ /\ e.object.kind = "CalicoGlobalNetworkPolicy"
                              /\ e.by = TheNamespace

\* Calico's labels of a workload and of a namespace.
WorkloadLabels(l)  == WithLabel(l, "projectcalico.org/namespace", Home)
NamespaceLabels(l) == WithLabel(l, "projectcalico.org/name", Home)

\* What a policy says of the page's Pods in a Namespace with these labels.
AppliesTo(p, n) ==
    CASE p.kind = "PodDisruptionBudget" ->
            p.spec.selector # Absent /\ selectorSelects(p.spec.selector, pageLabels)
      [] p.kind = "NetworkPolicy" -> selectorSelects(p.spec.podSelector, pageLabels)
      [] p.kind \in CalicoKinds ->
            /\ p.spec # Absent
            /\ SelectorSelects(p.spec.selector, WorkloadLabels(pageLabels))
            /\ p.kind = "CalicoGlobalNetworkPolicy" =>
                    \/ p.spec.namespaceSelector = <<>>
                    \/ SelectorSelects(p.spec.namespaceSelector, NamespaceLabels(n))
      [] OTHER -> \E r \in p.rules : selectorSelects(r.endpointSelector, pageLabels)

\* What a Service's selector says of the Pods of a workload.
SelectsPods(svc) ==
    /\ svc.type # "ExternalName"
    /\ DOMAIN svc.selector # {}
    /\ \A k \in DOMAIN svc.selector : k \in DOMAIN pageLabels /\ svc.selector[k] = pageLabels[k]

RoutesTo(route) ==
    \E ref \in route.backendRefs : /\ <<ref.name, ref.group>> = <<It, "">>
                                   /\ ref.kind = "Service" \/ ref.kind = ""
                                   /\ ref.namespace = Home \/ ref.namespace = ""

\* The page is of Pods; of those of a workload only if they have labels.
OfPods == page = "Pod" \/ (page = "Workload" /\ DOMAIN pageLabels # {})

OfService == page \in {"Service", "ExternalName"}

\* What an object says by itself of the page's.
Concerned(o, n) ==
    \/ o.kind \in PolicyKinds /\ OfPods /\ AppliesTo(o, n)
    \/ o.kind = "Service" /\ page = "Workload" /\ SelectsPods(o)
    \/ /\ o.kind \in Autoscalers /\ page = "Workload"
       /\ o.target.kind = "Workload" /\ o.target.name = It
    \/ o.kind = "EndpointSlice" /\ page = "Service" /\ o.service = It
    \/ o.kind = "Ingress" /\ OfService /\ \E i \in DOMAIN o.backends : o.backends[i] = It
    \/ o.kind \in RouteKinds /\ OfService /\ RoutesTo(o)

\* An object is a neighbour by the word of another, or by its own: a Service is
\* the Pod's by a slice that has the Pod, a constraint the Namespace's by the
\* template that declares its kind.
NeighbourBy(s, o, n) ==
    CASE page = "Pod" /\ o.kind = "Service" ->
            /\ s.kind = "EndpointSlice" /\ InReach(s)
            /\ It \in s.targets /\ s.service = o.name
      [] page = "Namespace" ->
            /\ s.kind = "ConstraintTemplate" /\ s.declares = o.kind
            /\ gatekeeperConstraintMatchesNamespace(o, pageLabels)
      [] OTHER -> s = o /\ Concerned(o, n)

\* The requests that find an object by the word of another.
Via(s, o) ==
    {Listing(s.kind),
     IF page = "Pod" /\ o.kind = "Service" THEN ServiceOf(s) ELSE Listing(o.kind)}

\* Without the Namespace nothing is known of who selects by it.
Known(o) ==
    TheNamespace \in failed /\ o.kind = "CalicoGlobalNetworkPolicy" =>
        o.spec = Absent \/ o.spec.namespaceSelector = <<>>

\* isSubset takes a label that is absent for one with an empty value.
SelectsAbsence(o) ==
    /\ page = "Workload" /\ o.kind = "Service"
    /\ \E k \in DOMAIN o.selector : o.selector[k] = "" /\ k \notin DOMAIN pageLabels

Sometime(o) == /\ o \in ever /\ InReach(o)
               /\ \E s \in ever : \E n \in everNs : NeighbourBy(s, o, n)

AllTheTime(o) == /\ o \in always /\ InReach(o)
                 /\ \E s \in always : /\ \A n \in everNs : NeighbourBy(s, o, n)
                                      /\ failed \cap Via(s, o) = {}

\* The page names no object that was not a neighbour at some moment while it was
\* made, and leaves out none that was all the time and could be found by
\* requests that did not fail, whatever else changes or fails meanwhile
\* (template_functions_dynamic.go:134-356, 371-543).
PageWithinWindow ==
    Done => /\ \A e \in named : Known(e.object) /\ ~SelectsAbsence(e.object) => Sometime(e.object)
            /\ \A o \in always : Known(o) /\ AllTheTime(o) => \E e \in named : e.object = o

\* The sections of a rule that restrict traffic in a direction.
Restricting(d) == IF d = "ingress" THEN {"ingress", "ingressDeny"} ELSE {"egress", "egressDeny"}

\* A policy that applies restricts a direction it is declared for, or, if it is
\* declared for none, that of its rules and ingress; a rule of Cilium restricts
\* the directions it has a section for, of the Pods it selects itself.
Restricts(p, d) ==
    CASE p.kind \in CiliumKinds ->
            \E r \in p.rules : /\ selectorSelects(r.endpointSelector, pageLabels)
                               /\ r.sections \cap Restricting(d) # {}
      [] p.kind \in {"NetworkPolicy"} \cup CalicoKinds ->
            \/ d \in p.spec.types
            \/ p.spec.types = {} /\ (d = "ingress" \/ d \in p.spec.rules)
      [] OTHER -> FALSE

\* What the summary says of a kind of policy and a direction.
ShownToRestrict(k, d) ==
    \E e \in named : e.object.kind = k /\ d \in directionsOf(e.object, pageLabels)

\* The page says that a kind of policy restricts a direction only if one of them
\* did meanwhile, and always if one did all the time (network_policy.go:86-122,
\* 214-247; the summaries of workloads_common.tmpl).
DirectionsWithinWindow ==
    Done /\ OfPods => \A k \in PolicyKinds : \A d \in Directions :
        /\ ShownToRestrict(k, d) =>
                \E p \in ever : p.kind = k /\ Restricts(p, d) /\ (Known(p) => Sometime(p))
        /\ (\E p \in always : p.kind = k /\ Restricts(p, d) /\ Known(p) /\ AllTheTime(p)) =>
                ShownToRestrict(k, d)
=============================================================================
