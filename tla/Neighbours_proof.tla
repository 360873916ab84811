---------------------------- MODULE Neighbours_proof ----------------------------
(***************************************************************************)
(* What Neighbours promises, for all objects and any selector language:    *)
(* its type invariant, and that a page names what was a neighbour at some  *)
(* moment and all that was one throughout.                                 *)
(***************************************************************************)
EXTENDS Neighbours, TLAPS

-----------------------------------------------------------------------------
(* The page's own requests. *)

\* A page's own requests are numbered from one.
LEMMA OwnRequestsShape ==
    ASSUME NEW p \in Pages, NEW l
    PROVE  /\ Len(OwnRequests(p, l)) \in Nat
           /\ DOMAIN OwnRequests(p, l) = 1..Len(OwnRequests(p, l))
<1>1. CASE p = "Pod"
  <2> DEFINE r == OwnRequests(p, l)
  <2>1. r = <<"EndpointSlice", "PodDisruptionBudget", "NetworkPolicy", "CiliumNetworkPolicy",
              "CiliumClusterwideNetworkPolicy", "CalicoNetworkPolicy",
              "CalicoGlobalNetworkPolicy">>
    BY <1>1 DEF OwnRequests
  <2> HIDE DEF r
  <2>2. Len(r) = 7 /\ DOMAIN r = 1..7
    BY <2>1
  <2> QED
    BY <2>2 DEF r
<1>2. CASE p = "Workload" /\ DOMAIN l # {}
  <2> DEFINE r == OwnRequests(p, l)
  <2>1. r = <<"Service", "PodDisruptionBudget", "NetworkPolicy", "CiliumNetworkPolicy",
              "CiliumClusterwideNetworkPolicy", "CalicoNetworkPolicy",
              "CalicoGlobalNetworkPolicy", "HorizontalPodAutoscaler", "VerticalPodAutoscaler">>
    BY <1>2 DEF OwnRequests
  <2> HIDE DEF r
  <2>2. Len(r) = 9 /\ DOMAIN r = 1..9
    BY <2>1
  <2> QED
    BY <2>2 DEF r
<1>3. CASE p = "Workload" /\ DOMAIN l = {}
  <2> DEFINE r == OwnRequests(p, l)
  <2>1. r = <<"HorizontalPodAutoscaler", "VerticalPodAutoscaler">>
    BY <1>3 DEF OwnRequests
  <2> HIDE DEF r
  <2>2. Len(r) = 2 /\ DOMAIN r = 1..2
    BY <2>1
  <2> QED
    BY <2>2 DEF r
<1>4. CASE p = "Service"
  <2> DEFINE r == OwnRequests(p, l)
  <2>1. r = <<"EndpointSlice", "Ingress", "HTTPRoute", "GRPCRoute", "TCPRoute", "UDPRoute",
              "TLSRoute">>
    BY <1>4 DEF OwnRequests
  <2> HIDE DEF r
  <2>2. Len(r) = 7 /\ DOMAIN r = 1..7
    BY <2>1
  <2> QED
    BY <2>2 DEF r
<1>5. CASE p = "Namespace"
  <2> DEFINE r == OwnRequests(p, l)
  <2>1. r = <<"ConstraintTemplate">>
    BY <1>5 DEF OwnRequests
  <2> HIDE DEF r
  <2>2. Len(r) = 1 /\ DOMAIN r = 1..1
    BY <2>1
  <2> QED
    BY <2>2 DEF r
<1>6. CASE p = "ExternalName"
  <2> DEFINE r == OwnRequests(p, l)
  <2>1. r = <<"Ingress", "HTTPRoute", "GRPCRoute", "TCPRoute", "UDPRoute", "TLSRoute">>
    BY <1>6 DEF OwnRequests
  <2> HIDE DEF r
  <2>2. Len(r) = 6 /\ DOMAIN r = 1..6
    BY <2>1
  <2> QED
    BY <2>2 DEF r
<1> QED
    BY <1>1, <1>2, <1>3, <1>4, <1>5, <1>6 DEF Pages

\* What a page asks for by itself.
OwnKinds(p, l) ==
    CASE p = "Pod" -> {"EndpointSlice"} \cup PolicyKinds
      [] p = "Workload" /\ DOMAIN l # {} -> {"Service"} \cup PolicyKinds \cup Autoscalers
      [] p = "Workload" /\ DOMAIN l = {} -> Autoscalers
      [] p = "Service" -> {"EndpointSlice", "Ingress"} \cup RouteKinds
      [] p = "ExternalName" -> {"Ingress"} \cup RouteKinds
      [] p = "Namespace" -> {"ConstraintTemplate"}

\* It asks for these kinds, and for all of them.
LEMMA OwnRequestsKinds ==
    ASSUME NEW p \in Pages, NEW l
    PROVE  {OwnRequests(p, l)[i] : i \in DOMAIN OwnRequests(p, l)} = OwnKinds(p, l)
<1>1. CASE p = "Pod"
  <2> DEFINE r == OwnRequests(p, l)
  <2>1. r = <<"EndpointSlice", "PodDisruptionBudget", "NetworkPolicy", "CiliumNetworkPolicy",
              "CiliumClusterwideNetworkPolicy", "CalicoNetworkPolicy",
              "CalicoGlobalNetworkPolicy">>
    BY <1>1 DEF OwnRequests
  <2>2. OwnKinds(p, l) = {"EndpointSlice", "PodDisruptionBudget", "NetworkPolicy", "CiliumNetworkPolicy",
              "CiliumClusterwideNetworkPolicy", "CalicoNetworkPolicy",
              "CalicoGlobalNetworkPolicy"}
    BY <1>1 DEF OwnKinds, PolicyKinds, CiliumKinds, CalicoKinds, Autoscalers, RouteKinds
  <2> HIDE DEF r
  <2>3. DOMAIN r = 1..7
    BY <2>1
  <2>4. {r[i] : i \in 1..7} = {"EndpointSlice", "PodDisruptionBudget", "NetworkPolicy", "CiliumNetworkPolicy",
              "CiliumClusterwideNetworkPolicy", "CalicoNetworkPolicy",
              "CalicoGlobalNetworkPolicy"}
    BY <2>1
  <2> QED
    BY <2>2, <2>3, <2>4 DEF r
<1>2. CASE p = "Workload" /\ DOMAIN l # {}
  <2> DEFINE r == OwnRequests(p, l)
  <2>1. r = <<"Service", "PodDisruptionBudget", "NetworkPolicy", "CiliumNetworkPolicy",
              "CiliumClusterwideNetworkPolicy", "CalicoNetworkPolicy",
              "CalicoGlobalNetworkPolicy", "HorizontalPodAutoscaler", "VerticalPodAutoscaler">>
    BY <1>2 DEF OwnRequests
  <2>2. OwnKinds(p, l) = {"Service", "PodDisruptionBudget", "NetworkPolicy", "CiliumNetworkPolicy",
              "CiliumClusterwideNetworkPolicy", "CalicoNetworkPolicy",
              "CalicoGlobalNetworkPolicy", "HorizontalPodAutoscaler", "VerticalPodAutoscaler"}
    BY <1>2 DEF OwnKinds, PolicyKinds, CiliumKinds, CalicoKinds, Autoscalers, RouteKinds
  <2> HIDE DEF r
  <2>3. DOMAIN r = 1..9
    BY <2>1
  <2>4. {r[i] : i \in 1..9} = {"Service", "PodDisruptionBudget", "NetworkPolicy", "CiliumNetworkPolicy",
              "CiliumClusterwideNetworkPolicy", "CalicoNetworkPolicy",
              "CalicoGlobalNetworkPolicy", "HorizontalPodAutoscaler", "VerticalPodAutoscaler"}
    BY <2>1
  <2> QED
    BY <2>2, <2>3, <2>4 DEF r
<1>3. CASE p = "Workload" /\ DOMAIN l = {}
  <2> DEFINE r == OwnRequests(p, l)
  <2>1. r = <<"HorizontalPodAutoscaler", "VerticalPodAutoscaler">>
    BY <1>3 DEF OwnRequests
  <2>2. OwnKinds(p, l) = {"HorizontalPodAutoscaler", "VerticalPodAutoscaler"}
    BY <1>3 DEF OwnKinds, PolicyKinds, CiliumKinds, CalicoKinds, Autoscalers, RouteKinds
  <2> HIDE DEF r
  <2>3. DOMAIN r = 1..2
    BY <2>1
  <2>4. {r[i] : i \in 1..2} = {"HorizontalPodAutoscaler", "VerticalPodAutoscaler"}
    BY <2>1
  <2> QED
    BY <2>2, <2>3, <2>4 DEF r
<1>4. CASE p = "Service"
  <2> DEFINE r == OwnRequests(p, l)
  <2>1. r = <<"EndpointSlice", "Ingress", "HTTPRoute", "GRPCRoute", "TCPRoute", "UDPRoute",
              "TLSRoute">>
    BY <1>4 DEF OwnRequests
  <2>2. OwnKinds(p, l) = {"EndpointSlice", "Ingress", "HTTPRoute", "GRPCRoute", "TCPRoute", "UDPRoute",
              "TLSRoute"}
    BY <1>4 DEF OwnKinds, PolicyKinds, CiliumKinds, CalicoKinds, Autoscalers, RouteKinds
  <2> HIDE DEF r
  <2>3. DOMAIN r = 1..7
    BY <2>1
  <2>4. {r[i] : i \in 1..7} = {"EndpointSlice", "Ingress", "HTTPRoute", "GRPCRoute", "TCPRoute", "UDPRoute",
              "TLSRoute"}
    BY <2>1
  <2> QED
    BY <2>2, <2>3, <2>4 DEF r
<1>5. CASE p = "Namespace"
  <2> DEFINE r == OwnRequests(p, l)
  <2>1. r = <<"ConstraintTemplate">>
    BY <1>5 DEF OwnRequests
  <2>2. OwnKinds(p, l) = {"ConstraintTemplate"}
    BY <1>5 DEF OwnKinds, PolicyKinds, CiliumKinds, CalicoKinds, Autoscalers, RouteKinds
  <2> HIDE DEF r
  <2>3. DOMAIN r = 1..1
    BY <2>1
  <2>4. {r[i] : i \in 1..1} = {"ConstraintTemplate"}
    BY <2>1
  <2> QED
    BY <2>2, <2>3, <2>4 DEF r
<1>6. CASE p = "ExternalName"
  <2> DEFINE r == OwnRequests(p, l)
  <2>1. r = <<"Ingress", "HTTPRoute", "GRPCRoute", "TCPRoute", "UDPRoute", "TLSRoute">>
    BY <1>6 DEF OwnRequests
  <2>2. OwnKinds(p, l) = {"Ingress", "HTTPRoute", "GRPCRoute", "TCPRoute", "UDPRoute", "TLSRoute"}
    BY <1>6 DEF OwnKinds, PolicyKinds, CiliumKinds, CalicoKinds, Autoscalers, RouteKinds
  <2> HIDE DEF r
  <2>3. DOMAIN r = 1..6
    BY <2>1
  <2>4. {r[i] : i \in 1..6} = {"Ingress", "HTTPRoute", "GRPCRoute", "TCPRoute", "UDPRoute", "TLSRoute"}
    BY <2>1
  <2> QED
    BY <2>2, <2>3, <2>4 DEF r
<1> QED
    BY <1>1, <1>2, <1>3, <1>4, <1>5, <1>6 DEF Pages

Reqs == OwnRequests(page, pageLabels)

LEMMA ReqsShape ==
    ASSUME page \in Pages
    PROVE  /\ Len(Reqs) \in Nat
           /\ DOMAIN Reqs = 1..Len(Reqs)
           /\ {Reqs[i] : i \in DOMAIN Reqs} = OwnKinds(page, pageLabels)
BY OwnRequestsShape, OwnRequestsKinds DEF Reqs

\* A request that is made is one that was called for, or the page's next.
LEMMA MadeStep ==
    ASSUME TypeOKNeighbours, NEW rq, IsDue(rq), Made(rq)
    PROVE  /\ step > 0 /\ step' > 0 /\ step' \in 0..(Len(Reqs) + 1)
           /\ rq \in more => step' = step
           /\ rq \notin more => /\ more = {} /\ step' = step + 1
                               /\ step \in DOMAIN Reqs /\ rq = Listing(Reqs[step])
<1>1. step \in 0..(Len(Reqs) + 1) /\ step > 0 /\ page \in Pages
    BY DEF TypeOKNeighbours, IsDue, Begun, Reqs
<1>2. Len(Reqs) \in Nat /\ DOMAIN Reqs = 1..Len(Reqs)
    BY <1>1, ReqsShape
<1>3. CASE rq \in more
    BY <1>1, <1>2, <1>3 DEF Made
<1>4. CASE rq \notin more
  <2>1. more = {} /\ rq \in {Listing(Reqs[i]) : i \in DOMAIN Reqs \cap {step}}
      BY <1>4 DEF IsDue, Due, Reqs
  <2>2. step \in DOMAIN Reqs /\ rq = Listing(Reqs[step])
      BY <2>1
  <2> QED
      BY <1>1, <1>2, <1>4, <2>1, <2>2 DEF Made
<1> QED
    BY <1>3, <1>4

-----------------------------------------------------------------------------
(* Type correctness. *)

\* What an answer holds is in the cluster, and in reach.
LEMMA AnswerShape ==
    ASSUME NEW rq, NEW o \in Answer(rq)
    PROVE  o \in objects /\ Suits(o, rq) /\ o.kind = rq.kind
BY DEF Answer, Suits

\* In the beginning.
LEMMA TypeInit == Init => TypeOKNeighbours
<1> SUFFICES ASSUME Init PROVE TypeOKNeighbours
    OBVIOUS
<1>1. /\ page \in Pages /\ labels \in LabelSets /\ nsLabels \in LabelSets
      /\ objects \subseteq Objects /\ budget \in Nat
    BY NeighboursAssumption DEF Init
<1>2. Len(OwnRequests(page, pageLabels)) \in Nat
    BY <1>1, OwnRequestsShape
<1> QED
    BY <1>1, <1>2 DEF Init, TypeOKNeighbours

\* In every step.
LEMMA TypeStep == TypeOKNeighbours /\ [Next]_vars => TypeOKNeighbours'
<1> SUFFICES ASSUME TypeOKNeighbours, [Next]_vars PROVE TypeOKNeighbours'
    OBVIOUS
<1>1. CASE Begin
  <2>1. page \in Pages /\ page' = page
      BY <1>1 DEF Begin, TypeOKNeighbours, cluster_vars
  <2>2. Len(OwnRequests(page', pageLabels')) \in Nat
      BY <2>1, OwnRequestsShape
  <2>3. step' = 1 /\ step' \in 0..(Len(OwnRequests(page', pageLabels')) + 1)
      BY <1>1, <2>2 DEF Begin
  <2>4. page' = page /\ labels' = labels /\ nsLabels' = nsLabels /\ objects' = objects
        /\ budget' = budget /\ globals' = globals /\ named' = named
      BY <1>1 DEF Begin, cluster_vars
  <2>5. globals' = {} /\ named' = {}
      BY <1>1, <2>4 DEF Begin, TypeOKNeighbours
  <2>6. ever' = objects /\ always' = objects /\ everNs' = {nsLabels}
      BY <1>1 DEF Begin
  <2>7. pageLabels' \in LabelSets \cup {<<>>}
      BY <1>1 DEF Begin, TypeOKNeighbours
  <2>8. objects \subseteq Objects /\ page \in Pages /\ labels \in LabelSets
        /\ nsLabels \in LabelSets /\ budget \in Nat
      BY DEF TypeOKNeighbours
  <2> QED
      BY <2>3, <2>4, <2>5, <2>6, <2>7, <2>8 DEF TypeOKNeighbours, TheNamespace
<1>2. ASSUME NEW rq, Names(rq) PROVE TypeOKNeighbours'
  <2>1. step' > 0 /\ step > 0 /\ step' \in 0..(Len(Reqs) + 1)
      BY <1>2, MadeStep DEF Names
  <2>2. \A e \in named' : \/ e \in named
                          \/ e.object \in objects /\ e.object.kind = e.by.kind
      BY <1>2, AnswerShape DEF Names
  <2> QED
      BY <1>2, <2>1, <2>2 DEF Names, TypeOKNeighbours, cluster_vars, history_vars, Reqs, TheNamespace
<1>3. ASSUME NEW rq, IngressPanics(rq) PROVE TypeOKNeighbours'
    BY <1>3 DEF IngressPanics, TypeOKNeighbours, cluster_vars, history_vars, TheNamespace
<1>4. ASSUME NEW rq, ListGlobals(rq) PROVE TypeOKNeighbours'
  <2>1. step' > 0 /\ step > 0 /\ step' \in 0..(Len(Reqs) + 1)
      BY <1>4, MadeStep DEF ListGlobals
  <2>2. \A g \in globals' : g \in objects /\ g.kind = "CalicoGlobalNetworkPolicy"
      BY <1>4, AnswerShape DEF ListGlobals, Listing
  <2> QED
      BY <1>4, <2>1, <2>2 DEF ListGlobals, TypeOKNeighbours, cluster_vars, history_vars, Reqs,
                              TheNamespace
<1>5. ASSUME NEW rq, NEW l, MatchGlobals(rq, l), UNCHANGED <<cluster_vars, pageLabels, globals, broken, history_vars>>,
             budget' \in Nat
      PROVE TypeOKNeighbours'
  <2>1. step' > 0 /\ step > 0 /\ step' \in 0..(Len(Reqs) + 1)
      BY <1>5, MadeStep DEF MatchGlobals
  <2>2. \A e \in named' : \/ e \in named
                          \/ e.object \in globals /\ e.by = TheNamespace
      BY <1>5 DEF MatchGlobals
  <2> QED
      BY <1>5, <2>1, <2>2 DEF TypeOKNeighbours, cluster_vars, history_vars, Reqs, TheNamespace
<1>6. ASSUME NEW rq, GetNamespace(rq) PROVE TypeOKNeighbours'
    BY <1>5, <1>6 DEF GetNamespace, TypeOKNeighbours
<1>7. ASSUME NEW rq, RequestFails(rq) PROVE TypeOKNeighbours'
  <2>0. budget' \in Nat
      BY <1>7 DEF RequestFails, TypeOKNeighbours
  <2>1. CASE MatchGlobals(rq, <<>>)
      BY <1>5, <1>7, <2>0, <2>1 DEF RequestFails
  <2>2. CASE IsDue(rq) /\ Made(rq) /\ UNCHANGED named
    <3>1. step' > 0 /\ step > 0 /\ step' \in 0..(Len(Reqs) + 1)
        BY <2>2, MadeStep
    <3> QED
        BY <1>7, <2>0, <2>2, <3>1
           DEF RequestFails, TypeOKNeighbours, cluster_vars, history_vars, Reqs, TheNamespace
  <2> QED
      BY <1>7, <2>1, <2>2 DEF RequestFails
<1>8. CASE Create
    BY <1>8 DEF Create, Changes, TypeOKNeighbours, page_vars, TheNamespace
<1>9. CASE Delete
    BY <1>9 DEF Delete, Changes, TypeOKNeighbours, page_vars, TheNamespace
<1>10. CASE Relabel
    BY <1>10 DEF Relabel, Changes, TypeOKNeighbours, page_vars, history_vars, TheNamespace
<1>11. CASE RelabelNamespace
    BY <1>11 DEF RelabelNamespace, Changes, TypeOKNeighbours, page_vars, TheNamespace
<1>12. CASE UNCHANGED vars
    BY <1>12 DEF vars, TypeOKNeighbours, TheNamespace
<1> QED
    BY <1>1, <1>2, <1>3, <1>4, <1>6, <1>7, <1>8, <1>9, <1>10, <1>11, <1>12 DEF Next, Asks

\* The page's own state is well formed (template_functions_dynamic.go:479-489).
THEOREM TypeCorrect == Spec => []TypeOKNeighbours
<1> QED
    BY TypeInit, TypeStep, PTL DEF Spec

-----------------------------------------------------------------------------
(* The invariant: why a request is made and an object named, and what is   *)
(* known of the requests that were made.                                   *)

\* A slice, or a template, calls for a request.
Calls(s, r) ==
    \/ page = "Pod" /\ s.kind = "EndpointSlice" /\ SliceOfPod(s) /\ r = ServiceOf(s)
    \/ /\ page = "Namespace" /\ s.kind = "ConstraintTemplate"
       /\ s.declares # "" /\ r = Listing(s.declares)

Grounded(r) ==
    \/ \E k \in OwnKinds(page, pageLabels) : r = Listing(k)
    \/ \E s \in ever : InReach(s) /\ Calls(s, r)
    \/ r = TheNamespace /\ OfPods

GlobalKind == "CalicoGlobalNetworkPolicy"

Found(e) ==
    /\ e.object \in ever /\ InReach(e.object)
    /\ \/ Suits(e.object, e.by) /\ Picks(e.object) /\ Grounded(e.by)
       \/ /\ e.object.kind = GlobalKind /\ OfPods
          /\ \/ \E l \in everNs : GlobalMatches(e.object, l)
             \/ TheNamespace \in failed /\ GlobalMatches(e.object, <<>>)

IsNamed(o) == \E e \in named : e.object = o

Heard(r) == r \in failed \/ \A o \in always : Suits(o, r) /\ Picks(o) => IsNamed(o)

Followed(s) == \A r \in CalledFor({s}) : r \in more \/ Heard(r)

GlobalHeard(o) ==
    /\ o \in globals
    /\ \/ TheNamespace \in more
       \/ Known(o) /\ (\A l \in everNs : GlobalMatches(o, l)) => IsNamed(o)

Settled(k) ==
    /\ Heard(Listing(k))
    /\ Listing(k) \notin failed =>
        /\ \A s \in always : s.kind = k /\ InReach(s) => Followed(s)
        /\ k = GlobalKind => \A o \in always : o.kind = k => GlobalHeard(o)

Inv ==
    /\ TypeOKNeighbours
    /\ \A r \in more : Grounded(r)
    /\ \A e \in named : Found(e)
    /\ \A i \in DOMAIN Reqs : i < step => Settled(Reqs[i])

\* What no step of a page that has begun takes back.
Persists ==
    /\ page' = page /\ pageLabels' = pageLabels
    /\ ever \subseteq ever' /\ everNs \subseteq everNs' /\ always' \subseteq always
    /\ failed \subseteq failed' /\ named \subseteq named'

LEMMA StepPersists ==
    ASSUME [Next]_vars, ~Begin
    PROVE  Persists
<1>1. ASSUME NEW rq, Names(rq) PROVE Persists
    BY <1>1 DEF Names, Persists, cluster_vars, history_vars
<1>2. ASSUME NEW rq, IngressPanics(rq) PROVE Persists
    BY <1>2 DEF IngressPanics, Persists, cluster_vars, history_vars
<1>3. ASSUME NEW rq, ListGlobals(rq) PROVE Persists
    BY <1>3 DEF ListGlobals, Persists, cluster_vars, history_vars
<1>4. ASSUME NEW rq, GetNamespace(rq) PROVE Persists
    BY <1>4 DEF GetNamespace, MatchGlobals, Persists, cluster_vars, history_vars
<1>5. ASSUME NEW rq, RequestFails(rq) PROVE Persists
    BY <1>5 DEF RequestFails, MatchGlobals, Persists, cluster_vars, history_vars
<1>6. CASE Create
    BY <1>6 DEF Create, Changes, Persists, page_vars
<1>7. CASE Delete
    BY <1>7 DEF Delete, Changes, Persists, page_vars
<1>8. CASE Relabel
    BY <1>8 DEF Relabel, Changes, Persists, page_vars, history_vars
<1>9. CASE RelabelNamespace
    BY <1>9 DEF RelabelNamespace, Changes, Persists, page_vars
<1>10. CASE UNCHANGED vars
    BY <1>10 DEF vars, Persists
<1> QED
    BY <1>1, <1>2, <1>3, <1>4, <1>5, <1>6, <1>7, <1>8, <1>9, <1>10 DEF Next, Asks

LEMMA PicksPersist ==
    ASSUME Persists, NEW o
    PROVE  Picks(o)' <=> Picks(o)
BY DEF Persists, Picks

LEMMA GlobalMatchesPersist ==
    ASSUME Persists, NEW o, NEW l
    PROVE  GlobalMatches(o, l)' <=> GlobalMatches(o, l)
BY DEF Persists, GlobalMatches

LEMMA OfPodsPersists == ASSUME Persists PROVE OfPods' <=> OfPods
BY DEF Persists, OfPods

LEMMA CallsPersist ==
    ASSUME Persists, NEW s, NEW r
    PROVE  Calls(s, r)' <=> Calls(s, r)
BY DEF Persists, Calls

LEMMA GroundedPersists ==
    ASSUME Persists, NEW r, Grounded(r)
    PROVE  Grounded(r)'
<1>1. CASE \E k \in OwnKinds(page, pageLabels) : r = Listing(k)
    BY <1>1 DEF Persists, Grounded
<1>2. CASE \E s \in ever : InReach(s) /\ Calls(s, r)
  <2>1. PICK s \in ever : InReach(s) /\ Calls(s, r)
      BY <1>2
  <2>2. s \in ever' /\ Calls(s, r)'
      BY <2>1, CallsPersist DEF Persists
  <2> QED
      BY <2>1, <2>2 DEF Grounded
<1>3. CASE r = TheNamespace /\ OfPods
  <2>1. OfPods'
      BY <1>3, OfPodsPersists
  <2> QED
      BY <1>3, <2>1 DEF Grounded, TheNamespace
<1> QED
    BY <1>1, <1>2, <1>3 DEF Grounded

LEMMA FoundPersists ==
    ASSUME Persists, NEW e, Found(e)
    PROVE  Found(e)'
<1>1. e.object \in ever' /\ InReach(e.object)
    BY DEF Found, Persists
<1>2. CASE Suits(e.object, e.by) /\ Picks(e.object) /\ Grounded(e.by)
  <2>1. Picks(e.object)' /\ Grounded(e.by)'
      BY <1>2, PicksPersist, GroundedPersists
  <2> QED
      BY <1>1, <1>2, <2>1 DEF Found
<1>3. CASE /\ e.object.kind = GlobalKind /\ OfPods
           /\ \E l \in everNs : GlobalMatches(e.object, l)
  <2>1. PICK l \in everNs : GlobalMatches(e.object, l)
      BY <1>3
  <2>2. l \in everNs' /\ GlobalMatches(e.object, l)' /\ OfPods'
      BY <1>3, <2>1, GlobalMatchesPersist, OfPodsPersists DEF Persists
  <2> QED
      BY <1>1, <1>3, <2>2 DEF Found, GlobalKind
<1>4. CASE /\ e.object.kind = GlobalKind /\ OfPods
           /\ TheNamespace \in failed /\ GlobalMatches(e.object, <<>>)
  <2>1. TheNamespace \in failed' /\ GlobalMatches(e.object, <<>>)' /\ OfPods'
      BY <1>4, GlobalMatchesPersist, OfPodsPersists DEF Persists
  <2> QED
      BY <1>1, <1>4, <2>1 DEF Found, GlobalKind, TheNamespace
<1> QED
    BY <1>2, <1>3, <1>4 DEF Found

LEMMA NamedPersists == ASSUME Persists, NEW o, IsNamed(o) PROVE IsNamed(o)'
BY DEF Persists, IsNamed

LEMMA HeardPersists ==
    ASSUME Persists, NEW r, Heard(r)
    PROVE  Heard(r)'
<1>1. CASE r \in failed
    BY <1>1 DEF Heard, Persists
<1>2. CASE \A o \in always : Suits(o, r) /\ Picks(o) => IsNamed(o)
  <2>1. ASSUME NEW o \in always', Suits(o, r), Picks(o)' PROVE IsNamed(o)'
    <3>1. o \in always /\ Picks(o)
        BY <2>1, PicksPersist DEF Persists
    <3> QED
        BY <1>2, <2>1, <3>1, NamedPersists
  <2> QED
      BY <2>1 DEF Heard
<1> QED
    BY <1>1, <1>2 DEF Heard

-----------------------------------------------------------------------------
(* What answers call for. *)

LEMMA CalledForShape ==
    ASSUME page \in Pages, NEW os, NEW r
    PROVE  r \in CalledFor(os) <=> \E s \in os : Calls(s, r)
<1>1. CASE page = "Pod"
    BY <1>1 DEF CalledFor, Calls
<1>2. CASE page = "Namespace"
    BY <1>2 DEF CalledFor, Calls
<1>3. CASE page \in {"Workload", "Service", "ExternalName"}
    BY <1>3 DEF CalledFor, Calls
<1> QED
    BY <1>1, <1>2, <1>3 DEF Pages

\* It is a Service, or a kind of constraints.
LEMMA CallsKind ==
    ASSUME NEW s \in Objects, NEW r, Calls(s, r)
    PROVE  r.kind \notin {"Namespace", GlobalKind}
<1>1. CASE r = ServiceOf(s)
    BY <1>1 DEF ServiceOf, GlobalKind
<1>2. CASE r = Listing(s.declares) /\ s.kind = "ConstraintTemplate"
  <2>1. s.declares \notin OtherKinds
      BY <1>2, NeighboursAssumption
  <2> QED
      BY <1>2, <2>1 DEF OtherKinds, PolicyKinds, CalicoKinds, Listing, GlobalKind
<1> QED
    BY <1>1, <1>2 DEF Calls

LEMMA CalledForPersists ==
    ASSUME page \in Pages, Persists, NEW os, NEW r
    PROVE  r \in CalledFor(os)' <=> r \in CalledFor(os)
BY DEF Persists, CalledFor

LEMMA FollowedPersists ==
    ASSUME page \in Pages, Persists, NEW s \in Objects, Followed(s),
           \A r \in more \ more' : r.kind \in {"Namespace", GlobalKind} \/ Heard(r)'
    PROVE  Followed(s)'
<1>1. page' \in Pages
    BY DEF Persists
<1>2. ASSUME NEW r \in CalledFor({s})' PROVE r \in more' \/ Heard(r)'
  <2>1. r \in CalledFor({s})
      BY <1>2, CalledForPersists
  <2>2. Calls(s, r)
      BY <2>1, CalledForShape
  <2>3. r.kind \notin {"Namespace", GlobalKind}
      BY <2>2, CallsKind
  <2>4. CASE Heard(r)
      BY <2>4, HeardPersists
  <2>5. CASE r \in more
      BY <2>3, <2>5
  <2> QED
      BY <2>1, <2>4, <2>5 DEF Followed
<1> QED
    BY <1>2 DEF Followed

LEMMA KnownPersists ==
    ASSUME Persists, NEW o, Known(o)'
    PROVE  Known(o)
BY DEF Known, Persists, TheNamespace

\* A settled kind stays so, if the requests that are done with were heard, and
\* the GlobalNetworkPolicies are not lost.
LEMMA SettledPersists ==
    ASSUME TypeOKNeighbours, Persists, NEW k, Settled(k),
           \A r \in more \ more' : r.kind \in {"Namespace", GlobalKind} \/ Heard(r)',
           \A o \in always : o.kind = GlobalKind /\ GlobalHeard(o) => GlobalHeard(o)'
    PROVE  Settled(k)'
<1>1. page \in Pages /\ always \subseteq Objects
    BY DEF TypeOKNeighbours
<1>2. Heard(Listing(k))'
  <2> DEFINE r == Listing(k)
  <2>1. Heard(r)
      BY DEF Settled
  <2> HIDE DEF r
  <2>2. Heard(r)'
      BY <2>1, HeardPersists
  <2>3. r = Listing(k) /\ r' = Listing(k)
      BY DEF r, Listing
  <2> QED
      BY <2>2, <2>3 DEF Heard, r
<1>3. ASSUME Listing(k) \notin failed'
      PROVE  /\ \A s \in always' : s.kind = k /\ InReach(s) => Followed(s)'
             /\ k = GlobalKind => \A o \in always' : o.kind = k => GlobalHeard(o)'
  <2>1. Listing(k) \notin failed
      BY <1>3 DEF Persists, Listing
  <2>2. ASSUME NEW s \in always', s.kind = k, InReach(s) PROVE Followed(s)'
    <3>1. s \in always
        BY <2>2 DEF Persists
    <3>2. Followed(s)
        BY <2>1, <2>2, <3>1 DEF Settled
    <3> QED
        BY <1>1, <3>1, <3>2, FollowedPersists
  <2>3. ASSUME k = GlobalKind, NEW o \in always', o.kind = k PROVE GlobalHeard(o)'
    <3>1. o \in always
        BY <2>3 DEF Persists
    <3>2. GlobalHeard(o)
        BY <2>1, <2>3, <3>1 DEF Settled
    <3> QED
        BY <2>3, <3>1, <3>2
  <2> QED
      BY <2>2, <2>3
<1> QED
    BY <1>2, <1>3 DEF Settled, GlobalKind, Listing, InReach

-----------------------------------------------------------------------------
(* The invariant is inductive. *)

LEMMA OwnKindsShape ==
    ASSUME page \in Pages, NEW k \in OwnKinds(page, pageLabels)
    PROVE  k # "Namespace" /\ (k = GlobalKind => OfPods)
BY DEF OwnKinds, Pages, GlobalKind, OfPods, PolicyKinds, CiliumKinds, CalicoKinds, Autoscalers,
       RouteKinds

LEMMA OwnKind ==
    ASSUME page \in Pages, NEW i \in DOMAIN Reqs
    PROVE  Reqs[i] \in OwnKinds(page, pageLabels)
BY ReqsShape

\* A request that is made has its ground.
LEMMA DueIsGrounded ==
    ASSUME Inv, NEW rq, IsDue(rq)
    PROVE  Grounded(rq)
<1>1. CASE more # {}
    BY <1>1 DEF Inv, IsDue, Due
<1>2. CASE more = {}
  <2>1. PICK i \in DOMAIN Reqs : rq = Listing(Reqs[i])
      BY <1>2 DEF IsDue, Due, Reqs
  <2>2. Reqs[i] \in OwnKinds(page, pageLabels)
      BY OwnKind DEF Inv, TypeOKNeighbours
  <2> QED
      BY <2>1, <2>2 DEF Grounded
<1> QED
    BY <1>1, <1>2

\* So it is for Pods that the GlobalNetworkPolicies are asked for.
LEMMA GlobalsAreOfPods ==
    ASSUME TypeOKNeighbours, NEW rq, Grounded(rq), rq \in {TheNamespace, Listing(GlobalKind)}
    PROVE  OfPods
<1>0. page \in Pages /\ ever \subseteq Objects
    BY DEF TypeOKNeighbours
<1>1. rq.kind \in {"Namespace", GlobalKind}
  <2>1. CASE rq = TheNamespace
      BY <2>1 DEF TheNamespace
  <2>2. CASE rq = Listing(GlobalKind)
      BY <2>2 DEF Listing
  <2> QED
      BY <2>1, <2>2
<1>2. ASSUME NEW k \in OwnKinds(page, pageLabels), rq = Listing(k) PROVE OfPods
  <2>1. rq.kind = k
      BY <1>2 DEF Listing
  <2> QED
      BY <1>0, <1>1, <1>2, <2>1, OwnKindsShape
<1>3. ASSUME NEW s \in ever, Calls(s, rq) PROVE OfPods
    BY <1>0, <1>1, <1>3, CallsKind
<1> QED
    BY <1>2, <1>3 DEF Grounded

\* After a request, if what it was answered is heard.
LEMMA AfterRequest ==
    ASSUME Inv, TypeOKNeighbours', Persists, NEW rq, IsDue(rq), Made(rq),
           \A r \in more' : Grounded(r)',
           \A e \in named' : Found(e)',
           \A r \in more \ more' : r.kind \in {"Namespace", GlobalKind} \/ Heard(r)',
           \A o \in always : o.kind = GlobalKind /\ GlobalHeard(o) => GlobalHeard(o)',
           \A k \in OwnKinds(page, pageLabels) : rq = Listing(k) => Settled(k)'
    PROVE  Inv'
<1>1. page \in Pages /\ step \in Nat /\ TypeOKNeighbours
    BY OwnRequestsShape DEF Inv, TypeOKNeighbours
<1>2. Reqs' = Reqs
    BY DEF Reqs, Persists
<1>3. ASSUME NEW i \in DOMAIN Reqs, i < step' PROVE Settled(Reqs[i])'
  <2> DEFINE k == Reqs[i]
  <2>1. k \in OwnKinds(page, pageLabels)
      BY <1>1, OwnKind
  <2>2. CASE i < step
    <3>1. Settled(k)
        BY <2>2 DEF Inv
    <3> HIDE DEF k
    <3>2. PICK c : c = k
        OBVIOUS
    <3>3. Settled(c)'
        BY <1>1, <3>1, <3>2, SettledPersists
    <3> QED
        BY <1>2, <3>2, <3>3 DEF k, Settled, Heard, GlobalHeard, Listing
  <2>3. CASE ~(i < step)
    <3>1. i \in Nat
        BY <1>1, ReqsShape
    <3>2. rq \notin more /\ step' = step + 1
        BY <1>1, <1>3, <2>3, MadeStep
    <3>3. i = step
        BY <1>1, <1>3, <2>3, <3>1, <3>2
    <3>4. rq = Listing(Reqs[step])
        BY <1>1, <3>2, MadeStep
    <3>5. PICK c \in OwnKinds(page, pageLabels) : c = k
        BY <2>1
    <3>6. Settled(c)'
        BY <3>3, <3>4, <3>5
    <3> QED
        BY <1>2, <3>5, <3>6 DEF Settled, Heard, GlobalHeard, Listing
  <2> QED
      BY <2>2, <2>3
<1> QED
    BY <1>2, <1>3 DEF Inv

LEMMA NamesStep ==
    ASSUME Inv, TypeOKNeighbours', Persists, NEW rq, Names(rq)
    PROVE  Inv'
<1>1. page \in Pages /\ always \subseteq objects /\ objects \subseteq Objects /\ objects \subseteq ever
    BY DEF Inv, TypeOKNeighbours, Names, IsDue, Begun
<1>2. IsDue(rq) /\ Made(rq) /\ rq.kind \notin {"Namespace", GlobalKind}
    BY DEF Names, GlobalKind
<1>3. Grounded(rq)
    BY <1>2, DueIsGrounded
<1>4. /\ ever' = ever /\ always' = always /\ globals' = globals /\ failed' = failed
      /\ everNs' = everNs
    BY DEF Names, history_vars
<1>5. /\ more' = (more \ {rq}) \cup CalledFor(Answer(rq))
      /\ named' = named \cup {[by |-> rq, object |-> o] : o \in {x \in Answer(rq) : Picks(x)}}
    BY DEF Names
<1>6. ASSUME NEW r \in more' PROVE Grounded(r)'
  <2>1. CASE r \in more
    <3>1. Grounded(r)
        BY <2>1 DEF Inv
    <3> QED
        BY <3>1, GroundedPersists
  <2>2. CASE r \in CalledFor(Answer(rq))
    <3>1. PICK s \in Answer(rq) : Calls(s, r)
        BY <1>1, <2>2, CalledForShape
    <3>2. s \in ever /\ InReach(s)
        BY <1>1, <3>1, AnswerShape DEF Suits
    <3>3. Grounded(r)
        BY <3>1, <3>2 DEF Grounded
    <3> QED
        BY <3>3, GroundedPersists
  <2> QED
      BY <1>5, <2>1, <2>2
<1>7. ASSUME NEW e \in named' PROVE Found(e)'
  <2>1. CASE e \in named
    <3>1. Found(e)
        BY <2>1 DEF Inv
    <3> QED
        BY <3>1, FoundPersists
  <2>2. CASE e \notin named
    <3>1. PICK o \in Answer(rq) : Picks(o) /\ e = [by |-> rq, object |-> o]
        BY <1>5, <2>2
    <3>2. o \in ever /\ Suits(o, rq) /\ InReach(o)
        BY <1>1, <3>1, AnswerShape DEF Suits
    <3>3. e.object = o /\ e.by = rq
        BY <3>1
    <3>4. Found(e)
        BY <1>3, <3>1, <3>2, <3>3 DEF Found
    <3> QED
        BY <3>4, FoundPersists
  <2> QED
      BY <2>1, <2>2
<1>8. Heard(rq)'
  <2>1. ASSUME NEW o \in always', Suits(o, rq), Picks(o)' PROVE IsNamed(o)'
    <3>1. o \in Answer(rq) /\ Picks(o)
        BY <1>1, <1>4, <2>1, PicksPersist DEF Answer
    <3>2. [by |-> rq, object |-> o] \in named'
        BY <1>5, <3>1
    <3>3. [by |-> rq, object |-> o].object = o
        OBVIOUS
    <3> QED
        BY <3>2, <3>3 DEF IsNamed
  <2> QED
      BY <2>1 DEF Heard
<1>9. ASSUME NEW r \in more \ more' PROVE Heard(r)'
    BY <1>5, <1>8, <1>9
<1>10. ASSUME NEW o \in always, GlobalHeard(o) PROVE GlobalHeard(o)'
  <2>1. o \in globals'
      BY <1>4, <1>10 DEF GlobalHeard
  <2>2. CASE TheNamespace \in more
    <3>1. TheNamespace \in more'
        BY <1>2, <1>5, <2>2 DEF TheNamespace
    <3> QED
        BY <2>1, <3>1 DEF GlobalHeard, TheNamespace
  <2>3. CASE Known(o) /\ (\A l \in everNs : GlobalMatches(o, l)) => IsNamed(o)
    <3>1. ASSUME Known(o)', \A l \in everNs' : GlobalMatches(o, l)' PROVE IsNamed(o)'
      <4>1. Known(o) /\ \A l \in everNs : GlobalMatches(o, l)
          BY <3>1, KnownPersists, GlobalMatchesPersist DEF Persists
      <4> QED
          BY <2>3, <4>1, NamedPersists
    <3> QED
        BY <2>1, <3>1 DEF GlobalHeard
  <2> QED
      BY <1>10, <2>2, <2>3 DEF GlobalHeard
<1>11. ASSUME NEW k \in OwnKinds(page, pageLabels), rq = Listing(k) PROVE Settled(k)'
  <2>1. k # GlobalKind /\ rq.kind = k /\ rq.name = ""
      BY <1>2, <1>11 DEF Listing
  <2>2. ASSUME NEW s \in always', s.kind = k, InReach(s) PROVE Followed(s)'
    <3>1. s \in Answer(rq)
        BY <1>1, <1>4, <2>1, <2>2 DEF Answer, Suits
    <3>2. ASSUME NEW r \in CalledFor({s})' PROVE r \in more'
      <4>1. Calls(s, r)
          BY <1>1, <3>2, CalledForPersists, CalledForShape
      <4>2. r \in CalledFor(Answer(rq))
          BY <1>1, <3>1, <4>1, CalledForShape
      <4> QED
          BY <1>5, <4>2
    <3> QED
        BY <3>2 DEF Followed
  <2>3. Heard(Listing(k))'
      BY <1>8, <1>11 DEF Heard, Listing
  <2> QED
      BY <2>1, <2>2, <2>3 DEF Settled, InReach, GlobalKind
<1> QED
    BY <1>2, <1>6, <1>7, <1>9, <1>10, <1>11, AfterRequest

LEMMA ListGlobalsStep ==
    ASSUME Inv, TypeOKNeighbours', Persists, NEW rq, ListGlobals(rq)
    PROVE  Inv'
<1>1. /\ page \in Pages /\ always \subseteq objects /\ objects \subseteq Objects
      /\ always' = always /\ failed' = failed /\ named' = named
    BY DEF Inv, TypeOKNeighbours, ListGlobals, history_vars
<1>2. IsDue(rq) /\ Made(rq) /\ rq = Listing(GlobalKind) /\ rq.kind = GlobalKind
    BY DEF ListGlobals, GlobalKind, Listing
<1>3. /\ globals' = Answer(rq)
      /\ more' = (more \ {rq}) \cup {r \in {TheNamespace} : globals' # {}}
    BY DEF ListGlobals
<1>4. OfPods
    BY <1>2, DueIsGrounded, GlobalsAreOfPods DEF Inv
<1>5. ASSUME NEW r \in more' PROVE Grounded(r)'
  <2>1. Grounded(r)
      BY <1>3, <1>4, <1>5 DEF Inv, Grounded
  <2> QED
      BY <2>1, GroundedPersists
<1>6. ASSUME NEW e \in named' PROVE Found(e)'
  <2>1. Found(e)
      BY <1>1, <1>6 DEF Inv
  <2> QED
      BY <2>1, FoundPersists
<1>7. ASSUME NEW r \in more \ more' PROVE r.kind = GlobalKind
    BY <1>2, <1>3, <1>7
<1>8. ASSUME NEW o \in always, o.kind = GlobalKind PROVE GlobalHeard(o)'
  <2>1. Suits(o, rq)
      BY <1>2, <1>8 DEF Suits, InReach, Namespaced, GlobalKind, Listing, RouteKinds, Autoscalers
  <2>2. o \in globals'
      BY <1>1, <1>3, <2>1 DEF Answer
  <2>3. TheNamespace \in more'
      BY <1>3, <2>2
  <2> QED
      BY <2>2, <2>3 DEF GlobalHeard, TheNamespace
<1>9. ASSUME NEW k \in OwnKinds(page, pageLabels), rq = Listing(k) PROVE Settled(k)'
  <2>0. rq.kind = k
      BY <1>9 DEF Listing
  <2>1. k = GlobalKind
      BY <1>2, <2>0
  <2>2. ASSUME NEW o \in always', Suits(o, rq) PROVE ~Picks(o)'
    <3>1. o.kind = GlobalKind
        BY <1>2, <2>2 DEF Suits
    <3>2. ~policyMatches(o, pageLabels)
        BY <3>1 DEF policyMatches, GlobalKind, CiliumKinds
    <3>3. ~Picks(o)
        BY <1>4, <3>1, <3>2 DEF Picks, OfPods, GlobalKind, Autoscalers
    <3> QED
        BY <3>3, PicksPersist
  <2>3. Heard(Listing(k))'
      BY <1>9, <2>2 DEF Heard, Listing
  <2>4. ASSUME NEW s \in always', s.kind = k PROVE Followed(s)'
    <3>1. CalledFor({s}) = {}
        BY <1>4, <2>1, <2>4 DEF CalledFor, OfPods, GlobalKind
    <3>2. CalledFor({s})' = {}
        BY <1>1, <3>1, CalledForPersists
    <3> QED
        BY <3>2 DEF Followed
  <2> QED
      BY <1>1, <1>8, <2>3, <2>4 DEF Settled, InReach, GlobalKind
<1> QED
    BY <1>2, <1>5, <1>6, <1>7, <1>8, <1>9, AfterRequest

\* The Namespace's labels, or none if it could not be had.
LEMMA MatchGlobalsStep ==
    ASSUME Inv, TypeOKNeighbours', Persists, NEW rq, NEW l, MatchGlobals(rq, l),
           globals' = globals,
           l \in everNs \/ (l = <<>> /\ TheNamespace \in failed')
    PROVE  Inv'
<1>1. /\ page \in Pages /\ globals \subseteq ever /\ (step > 0 => nsLabels \in everNs)
      /\ \A g \in globals : g.kind = GlobalKind
    BY DEF Inv, TypeOKNeighbours, GlobalKind
<1>2. IsDue(rq) /\ Made(rq) /\ rq = TheNamespace /\ rq.kind = "Namespace"
    BY DEF MatchGlobals, TheNamespace
<1>3. /\ more' = more \ {rq}
      /\ named' = named \cup {[by |-> rq, object |-> o] : o \in {g \in globals : GlobalMatches(g, l)}}
    BY DEF MatchGlobals
<1>4. OfPods
    BY <1>2, DueIsGrounded, GlobalsAreOfPods DEF Inv
<1>5. ASSUME NEW r \in more' PROVE Grounded(r)'
  <2>1. Grounded(r)
      BY <1>3, <1>5 DEF Inv
  <2> QED
      BY <2>1, GroundedPersists
<1>6. ASSUME NEW e \in named' PROVE Found(e)'
  <2>1. CASE e \in named
    <3>1. Found(e)
        BY <2>1 DEF Inv
    <3> QED
        BY <3>1, FoundPersists
  <2>2. CASE e \notin named
    <3>1. PICK o \in globals : GlobalMatches(o, l) /\ e = [by |-> rq, object |-> o]
        BY <1>3, <2>2
    <3>2. e.object = o /\ o \in ever' /\ o.kind = GlobalKind
        BY <1>1, <3>1 DEF Persists
    <3>3. InReach(o)
        BY <3>2 DEF InReach, Namespaced, GlobalKind, RouteKinds, Autoscalers
    <3>4. GlobalMatches(o, l)' /\ OfPods'
        BY <1>4, <3>1, GlobalMatchesPersist, OfPodsPersists
    <3>5. CASE l \in everNs
        BY <3>2, <3>3, <3>4, <3>5 DEF Found, GlobalKind, Persists
    <3>6. CASE l = <<>> /\ TheNamespace \in failed'
        BY <3>2, <3>3, <3>4, <3>6 DEF Found, GlobalKind, TheNamespace
    <3> QED
        BY <3>5, <3>6
  <2> QED
      BY <2>1, <2>2
<1>7. ASSUME NEW r \in more \ more' PROVE r.kind = "Namespace"
    BY <1>2, <1>3, <1>7
<1>8. ASSUME NEW o \in always, GlobalHeard(o) PROVE GlobalHeard(o)'
  <2>1. o \in globals
      BY <1>8 DEF GlobalHeard
  <2>2. ASSUME Known(o)', \A n \in everNs' : GlobalMatches(o, n)' PROVE IsNamed(o)'
    <3>1. \A n \in everNs : GlobalMatches(o, n)
        BY <2>2, GlobalMatchesPersist DEF Persists
    <3>2. nsLabels \in everNs
        BY <1>1, <1>2, MadeStep DEF Inv
    <3>3. GlobalMatches(o, l)
      <4>1. CASE l \in everNs
          BY <3>1, <4>1
      <4>2. CASE l = <<>> /\ TheNamespace \in failed'
        <5>1. GlobalMatches(o, nsLabels)
            BY <3>1, <3>2
        <5>2. o.spec.namespaceSelector = <<>>
            BY <1>1, <2>1, <2>2, <4>2, <5>1 DEF Known, GlobalMatches, GlobalKind, TheNamespace
        <5> QED
            BY <5>1, <5>2 DEF GlobalMatches, calicoNamespaceSelectorMatches
      <4> QED
          BY <4>1, <4>2
    <3>4. [by |-> rq, object |-> o] \in named'
        BY <1>3, <2>1, <3>3
    <3>5. [by |-> rq, object |-> o].object = o
        OBVIOUS
    <3> QED
        BY <3>4, <3>5 DEF IsNamed
  <2>3. o \in globals'
      BY <2>1
  <2> QED
      BY <2>2, <2>3 DEF GlobalHeard
<1>9. ASSUME NEW k \in OwnKinds(page, pageLabels), rq = Listing(k) PROVE Settled(k)'
  <2>0. rq.kind = k
      BY <1>9 DEF Listing
  <2>1. k = "Namespace"
      BY <1>2, <2>0
  <2> QED
      BY <1>1, <2>1, OwnKindsShape
<1> QED
    BY <1>2, <1>5, <1>6, <1>7, <1>8, <1>9, AfterRequest

\* What is heard of a GlobalNetworkPolicy stays heard while the Namespace is not
\* asked for.
LEMMA GlobalHeardPersists ==
    ASSUME Persists, NEW o, GlobalHeard(o), globals' = globals,
           TheNamespace \in more => TheNamespace \in more'
    PROVE  GlobalHeard(o)'
<1>1. o \in globals'
    BY DEF GlobalHeard
<1>2. CASE TheNamespace \in more
    BY <1>1, <1>2 DEF GlobalHeard, TheNamespace
<1>3. CASE Known(o) /\ (\A l \in everNs : GlobalMatches(o, l)) => IsNamed(o)
  <2>1. ASSUME Known(o)', \A l \in everNs' : GlobalMatches(o, l)' PROVE IsNamed(o)'
    <3>1. Known(o) /\ \A l \in everNs : GlobalMatches(o, l)
        BY <2>1, KnownPersists, GlobalMatchesPersist DEF Persists
    <3> QED
        BY <1>3, <3>1, NamedPersists
  <2> QED
      BY <1>1, <2>1 DEF GlobalHeard
<1> QED
    BY <1>2, <1>3 DEF GlobalHeard

LEMMA FailsStep ==
    ASSUME Inv, TypeOKNeighbours', Persists, NEW rq, RequestFails(rq)
    PROVE  Inv'
<1>1. globals' = globals /\ failed' = failed \cup {rq}
    BY DEF RequestFails
<1>2. CASE MatchGlobals(rq, <<>>)
  <2>1. rq = TheNamespace
      BY <1>2 DEF MatchGlobals
  <2>2. TheNamespace \in failed'
      BY <1>1, <2>1
  <2> QED
      BY <1>1, <1>2, <2>2, MatchGlobalsStep
<1>3. CASE IsDue(rq) /\ rq # TheNamespace /\ more' = more \ {rq} /\ Made(rq) /\ UNCHANGED named
  <2>1. ASSUME NEW r \in more' PROVE Grounded(r)'
    <3>1. Grounded(r)
        BY <1>3, <2>1 DEF Inv
    <3> QED
        BY <3>1, GroundedPersists
  <2>2. ASSUME NEW e \in named' PROVE Found(e)'
    <3>1. Found(e)
        BY <1>3, <2>2 DEF Inv
    <3> QED
        BY <3>1, FoundPersists
  <2>3. Heard(rq)'
      BY <1>1 DEF Heard
  <2>4. ASSUME NEW r \in more \ more' PROVE Heard(r)'
      BY <1>3, <2>3, <2>4
  <2>5. ASSUME NEW o \in always, GlobalHeard(o) PROVE GlobalHeard(o)'
      BY <1>1, <1>3, <2>5, GlobalHeardPersists
  <2>6. ASSUME NEW k \in OwnKinds(page, pageLabels), rq = Listing(k) PROVE Settled(k)'
      BY <1>1, <2>3, <2>6 DEF Settled, Heard, Listing
  <2> QED
      BY <1>3, <2>1, <2>2, <2>4, <2>5, <2>6, AfterRequest
<1> QED
    BY <1>2, <1>3 DEF RequestFails

\* A step that is not the page's.
LEMMA QuietStep ==
    ASSUME Inv, TypeOKNeighbours', Persists, UNCHANGED <<step, more, named, globals>>
    PROVE  Inv'
<1>1. page \in Pages /\ TypeOKNeighbours
    BY DEF Inv, TypeOKNeighbours
<1>2. ASSUME NEW r \in more' PROVE Grounded(r)'
  <2>1. Grounded(r)
      BY <1>2 DEF Inv
  <2> QED
      BY <2>1, GroundedPersists
<1>3. ASSUME NEW e \in named' PROVE Found(e)'
  <2>1. Found(e)
      BY <1>3 DEF Inv
  <2> QED
      BY <2>1, FoundPersists
<1>4. Reqs' = Reqs
    BY DEF Reqs, Persists
<1>5. ASSUME NEW i \in DOMAIN Reqs, i < step PROVE Settled(Reqs[i])'
  <2>1. PICK k : k = Reqs[i]
      OBVIOUS
  <2>2. Settled(k)
      BY <1>5, <2>1 DEF Inv
  <2>3. ASSUME NEW o \in always, GlobalHeard(o) PROVE GlobalHeard(o)'
      BY <2>3, GlobalHeardPersists
  <2>4. Settled(k)'
      BY <1>1, <2>2, <2>3, SettledPersists
  <2> QED
      BY <1>4, <2>1, <2>4 DEF Settled, Heard, GlobalHeard, Listing
<1> QED
    BY <1>2, <1>3, <1>4, <1>5 DEF Inv

LEMMA InvInit == Init => Inv
<1> SUFFICES ASSUME Init PROVE Inv
    OBVIOUS
<1>1. TypeOKNeighbours
    BY TypeInit
<1>2. more = {} /\ named = {} /\ step = 0
    BY DEF Init
<1>3. \A i \in DOMAIN Reqs : ~(i < step)
    BY <1>1, <1>2, ReqsShape DEF TypeOKNeighbours
<1> QED
    BY <1>1, <1>2, <1>3 DEF Inv

LEMMA InvStep == Inv /\ [Next]_vars => Inv'
<1> SUFFICES ASSUME Inv, [Next]_vars PROVE Inv'
    OBVIOUS
<1>1. TypeOKNeighbours /\ TypeOKNeighbours'
    BY TypeStep DEF Inv
<1>2. CASE Begin
  <2>1. more' = {} /\ named' = {} /\ step' = 1
      BY <1>1, <1>2 DEF Begin, TypeOKNeighbours
  <2>2. page' \in Pages
      BY <1>1 DEF TypeOKNeighbours
  <2>3. DOMAIN OwnRequests(page', pageLabels') = 1..Len(OwnRequests(page', pageLabels'))
        /\ Len(OwnRequests(page', pageLabels')) \in Nat
      BY <2>2, OwnRequestsShape
  <2>4. \A i \in DOMAIN Reqs' : ~(i < step')
      BY <2>1, <2>3 DEF Reqs
  <2> QED
      BY <1>1, <2>1, <2>4 DEF Inv
<1>3. ASSUME ~Begin PROVE Inv'
  <2>0. Persists
      BY <1>3, StepPersists
  <2>1. ASSUME NEW rq, Names(rq) PROVE Inv'
      BY <1>1, <2>0, <2>1, NamesStep
  <2>2. ASSUME NEW rq, IngressPanics(rq) PROVE Inv'
      BY <1>1, <2>0, <2>2, QuietStep DEF IngressPanics
  <2>3. ASSUME NEW rq, ListGlobals(rq) PROVE Inv'
      BY <1>1, <2>0, <2>3, ListGlobalsStep
  <2>4. ASSUME NEW rq, GetNamespace(rq) PROVE Inv'
    <3>1. MatchGlobals(rq, nsLabels) /\ globals' = globals
        BY <2>4 DEF GetNamespace
    <3>2. nsLabels \in everNs
        BY <1>1, <3>1, MadeStep DEF MatchGlobals, TypeOKNeighbours
    <3> QED
        BY <1>1, <2>0, <3>1, <3>2, MatchGlobalsStep
  <2>5. ASSUME NEW rq, RequestFails(rq) PROVE Inv'
      BY <1>1, <2>0, <2>5, FailsStep
  <2>6. CASE Create \/ Delete \/ Relabel \/ RelabelNamespace
    <3>1. UNCHANGED <<step, more, named, globals>>
        BY <2>6 DEF Create, Delete, Relabel, RelabelNamespace, Changes, page_vars
    <3> QED
        BY <1>1, <2>0, <3>1, QuietStep
  <2>7. CASE UNCHANGED vars
    <3>1. UNCHANGED <<step, more, named, globals>>
        BY <2>7 DEF vars
    <3> QED
        BY <1>1, <2>0, <3>1, QuietStep
  <2> QED
      BY <1>3, <2>1, <2>2, <2>3, <2>4, <2>5, <2>6, <2>7 DEF Next, Asks
<1> QED
    BY <1>2, <1>3

\* The invariant: what was named was found, and what was asked was heard.
THEOREM Invariant == Spec => []Inv
<1> QED
    BY InvInit, InvStep, PTL DEF Spec

-----------------------------------------------------------------------------
(* What the code matches is what the objects say. *)

LEMMA PolicyApplies ==
    ASSUME NEW o, NEW n, o.kind \in PolicyKinds, o.kind # GlobalKind
    PROVE  policyMatches(o, pageLabels) <=> AppliesTo(o, n)
<1>1. CASE o.kind = "PodDisruptionBudget"
  <2>1. policyMatches(o, pageLabels) <=> pdbMatches(o.spec, pageLabels)
      BY <1>1 DEF policyMatches, CiliumKinds
  <2>2. AppliesTo(o, n) <=> o.spec.selector # Absent /\ selectorSelects(o.spec.selector, pageLabels)
      BY <1>1 DEF AppliesTo, CalicoKinds
  <2> QED
      BY <2>1, <2>2 DEF pdbMatches
<1>2. CASE o.kind = "NetworkPolicy"
  <2>1. policyMatches(o, pageLabels) <=> networkPolicySelectsPod(o.spec, pageLabels)
      BY <1>2 DEF policyMatches, CiliumKinds
  <2>2. AppliesTo(o, n) <=> selectorSelects(o.spec.podSelector, pageLabels)
      BY <1>2 DEF AppliesTo, CalicoKinds
  <2> QED
      BY <2>1, <2>2 DEF networkPolicySelectsPod
<1>3. CASE o.kind \in CiliumKinds
  <2>1. policyMatches(o, pageLabels) <=> ciliumMatchingRules(o.rules, pageLabels) # {}
      BY <1>3 DEF policyMatches, CiliumKinds
  <2>2. AppliesTo(o, n) <=> \E r \in o.rules : selectorSelects(r.endpointSelector, pageLabels)
      BY <1>3 DEF AppliesTo, CiliumKinds, CalicoKinds
  <2> QED
      BY <2>1, <2>2 DEF ciliumMatchingRules
<1>4. CASE o.kind = "CalicoNetworkPolicy"
  <2>1. policyMatches(o, pageLabels) <=> o.spec # Absent /\ calicoPolicySelectsPod(o.spec, pageLabels)
      BY <1>4 DEF policyMatches, CiliumKinds
  <2>2. AppliesTo(o, n) <=> o.spec # Absent /\ SelectorSelects(o.spec.selector, WorkloadLabels(pageLabels))
      BY <1>4 DEF AppliesTo, CalicoKinds
  <2> QED
      BY <2>1, <2>2 DEF calicoPolicySelectsPod, withCalicoNamespaceLabel, WorkloadLabels
<1> QED
    BY <1>1, <1>2, <1>3, <1>4 DEF PolicyKinds, CiliumKinds, CalicoKinds, GlobalKind

LEMMA GlobalApplies ==
    ASSUME NEW o, NEW n, o.kind = GlobalKind
    PROVE  GlobalMatches(o, n) <=> AppliesTo(o, n)
<1>1. AppliesTo(o, n) <=>
        /\ o.spec # Absent
        /\ SelectorSelects(o.spec.selector, WorkloadLabels(pageLabels))
        /\ \/ o.spec.namespaceSelector = <<>>
           \/ SelectorSelects(o.spec.namespaceSelector, NamespaceLabels(n))
    BY DEF AppliesTo, CalicoKinds, GlobalKind
<1> QED
    BY <1>1 DEF GlobalMatches, calicoPolicySelectsPod, withCalicoNamespaceLabel, WorkloadLabels,
                calicoNamespaceSelectorMatches, NamespaceLabels

LEMMA ServiceSelects ==
    ASSUME NEW o, page = "Workload", o.kind = "Service"
    PROVE  /\ SelectsPods(o) => doesServiceMatchLabels(o, pageLabels)
           /\ doesServiceMatchLabels(o, pageLabels) /\ ~SelectsAbsence(o) => SelectsPods(o)
BY DEF SelectsPods, doesServiceMatchLabels, isSubset, SelectsAbsence

LEMMA RouteSelects == ASSUME NEW o PROVE RoutesTo(o) <=> doesRouteUseService(o)
BY DEF RoutesTo, doesRouteUseService

\* What an answer names is a neighbour by the word of some object that was there.
LEMMA PickedIsNeighbour ==
    ASSUME TypeOKNeighbours, NEW o \in ever, NEW rq, Suits(o, rq), Picks(o), Grounded(rq),
           ~SelectsAbsence(o), NEW n
    PROVE  \E s \in ever : NeighbourBy(s, o, n)
<1>0. page \in Pages /\ ever \subseteq Objects /\ o.kind = rq.kind
    BY DEF TypeOKNeighbours, Suits
<1>1. \/ o.kind \in OwnKinds(page, pageLabels)
      \/ \E s \in ever : InReach(s) /\ Calls(s, rq)
      \/ rq = TheNamespace /\ OfPods
  <2>1. CASE \E k \in OwnKinds(page, pageLabels) : rq = Listing(k)
    <3>1. PICK k \in OwnKinds(page, pageLabels) : rq = Listing(k)
        BY <2>1
    <3>2. rq.kind = k
        BY <3>1 DEF Listing
    <3> QED
        BY <1>0, <3>1, <3>2
  <2> QED
      BY <2>1 DEF Grounded
<1>2. ~(rq = TheNamespace /\ OfPods)
  <2> SUFFICES ASSUME rq = TheNamespace, OfPods PROVE FALSE
      OBVIOUS
  <2>1. rq.kind = "Namespace"
      BY DEF TheNamespace
  <2>2. o.kind = "Namespace"
      BY <1>0, <2>1
  <2>3. ~policyMatches(o, pageLabels)
      BY <2>2 DEF policyMatches, CiliumKinds
  <2>4. CASE page = "Pod"
      BY <2>2, <2>3, <2>4 DEF Picks
  <2>5. CASE page = "Workload"
      BY <2>2, <2>3, <2>5 DEF Picks, Autoscalers
  <2> QED
      BY <2>4, <2>5 DEF OfPods
<1>3. CASE page = "Pod"
  <2>1. CASE o.kind = "Service"
    <3>1. PICK s \in ever : InReach(s) /\ Calls(s, rq)
        BY <1>1, <1>2, <1>3, <2>1 DEF OwnKinds, PolicyKinds, CiliumKinds, CalicoKinds
    <3>2. s.kind = "EndpointSlice" /\ SliceOfPod(s) /\ rq = ServiceOf(s)
        BY <1>3, <3>1 DEF Calls
    <3>3. rq.name = s.service
        BY <3>2 DEF ServiceOf
    <3>4. o.name = s.service /\ It \in s.targets
        BY <3>2, <3>3 DEF Suits, SliceOfPod
    <3> QED
        BY <1>3, <2>1, <3>1, <3>2, <3>4 DEF NeighbourBy
  <2>2. CASE o.kind # "Service"
    <3>1. policyMatches(o, pageLabels)
        BY <1>3, <2>2 DEF Picks
    <3>2. o.kind \in PolicyKinds /\ o.kind # GlobalKind
        BY <3>1 DEF policyMatches, PolicyKinds, CiliumKinds, CalicoKinds, GlobalKind
    <3>3. AppliesTo(o, n) /\ OfPods
        BY <1>3, <3>1, <3>2, PolicyApplies DEF OfPods
    <3>4. Concerned(o, n)
        BY <3>2, <3>3 DEF Concerned
    <3> QED
        BY <1>3, <2>2, <3>4 DEF NeighbourBy
  <2> QED
      BY <2>1, <2>2
<1>4. CASE page = "Workload"
  <2>0. o.kind \in OwnKinds(page, pageLabels)
      BY <1>1, <1>2, <1>4 DEF Calls
  <2>1. CASE o.kind = "Service"
    <3>1. doesServiceMatchLabels(o, pageLabels)
        BY <1>4, <2>1 DEF Picks, Autoscalers, policyMatches, CiliumKinds
    <3>2. Concerned(o, n)
        BY <1>4, <2>1, <3>1, ServiceSelects DEF Concerned, PolicyKinds, CiliumKinds, CalicoKinds
    <3> QED
        BY <1>4, <3>2 DEF NeighbourBy
  <2>2. CASE o.kind \in Autoscalers
    <3>1. Targets(o)
        BY <1>4, <2>2 DEF Picks, Autoscalers, policyMatches, CiliumKinds
    <3>2. Concerned(o, n)
        BY <1>4, <2>2, <3>1
           DEF Concerned, Targets, PolicyKinds, CiliumKinds, CalicoKinds, Autoscalers
    <3> QED
        BY <1>4, <3>2 DEF NeighbourBy
  <2>3. CASE o.kind \notin {"Service"} \cup Autoscalers
    <3>1. policyMatches(o, pageLabels)
        BY <1>4, <2>3 DEF Picks
    <3>2. o.kind \in PolicyKinds /\ o.kind # GlobalKind
        BY <3>1 DEF policyMatches, PolicyKinds, CiliumKinds, CalicoKinds, GlobalKind
    <3>3. DOMAIN pageLabels # {}
        BY <1>4, <2>0, <2>3 DEF OwnKinds
    <3>4. AppliesTo(o, n) /\ OfPods
        BY <1>4, <3>1, <3>2, <3>3, PolicyApplies DEF OfPods
    <3>5. Concerned(o, n)
        BY <3>2, <3>4 DEF Concerned
    <3> QED
        BY <1>4, <3>5 DEF NeighbourBy
  <2> QED
      BY <2>1, <2>2, <2>3
<1>5. CASE OfService
  <2>1. CASE o.kind = "EndpointSlice"
    <3>1. o.service = It
        BY <1>5, <2>1 DEF Picks, RouteKinds, OfService
    <3>2. page = "Service"
        BY <1>1, <1>2, <1>5, <2>1 DEF OwnKinds, OfService, RouteKinds, Calls
    <3>3. Concerned(o, n)
        BY <2>1, <3>1, <3>2 DEF Concerned, PolicyKinds, CiliumKinds, CalicoKinds, Autoscalers
    <3> QED
        BY <1>5, <3>3 DEF NeighbourBy, OfService
  <2>2. CASE o.kind = "Ingress"
    <3>1. doesIngressUseService(o)
        BY <1>5, <2>2 DEF Picks, RouteKinds, OfService
    <3>2. Concerned(o, n)
        BY <1>5, <2>2, <3>1
           DEF Concerned, doesIngressUseService, PolicyKinds, CiliumKinds, CalicoKinds, Autoscalers
    <3> QED
        BY <1>5, <3>2 DEF NeighbourBy, OfService
  <2>3. CASE o.kind \in RouteKinds
    <3>1. RoutesTo(o)
        BY <1>5, <2>3, RouteSelects DEF Picks, RouteKinds, OfService
    <3>2. Concerned(o, n)
        BY <1>5, <2>3, <3>1
           DEF Concerned, PolicyKinds, CiliumKinds, CalicoKinds, Autoscalers, RouteKinds
    <3> QED
        BY <1>5, <3>2 DEF NeighbourBy, OfService
  <2> QED
      BY <1>5, <2>1, <2>2, <2>3 DEF Picks, OfService
<1>6. CASE page = "Namespace"
  <2>1. o.kind # "ConstraintTemplate" /\ gatekeeperConstraintMatchesNamespace(o, pageLabels)
      BY <1>6 DEF Picks
  <2>2. PICK s \in ever : Calls(s, rq)
      BY <1>1, <1>2, <1>6, <2>1 DEF OwnKinds
  <2>3. s.kind = "ConstraintTemplate" /\ rq = Listing(s.declares)
      BY <1>6, <2>2 DEF Calls
  <2>4. s.declares = o.kind
      BY <1>0, <2>3 DEF Listing
  <2> QED
      BY <1>6, <2>1, <2>3, <2>4 DEF NeighbourBy
<1> QED
    BY <1>0, <1>3, <1>4, <1>5, <1>6 DEF Pages, OfService

\* So is a GlobalNetworkPolicy that matches.
LEMMA GlobalIsNeighbour ==
    ASSUME NEW o, NEW n, o.kind = GlobalKind, OfPods, GlobalMatches(o, n)
    PROVE  NeighbourBy(o, o, n)
<1>1. AppliesTo(o, n)
    BY GlobalApplies
<1>2. o.kind \in PolicyKinds
    BY DEF PolicyKinds, CalicoKinds, GlobalKind
<1>3. Concerned(o, n)
    BY <1>1, <1>2 DEF Concerned
<1> QED
    BY <1>3 DEF NeighbourBy, OfPods, GlobalKind

LEMMA NamedIsNeighbour ==
    ASSUME Inv, step > 0, NEW e \in named, Known(e.object), ~SelectsAbsence(e.object)
    PROVE  Sometime(e.object)
<1> DEFINE o == e.object
<1>0. TypeOKNeighbours /\ Found(e) /\ o \in ever /\ InReach(o) /\ nsLabels \in everNs
    BY DEF Inv, Found, TypeOKNeighbours
<1>1. CASE Suits(o, e.by) /\ Picks(o) /\ Grounded(e.by)
  <2>1. \E s \in ever : NeighbourBy(s, o, nsLabels)
      BY <1>0, <1>1, PickedIsNeighbour
  <2> QED
      BY <1>0, <2>1 DEF Sometime
<1>2. ASSUME o.kind = GlobalKind, OfPods, NEW l \in everNs, GlobalMatches(o, l)
      PROVE  Sometime(o)
  <2>1. NeighbourBy(o, o, l)
      BY <1>2, GlobalIsNeighbour
  <2> QED
      BY <1>0, <2>1 DEF Sometime
<1>3. ASSUME o.kind = GlobalKind, OfPods, TheNamespace \in failed, GlobalMatches(o, <<>>)
      PROVE  Sometime(o)
  <2>1. o.spec # Absent /\ o.spec.namespaceSelector = <<>>
      BY <1>3 DEF GlobalMatches, Known, GlobalKind
  <2>2. GlobalMatches(o, nsLabels)
      BY <1>3, <2>1 DEF GlobalMatches, calicoNamespaceSelectorMatches
  <2> QED
      BY <1>0, <1>2, <1>3, <2>2
<1> QED
    BY <1>0, <1>1, <1>2, <1>3 DEF Found

\* What says by itself that it is a neighbour is asked for and picked.
LEMMA ConcernedIsPicked ==
    ASSUME page \in Pages, NEW o, NEW n, Concerned(o, n)
    PROVE  /\ o.kind \in OwnKinds(page, pageLabels)
           /\ o.kind # GlobalKind => Picks(o)
           /\ o.kind = GlobalKind => GlobalMatches(o, n)
<1>1. CASE o.kind \in PolicyKinds /\ OfPods /\ AppliesTo(o, n)
  <2>1. CASE o.kind = GlobalKind
      BY <1>1, <2>1, GlobalApplies DEF OwnKinds, OfPods
  <2>2. CASE o.kind # GlobalKind
    <3>1. policyMatches(o, pageLabels)
        BY <1>1, <2>2, PolicyApplies
    <3>2. Picks(o)
        BY <1>1, <3>1 DEF Picks, OfPods
    <3> QED
        BY <1>1, <2>2, <3>2 DEF OwnKinds, OfPods
  <2> QED
      BY <2>1, <2>2
<1>2. CASE o.kind = "Service" /\ page = "Workload" /\ SelectsPods(o)
  <2>1. doesServiceMatchLabels(o, pageLabels)
      BY <1>2, ServiceSelects
  <2>2. DOMAIN pageLabels # {}
      BY <1>2 DEF SelectsPods
  <2> QED
      BY <1>2, <2>1, <2>2 DEF OwnKinds, Picks, GlobalKind
<1>3. CASE /\ o.kind \in Autoscalers /\ page = "Workload"
           /\ o.target.kind = "Workload" /\ o.target.name = It
    BY <1>3 DEF OwnKinds, Picks, Targets, Autoscalers, GlobalKind
<1>4. CASE o.kind = "EndpointSlice" /\ page = "Service" /\ o.service = It
    BY <1>4 DEF OwnKinds, Picks, GlobalKind
<1>5. CASE o.kind = "Ingress" /\ OfService /\ \E i \in DOMAIN o.backends : o.backends[i] = It
    BY <1>5 DEF OfService, OwnKinds, Picks, doesIngressUseService, GlobalKind
<1>6. CASE o.kind \in RouteKinds /\ OfService /\ RoutesTo(o)
    BY <1>6, RouteSelects DEF OfService, OwnKinds, Picks, RouteKinds, GlobalKind
<1> QED
    BY <1>1, <1>2, <1>3, <1>4, <1>5, <1>6 DEF Concerned

\* When the page is done, its own requests are settled.
LEMMA DoneIsSettled ==
    ASSUME Inv, Done, NEW k \in OwnKinds(page, pageLabels)
    PROVE  Settled(k)
<1>1. page \in Pages /\ step > Len(Reqs) /\ step \in Nat
    BY OwnRequestsShape DEF Inv, TypeOKNeighbours, Done, Reqs
<1>2. PICK i \in DOMAIN Reqs : Reqs[i] = k
    BY <1>1, OwnRequestsKinds DEF Reqs
<1>3. i < step
    BY <1>1, OwnRequestsShape DEF Reqs
<1> QED
    BY <1>2, <1>3 DEF Inv

LEMMA NeighbourIsNamed ==
    ASSUME Inv, Done, NEW o \in always, Known(o), AllTheTime(o)
    PROVE  IsNamed(o)
<1>0. /\ page \in Pages /\ more = {} /\ InReach(o) /\ nsLabels \in everNs
      /\ always \subseteq Objects
    BY DEF Inv, TypeOKNeighbours, AllTheTime, Done, Begun
<1>1. PICK s \in always : /\ \A n \in everNs : NeighbourBy(s, o, n)
                          /\ failed \cap Via(s, o) = {}
    BY DEF AllTheTime
<1>2. NeighbourBy(s, o, nsLabels)
    BY <1>0, <1>1
<1>3. CASE page = "Pod" /\ o.kind = "Service"
  <2>1. s.kind = "EndpointSlice" /\ InReach(s) /\ It \in s.targets /\ s.service = o.name
      BY <1>2, <1>3 DEF NeighbourBy
  <2>2. SliceOfPod(s)
      BY <1>0, <1>3, <2>1, NeighboursAssumption DEF SliceOfPod
  <2>3. ServiceOf(s) \in CalledFor({s})
      BY <1>3, <2>1, <2>2 DEF CalledFor
  <2>4. Listing("EndpointSlice") \notin failed /\ ServiceOf(s) \notin failed
      BY <1>1, <1>3, <2>1 DEF Via
  <2>5. Settled("EndpointSlice")
      BY <1>3, DoneIsSettled DEF OwnKinds
  <2>6. Heard(ServiceOf(s))
      BY <1>0, <2>1, <2>3, <2>4, <2>5 DEF Settled, Followed
  <2>7. ServiceOf(s).kind = "Service" /\ ServiceOf(s).name = o.name
      BY <2>1 DEF ServiceOf
  <2>8. Suits(o, ServiceOf(s)) /\ Picks(o)
      BY <1>0, <1>3, <2>7 DEF Suits, Picks
  <2> QED
      BY <2>4, <2>6, <2>8 DEF Heard
<1>4. CASE page = "Namespace"
  <2>1. /\ s.kind = "ConstraintTemplate" /\ s.declares = o.kind
        /\ gatekeeperConstraintMatchesNamespace(o, pageLabels)
      BY <1>2, <1>4 DEF NeighbourBy
  <2>2. o.kind # "" /\ o.kind \notin OtherKinds
      BY <1>0, <2>1, NeighboursAssumption
  <2>3. Listing(o.kind) \in CalledFor({s})
      BY <1>4, <2>1, <2>2 DEF CalledFor
  <2>4. Listing("ConstraintTemplate") \notin failed /\ Listing(o.kind) \notin failed
      BY <1>1, <1>4, <2>1 DEF Via
  <2>5. Settled("ConstraintTemplate")
      BY <1>4, DoneIsSettled DEF OwnKinds
  <2>6. InReach(s)
      BY <2>1 DEF InReach, Namespaced, RouteKinds, Autoscalers
  <2>7. Heard(Listing(o.kind))
      BY <1>0, <2>1, <2>3, <2>4, <2>5, <2>6 DEF Settled, Followed
  <2>8. Listing(o.kind).kind = o.kind /\ Listing(o.kind).name = ""
      BY DEF Listing
  <2>9. Suits(o, Listing(o.kind)) /\ Picks(o)
      BY <1>0, <1>4, <2>1, <2>2, <2>8 DEF Suits, Picks, OtherKinds
  <2> QED
      BY <2>4, <2>7, <2>9 DEF Heard
<1>5. CASE ~(page = "Pod" /\ o.kind = "Service") /\ page # "Namespace"
  <2>1. s = o /\ \A n \in everNs : Concerned(o, n)
      BY <1>0, <1>1, <1>5 DEF NeighbourBy
  <2>2. Listing(o.kind) \notin failed
      BY <1>1, <2>1 DEF Via
  <2>3. o.kind \in OwnKinds(page, pageLabels)
      BY <1>0, <2>1, ConcernedIsPicked
  <2>4. Settled(o.kind)
      BY <2>3, DoneIsSettled
  <2>5. CASE o.kind = GlobalKind
    <3>1. GlobalHeard(o)
        BY <2>2, <2>4, <2>5 DEF Settled
    <3>2. \A l \in everNs : GlobalMatches(o, l)
        BY <1>0, <2>1, <2>5, ConcernedIsPicked
    <3> QED
        BY <1>0, <3>1, <3>2 DEF GlobalHeard
  <2>6. CASE o.kind # GlobalKind
    <3>1. Picks(o)
        BY <1>0, <2>1, <2>6, ConcernedIsPicked
    <3>2. Listing(o.kind).kind = o.kind /\ Listing(o.kind).name = ""
        BY DEF Listing
    <3>3. Suits(o, Listing(o.kind))
        BY <1>0, <3>2 DEF Suits
    <3> QED
        BY <2>2, <2>4, <3>1, <3>3 DEF Settled, Heard
  <2> QED
      BY <2>5, <2>6
<1> QED
    BY <1>3, <1>4, <1>5

\* A page that is done names what was a neighbour at some moment, and leaves out
\* nothing that was all the time and could be found: PageWithinWindow.
THEOREM PageInWindow == Spec => []PageWithinWindow
<1>1. Inv => PageWithinWindow
  <2> SUFFICES ASSUME Inv, Done PROVE PageWithinWindow
      BY DEF PageWithinWindow
  <2>1. step > 0
      BY DEF Done, Begun
  <2>2. \A e \in named : Known(e.object) /\ ~SelectsAbsence(e.object) => Sometime(e.object)
      BY <2>1, NamedIsNeighbour
  <2>3. \A o \in always : Known(o) /\ AllTheTime(o) => \E e \in named : e.object = o
      BY NeighbourIsNamed DEF IsNamed
  <2> QED
      BY <2>2, <2>3 DEF PageWithinWindow
<1> QED
    BY <1>1, Invariant, PTL

\* The directions of the code are those that the policy restricts.
LEMMA DirectionsRestrict ==
    ASSUME NEW p, p.kind \in PolicyKinds, NEW d \in Directions
    PROVE  d \in directionsOf(p, pageLabels) <=> Restricts(p, d)
<1>1. CASE p.kind \in CiliumKinds
  <2>0. p.kind \notin {"NetworkPolicy"} \cup CalicoKinds
      BY <1>1 DEF CiliumKinds, CalicoKinds
  <2>1. directionsOf(p, pageLabels) = ciliumDirections(p.rules, pageLabels)
      BY <1>1, <2>0 DEF directionsOf
  <2>2. Restricts(p, d) <=> \E r \in p.rules : /\ selectorSelects(r.endpointSelector, pageLabels)
                                               /\ r.sections \cap Restricting(d) # {}
      BY <1>1, <2>0 DEF Restricts
  <2> QED
      BY <2>1, <2>2
         DEF ciliumDirections, DirectionsOfRules, ciliumMatchingRules, Restricting, Directions
<1>2. CASE p.kind \in {"NetworkPolicy"} \cup CalicoKinds
  <2>0. p.kind \notin CiliumKinds
      BY <1>2 DEF CiliumKinds, CalicoKinds
  <2>1. directionsOf(p, pageLabels) = policyTypesWithDefault(p.spec)
      BY <1>2, <2>0 DEF directionsOf
  <2>2. Restricts(p, d) <=>
            d \in p.spec.types \/ (p.spec.types = {} /\ (d = "ingress" \/ d \in p.spec.rules))
      BY <1>2, <2>0 DEF Restricts
  <2> QED
      BY <2>1, <2>2 DEF policyTypesWithDefault, Directions
<1>3. CASE p.kind \notin CiliumKinds /\ p.kind \notin {"NetworkPolicy"} \cup CalicoKinds
    BY <1>3 DEF directionsOf, Restricts
<1> QED
    BY <1>1, <1>2, <1>3

\* So what the page says of the traffic that a kind of policy restricts is what
\* the policies around the Pods say: DirectionsWithinWindow.
THEOREM DirectionsInWindow == Spec => []DirectionsWithinWindow
<1>1. Inv => DirectionsWithinWindow
  <2> SUFFICES ASSUME Inv, Done PROVE DirectionsWithinWindow
      BY DEF DirectionsWithinWindow
  <2>1. ASSUME NEW k \in PolicyKinds, NEW d \in Directions, ShownToRestrict(k, d)
        PROVE  \E p \in ever : p.kind = k /\ Restricts(p, d) /\ (Known(p) => Sometime(p))
    <3>1. PICK e \in named : e.object.kind = k /\ d \in directionsOf(e.object, pageLabels)
        BY <2>1 DEF ShownToRestrict
    <3>2. e.object \in ever /\ step > 0
        BY DEF Inv, Found, Done, Begun
    <3>3. Restricts(e.object, d)
        BY <3>1, DirectionsRestrict
    <3>4. ~SelectsAbsence(e.object)
        BY <3>1 DEF SelectsAbsence, PolicyKinds, CiliumKinds, CalicoKinds
    <3>5. Known(e.object) => Sometime(e.object)
        BY <3>2, <3>4, NamedIsNeighbour
    <3> QED
        BY <3>1, <3>2, <3>3, <3>5
  <2>2. ASSUME NEW k \in PolicyKinds, NEW d \in Directions,
               NEW p \in always, p.kind = k, Restricts(p, d), Known(p), AllTheTime(p)
        PROVE  ShownToRestrict(k, d)
    <3>1. PICK e \in named : e.object = p
        BY <2>2, NeighbourIsNamed DEF IsNamed
    <3>2. d \in directionsOf(p, pageLabels)
        BY <2>2, DirectionsRestrict
    <3> QED
        BY <2>2, <3>1, <3>2 DEF ShownToRestrict
  <2> QED
      BY <2>1, <2>2 DEF DirectionsWithinWindow
<1> QED
    BY <1>1, Invariant, PTL

=============================================================================
