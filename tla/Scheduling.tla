------------------------------- MODULE Scheduling -------------------------------
(***************************************************************************)
(* The claim "No NodePool can satisfy" on the page of a Pod that is not    *)
(* scheduled (karpenter.go, with the node selection of node_selector.go),  *)
(* while Karpenter launches nodes, and the pools are edited.               *)
(*                                                                         *)
(* Karpenter and the scheduler are external.  Karpenter launches a node    *)
(* with the labels of its pool and others that satisfy all of the pool's   *)
(* requirements; the scheduler binds the Pod to a node that fits.  The     *)
(* page knows only the requirements of the pools.                          *)
(***************************************************************************)
EXTENDS Integers, Sequences, FiniteSets

CONSTANTS
    Keys,           \* label keys, and the fields a node can be selected by
    Values,         \* values of labels and fields
    Number,         \* the integer a value is, or NaN
    NaN,
    PodSpecs,       \* the node selectors and affinities of Pods
    Pools,          \* the NodePools there may be
    Fields,         \* the fields of the nodes that may be launched
    Nothing,        \* no node, no report
    MaxNodes        \* bound on the nodes at a time

VARIABLES
    pod,            \* the node selector and affinity of the Pod
    bound,          \* the node the Pod runs on, or Nothing
    nodePools,      \* the NodePools
    nodes,          \* the nodes
    report,         \* what the last page says, or Nothing
    since,          \* history: those of the nodes launched since
    edited          \* history: was a NodePool edited since

vars == <<pod, bound, nodePools, nodes, report, since, edited>>

Operators == {"In", "NotIn", "Exists", "DoesNotExist", "Gt", "Lt"}

\* An entry of matchExpressions, of matchFields, or of a NodePool's requirements.
Requirement == [key : Keys, operator : Operators, values : SUBSET Values]

Labels == UNION {[K -> Values] : K \in SUBSET Keys}

Term    == [matchExpressions : SUBSET Requirement, matchFields : SUBSET Requirement]
PodSpec == [nodeSelector : Labels, terms : Seq(Term)]
Pool    == [labels : Labels, requirements : Seq(Requirement)]
Node    == [labels : Labels, fields : Labels]

ASSUME SchedulingAssumption ==
    /\ Number \in [Values -> Int \cup {NaN}]
    /\ NaN \notin Int
    /\ PodSpecs \subseteq PodSpec
    /\ Pools \subseteq Pool
    /\ Fields \subseteq Labels
    /\ MaxNodes \in Nat

-----------------------------------------------------------------------------
(* Node selection. *)

numericLess(a, b) == Number[a] \in Int /\ Number[b] \in Int /\ Number[a] < Number[b]

nodeSelectorRequirementMatches(expr, values) ==
    LET exists == expr.key \in DOMAIN values
        val    == values[expr.key]
    IN  \/ expr.operator = "In" /\ exists /\ val \in expr.values
        \/ expr.operator = "NotIn" /\ (exists => val \notin expr.values)
        \/ expr.operator = "Exists" /\ exists
        \/ expr.operator = "DoesNotExist" /\ ~exists
        \/ expr.operator = "Gt" /\ exists /\ \E v \in expr.values :
                                                expr.values = {v} /\ numericLess(v, val)
        \/ expr.operator = "Lt" /\ exists /\ \E v \in expr.values :
                                                expr.values = {v} /\ numericLess(val, v)

nodeSelectorTermMatches(term, nodeLabels, nodeFields) ==
    /\ \A e \in term.matchExpressions : nodeSelectorRequirementMatches(e, nodeLabels)
    /\ \A e \in term.matchFields : nodeSelectorRequirementMatches(e, nodeFields)

nodeSelectorTermsMatch(terms, nodeLabels, nodeFields) ==
    \/ terms = <<>>
    \/ \E i \in DOMAIN terms : nodeSelectorTermMatches(terms[i], nodeLabels, nodeFields)

\* An entry of nodeSelector as a requirement.
SelectorRequirement(nodeSelector, k) ==
    [key |-> k, operator |-> "In", values |-> {nodeSelector[k]}]

\* Mutation: the first of several alternative terms taken for a must.
FlattensAlternatives(p) ==
    {SelectorRequirement(p.nodeSelector, k) : k \in DOMAIN p.nodeSelector}
        \cup (IF Len(p.terms) >= 1 THEN p.terms[1].matchExpressions ELSE {})

\* What every node for the Pod must satisfy: several terms are alternatives,
\* and the fields of a node are no business of a NodePool.
podHardConstraintRequirements(p) ==
    {SelectorRequirement(p.nodeSelector, k) : k \in DOMAIN p.nodeSelector}
        \cup (IF Len(p.terms) = 1 THEN p.terms[1].matchExpressions ELSE {})

-----------------------------------------------------------------------------
(* The claim. *)

ValuesCompatible(poolReq, podReq) ==
    CASE podReq.operator = "In" /\ poolReq.operator = "In" ->
            podReq.values \cap poolReq.values # {}
      [] podReq.operator = "In" /\ poolReq.operator = "NotIn" ->
            ~(podReq.values \subseteq poolReq.values)
      [] podReq.operator = "NotIn" /\ poolReq.operator = "In" ->
            ~(poolReq.values \subseteq podReq.values)
      [] OTHER -> TRUE

\* The first of a pool's requirements on the key decides.
nodePoolCanPossiblySatisfy(requirements, podReq) ==
    LET OnKey == {i \in DOMAIN requirements : requirements[i].key = podReq.key}
    IN  /\ OnKey # {}
        /\ \A i \in OnKey : (\A j \in OnKey : i <= j)
                                => ValuesCompatible(requirements[i], podReq)

Unsatisfiable(podRequirements, pools) ==
    {r \in podRequirements :
        \A p \in pools : ~nodePoolCanPossiblySatisfy(p.requirements, r)}

karpenterUnsatisfiableKeys(podRequirements, pools) ==
    {r.key : r \in Unsatisfiable(podRequirements, pools)}

\* The keys of which the page with --deep gives the first for a pool.
karpenterDisqualifyingKeys(requirements, podRequirements) ==
    {r.key : r \in {q \in podRequirements : ~nodePoolCanPossiblySatisfy(requirements, q)}}

-----------------------------------------------------------------------------
(* Karpenter and the scheduler. *)

LaunchedBy(pool, n) ==
    /\ \A k \in DOMAIN pool.labels : k \in DOMAIN n.labels /\ n.labels[k] = pool.labels[k]
    /\ DOMAIN n.labels \subseteq DOMAIN pool.labels
                            \cup {pool.requirements[i].key : i \in DOMAIN pool.requirements}
    /\ \A i \in DOMAIN pool.requirements :
            nodeSelectorRequirementMatches(pool.requirements[i], n.labels)

Fits(p, n) ==
    /\ \A k \in DOMAIN p.nodeSelector :
            nodeSelectorRequirementMatches(SelectorRequirement(p.nodeSelector, k), n.labels)
    /\ nodeSelectorTermsMatch(p.terms, n.labels, n.fields)

-----------------------------------------------------------------------------
Init ==
    /\ pod \in PodSpecs
    /\ bound = Nothing
    /\ nodePools \in SUBSET Pools
    /\ nodes = {}
    /\ report = Nothing
    /\ since = {}
    /\ edited = FALSE

\* Mutation: the claim is made even if there is nothing to claim.
ClaimsNothing ==
    /\ bound = Nothing
    /\ \E seen \in {nodePools, {}} :
        LET podRequirements == podHardConstraintRequirements(pod)
            unsatisfiable   == karpenterUnsatisfiableKeys(podRequirements, seen)
        IN  report' = IF seen = {}
                        THEN Nothing
                        ELSE [keys |-> unsatisfiable,
                              reasons |-> [p \in seen |-> karpenterDisqualifyingKeys(
                                                            p.requirements, podRequirements)]]
    /\ since' = {}
    /\ edited' = FALSE
    /\ UNCHANGED <<pod, bound, nodePools, nodes>>

\* The page of the Pod.  A listing that fails looks like one without NodePools,
\* of which the page says nothing.
ReportPod ==
    /\ bound = Nothing
    /\ \E seen \in {nodePools, {}} :
        LET podRequirements == podHardConstraintRequirements(pod)
            unsatisfiable   == karpenterUnsatisfiableKeys(podRequirements, seen)
        IN  report' = IF seen = {} \/ podRequirements = {} \/ unsatisfiable = {}
                        THEN Nothing
                        ELSE [keys |-> unsatisfiable,
                              reasons |-> [p \in seen |-> karpenterDisqualifyingKeys(
                                                            p.requirements, podRequirements)]]
    /\ since' = {}
    /\ edited' = FALSE
    /\ UNCHANGED <<pod, bound, nodePools, nodes>>

Launch ==
    /\ bound = Nothing
    /\ Cardinality(nodes) < MaxNodes
    /\ \E pool \in nodePools, l \in Labels, f \in Fields :
        LET n == [labels |-> l, fields |-> f]
        IN  /\ LaunchedBy(pool, n)
            /\ nodes' = nodes \cup {n}
            /\ since' = since \cup {n}
    /\ UNCHANGED <<pod, bound, nodePools, report, edited>>

RemoveNode ==
    /\ \E n \in nodes \ {bound} : nodes' = nodes \ {n} /\ since' = since \ {n}
    /\ UNCHANGED <<pod, bound, nodePools, report, edited>>

Schedule ==
    /\ bound = Nothing
    /\ \E n \in nodes : Fits(pod, n) /\ bound' = n
    /\ UNCHANGED <<pod, nodePools, nodes, report, since, edited>>

EditPool ==
    /\ nodePools' \in SUBSET Pools
    /\ nodePools' # nodePools
    /\ edited' = TRUE
    /\ UNCHANGED <<pod, bound, nodes, report, since>>

Next == ReportPod \/ Launch \/ RemoveNode \/ Schedule \/ EditPool

Spec == Init /\ [][Next]_vars
-----------------------------------------------------------------------------
Report == [keys : (SUBSET Keys) \ {{}},
           reasons : UNION {[P -> SUBSET Keys] : P \in SUBSET Pools}]

\* The page, the cluster and its history are well formed; a claim names at
\* least one key.
TypeOKScheduling ==
    /\ pod \in PodSpecs
    /\ nodePools \in SUBSET Pools
    /\ nodes \in SUBSET Node /\ since \subseteq nodes
    /\ bound \in nodes \cup {Nothing}
    /\ report \in Report \cup {Nothing}
    /\ edited \in BOOLEAN

\* Nodes have the key only through a pool's requirement, and the Pod needs it.
RestsOnRequirements(k) ==
    /\ \A p \in nodePools : k \notin DOMAIN p.labels
    /\ \/ \A r \in podHardConstraintRequirements(pod) :
            r.key = k => r.operator \notin {"NotIn", "DoesNotExist"}
       \/ \A p \in nodePools : \E i \in DOMAIN p.requirements : p.requirements[i].key = k

\* "No NodePool can satisfy" is never said in vain of a key that nodes have
\* through the requirements of their pool: no node that is launched while the
\* pools stay as they are is one the Pod can run on, whatever alternatives its
\* affinity has (karpenter.go:7-14, node_selector.go:290-299).
ReportedBlocks ==
    report # Nothing /\ ~edited =>
        \A k \in report.keys : RestsOnRequirements(k) => \A n \in since : ~Fits(pod, n)

\* karpenter.go:12-14: "a false 'cannot satisfy' is the one output this package
\* must never produce".  A key no pool has a requirement on is claimed to rule
\* all of them out even where the Pod wants it absent, or excludes values.
NeverFalselyRuledOut ==
    report # Nothing /\ ~edited => \A n \in since : ~Fits(pod, n)

=============================================================================
