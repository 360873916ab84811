----------------------------- MODULE Matching_proof -----------------------------
(***************************************************************************)
(* Theorems about what selects, covers or equals what: about Scheduling,   *)
(* for any Pod, any NodePools and any labels; about Hostnames, for any     *)
(* names and hosts; about SelectorLanguage, for any text and any labels;   *)
(* and about CrossplaneDrift and DriftDocuments, for any documents.        *)
(***************************************************************************)
EXTENDS Scheduling, Matching, FiniteSetTheorems, WellFoundedInduction, SequenceTheorems, TLAPS

-----------------------------------------------------------------------------
(***************************************************************************)
(* Pods and NodePools.                                                     *)
(***************************************************************************)
\* While the pools are as the page saw them, its claim is about them, and the
\* nodes launched since come from them.
ClaimOfThesePoolsInv ==
    report # Nothing /\ ~edited =>
        /\ report.keys = karpenterUnsatisfiableKeys(podHardConstraintRequirements(pod), nodePools)
        /\ \A n \in since : \E p \in nodePools : LaunchedBy(p, n)

SchedulingInv == TypeOKScheduling /\ ClaimOfThesePoolsInv

-----------------------------------------------------------------------------
(***************************************************************************)
(* Types.                                                                  *)
(***************************************************************************)
LEMMA HardRequirementType ==
    ASSUME NEW p \in PodSpecs
    PROVE  podHardConstraintRequirements(p) \subseteq Requirement
<1>1. /\ p.nodeSelector \in Labels
      /\ p.terms \in Seq(Term)
  BY SchedulingAssumption DEF PodSpec
<1>2. ASSUME NEW k \in DOMAIN p.nodeSelector
      PROVE  SelectorRequirement(p.nodeSelector, k) \in Requirement
  <2>1. PICK K \in SUBSET Keys : p.nodeSelector \in [K -> Values]
    BY <1>1 DEF Labels
  <2>2. k \in Keys /\ p.nodeSelector[k] \in Values
    BY <2>1
  <2> QED
    BY <2>2 DEF SelectorRequirement, Requirement, Operators
<1>3. Len(p.terms) = 1 => p.terms[1] \in Term
  BY <1>1
<1> QED
  BY <1>2, <1>3 DEF podHardConstraintRequirements, Term

\* The keys that no pool can satisfy are keys.
LEMMA UnsatisfiableKeysType ==
    ASSUME NEW p \in PodSpecs, NEW pools
    PROVE  karpenterUnsatisfiableKeys(podHardConstraintRequirements(p), pools) \in SUBSET Keys
BY HardRequirementType DEF karpenterUnsatisfiableKeys, Unsatisfiable, Requirement

\* So are those that disqualify a pool.
LEMMA DisqualifyingKeysType ==
    ASSUME NEW p \in PodSpecs, NEW requirements
    PROVE  karpenterDisqualifyingKeys(requirements, podHardConstraintRequirements(p))
                \in SUBSET Keys
BY HardRequirementType DEF karpenterDisqualifyingKeys, Requirement

-----------------------------------------------------------------------------
(***************************************************************************)
(* What is flattened is what every node for the Pod satisfies.             *)
(***************************************************************************)
LEMMA HardRequirementsAreHard ==
    ASSUME NEW p, NEW n, Fits(p, n), p.terms \in Seq(Term),
           NEW r \in podHardConstraintRequirements(p)
    PROVE  nodeSelectorRequirementMatches(r, n.labels)
<1>1. CASE r \in {SelectorRequirement(p.nodeSelector, k) : k \in DOMAIN p.nodeSelector}
  BY <1>1 DEF Fits
<1>2. CASE Len(p.terms) = 1 /\ r \in p.terms[1].matchExpressions
  <2>1. p.terms # <<>> /\ DOMAIN p.terms = {1}
    BY <1>2
  <2>2. nodeSelectorTermMatches(p.terms[1], n.labels, n.fields)
    BY <2>1 DEF Fits, nodeSelectorTermsMatch
  <2> QED
    BY <1>2, <2>2 DEF nodeSelectorTermMatches
<1> QED
  BY <1>1, <1>2 DEF podHardConstraintRequirements

(***************************************************************************)
(* A pool that fails a requirement launches no node that satisfies it, if  *)
(* the pool has a requirement on the key, or the Pod needs the key and the *)
(* pool does not set it as a label.                                        *)
(***************************************************************************)
LEMMA FailingPoolLaunchesNone ==
    ASSUME NEW pool \in Pool, NEW n \in Node, LaunchedBy(pool, n),
           NEW r \in Requirement,
           ~nodePoolCanPossiblySatisfy(pool.requirements, r),
           \/ \E i \in DOMAIN pool.requirements : pool.requirements[i].key = r.key
           \/ r.key \notin DOMAIN pool.labels /\ r.operator \notin {"NotIn", "DoesNotExist"}
    PROVE  ~nodeSelectorRequirementMatches(r, n.labels)
<1> DEFINE OnKey == {i \in DOMAIN pool.requirements : pool.requirements[i].key = r.key}
<1>1. CASE OnKey = {}
  <2>1. r.key \notin DOMAIN n.labels
    BY <1>1 DEF LaunchedBy
  <2>2. r.operator \notin {"NotIn", "DoesNotExist"}
    BY <1>1
  <2> QED
    BY <2>1, <2>2 DEF nodeSelectorRequirementMatches
<1>2. CASE OnKey # {}
  <2>1. PICK i \in OnKey : ~ValuesCompatible(pool.requirements[i], r)
    BY <1>2 DEF nodePoolCanPossiblySatisfy
  <2> DEFINE q == pool.requirements[i]
  <2>2. q.key = r.key /\ nodeSelectorRequirementMatches(q, n.labels)
    BY <2>1 DEF LaunchedBy
  <2>3. \/ r.operator = "In" /\ q.operator = "In" /\ r.values \cap q.values = {}
        \/ r.operator = "In" /\ q.operator = "NotIn" /\ r.values \subseteq q.values
        \/ r.operator = "NotIn" /\ q.operator = "In" /\ q.values \subseteq r.values
    BY <2>1 DEF ValuesCompatible
  <2> HIDE DEF q
  <2> QED
    BY <2>2, <2>3 DEF nodeSelectorRequirementMatches
<1> QED
  BY <1>1, <1>2

-----------------------------------------------------------------------------
(***************************************************************************)
(* The invariant.                                                          *)
(***************************************************************************)
LEMMA InitScheduling == Init => SchedulingInv
BY DEF Init, SchedulingInv, TypeOKScheduling, ClaimOfThesePoolsInv

\* Every step keeps the invariant.
LEMMA NextScheduling == SchedulingInv /\ [Next]_vars => SchedulingInv'
<1> SUFFICES ASSUME SchedulingInv, [Next]_vars
             PROVE  SchedulingInv'
  OBVIOUS
<1> USE DEF SchedulingInv, TypeOKScheduling, ClaimOfThesePoolsInv
<1>1. CASE ReportPod
  <2>1. PICK seen \in {nodePools, {}} :
          report' = IF seen = {} \/ podHardConstraintRequirements(pod) = {}
                          \/ karpenterUnsatisfiableKeys(podHardConstraintRequirements(pod), seen) = {}
                      THEN Nothing
                      ELSE [keys |-> karpenterUnsatisfiableKeys(
                                        podHardConstraintRequirements(pod), seen),
                            reasons |-> [p \in seen |-> karpenterDisqualifyingKeys(
                                          p.requirements, podHardConstraintRequirements(pod))]]
    BY <1>1 DEF ReportPod
  <2>2. UNCHANGED <<pod, bound, nodePools, nodes>> /\ since' = {} /\ edited' = FALSE
    BY <1>1 DEF ReportPod
  <2>3. CASE report' = Nothing
    BY <2>2, <2>3
  <2>4. CASE report' # Nothing
    <3>1. seen = nodePools
      BY <2>1, <2>4
    <3>2. report' = [keys |-> karpenterUnsatisfiableKeys(
                                podHardConstraintRequirements(pod), nodePools),
                     reasons |-> [p \in nodePools |-> karpenterDisqualifyingKeys(
                                    p.requirements, podHardConstraintRequirements(pod))]]
      BY <2>1, <2>4, <3>1
    <3>3. karpenterUnsatisfiableKeys(podHardConstraintRequirements(pod), nodePools) # {}
      BY <2>1, <2>4, <3>1
    <3>4. [p \in nodePools |-> karpenterDisqualifyingKeys(
              p.requirements, podHardConstraintRequirements(pod))] \in [nodePools -> SUBSET Keys]
      BY DisqualifyingKeysType
    <3>5. report' \in Report
      <4> DEFINE keys    == karpenterUnsatisfiableKeys(podHardConstraintRequirements(pod), nodePools)
                 reasons == [p \in nodePools |-> karpenterDisqualifyingKeys(
                                p.requirements, podHardConstraintRequirements(pod))]
      <4>1. keys \in (SUBSET Keys) \ {{}}
        BY <3>3, UnsatisfiableKeysType
      <4>2. reasons \in UNION {[P -> SUBSET Keys] : P \in SUBSET Pools}
        BY <3>4
      <4>3. report' = [keys |-> keys, reasons |-> reasons]
        BY <3>2
      <4> HIDE DEF keys, reasons
      <4> QED
        BY <4>1, <4>2, <4>3 DEF Report
    <3> QED
      BY <2>2, <3>2, <3>5
  <2> QED
    BY <2>3, <2>4
<1>2. CASE Launch
  <2>1. PICK pool \in nodePools, l \in Labels, f \in Fields :
          /\ LaunchedBy(pool, [labels |-> l, fields |-> f])
          /\ nodes' = nodes \cup {[labels |-> l, fields |-> f]}
          /\ since' = since \cup {[labels |-> l, fields |-> f]}
    BY <1>2 DEF Launch
  <2>2. [labels |-> l, fields |-> f] \in Node
    BY SchedulingAssumption DEF Node
  <2>3. UNCHANGED <<pod, bound, nodePools, report, edited>>
    BY <1>2 DEF Launch
  <2> QED
    BY <2>1, <2>2, <2>3
<1>3. CASE RemoveNode
  BY <1>3 DEF RemoveNode
<1>4. CASE Schedule
  BY <1>4 DEF Schedule
<1>5. CASE EditPool
  BY <1>5 DEF EditPool
<1>6. CASE UNCHANGED vars
  BY <1>6 DEF vars
<1> QED
  BY <1>1, <1>2, <1>3, <1>4, <1>5, <1>6 DEF Next

\* The page, the cluster and its history are well formed.
THEOREM SchedulingTyped == Spec => []TypeOKScheduling
BY InitScheduling, NextScheduling, PTL DEF Spec, SchedulingInv

(***************************************************************************)
(* The claim is sound.                                                     *)
(***************************************************************************)
LEMMA ClaimIsSound == SchedulingInv => ReportedBlocks
<1> SUFFICES ASSUME SchedulingInv, report # Nothing, ~edited,
                    NEW k \in report.keys, RestsOnRequirements(k),
                    NEW n \in since, Fits(pod, n)
             PROVE  FALSE
  BY DEF ReportedBlocks
<1>1. pod \in PodSpecs /\ nodePools \subseteq Pool /\ n \in Node
  BY SchedulingAssumption DEF SchedulingInv, TypeOKScheduling
<1>2. PICK pool \in nodePools : LaunchedBy(pool, n)
  BY DEF SchedulingInv, ClaimOfThesePoolsInv
<1>3. PICK r \in podHardConstraintRequirements(pod) :
        r.key = k /\ ~nodePoolCanPossiblySatisfy(pool.requirements, r)
  BY DEF SchedulingInv, ClaimOfThesePoolsInv, karpenterUnsatisfiableKeys, Unsatisfiable
<1>4. r \in Requirement
  BY <1>1, HardRequirementType
<1>5. nodeSelectorRequirementMatches(r, n.labels)
  <2>1. pod.terms \in Seq(Term)
    BY <1>1, SchedulingAssumption DEF PodSpec
  <2> QED
    BY <2>1, HardRequirementsAreHard
<1>6. \/ \E i \in DOMAIN pool.requirements : pool.requirements[i].key = r.key
      \/ r.key \notin DOMAIN pool.labels /\ r.operator \notin {"NotIn", "DoesNotExist"}
  BY <1>3 DEF RestsOnRequirements
<1> QED
  BY <1>1, <1>2, <1>3, <1>4, <1>5, <1>6, FailingPoolLaunchesNone

\* "No NodePool can satisfy" is sound, for any Pod and any pools: no node the
\* Pod fits is launched while the pools stay as the page saw them, as far as
\* nodes have the key through the requirements of their pool.
THEOREM ClaimsSound == Spec => []ReportedBlocks
<1>1. Spec => []SchedulingInv
  BY InitScheduling, NextScheduling, PTL DEF Spec
<1> QED
  BY <1>1, ClaimIsSound, PTL

-----------------------------------------------------------------------------
(***************************************************************************)
(* Suffixes, and the hosts that patterns accept and cover.                 *)
(***************************************************************************)

\* A strict suffix, by its elements.
LEMMA SuffixElts ==
  ASSUME NEW S, NEW s \in Seq(S), NEW t \in Seq(S)
  PROVE  IsStrictSuffix(s, t) <=>
           /\ Len(s) < Len(t)
           /\ \A i \in 1..Len(s) : s[i] = t[i + (Len(t) - Len(s))]
<1> DEFINE n == Len(s)  m == Len(t) r == Reverse(s) q == Reverse(t)
<1>1. n \in Nat /\ m \in Nat
  OBVIOUS
<1>2. /\ r \in Seq(S) /\ q \in Seq(S) /\ Len(r) = n /\ Len(q) = m
      /\ \A i \in 1..n : r[i] = s[n - i + 1]
      /\ \A i \in 1..m : q[i] = t[m - i + 1]
  BY DEF Reverse
<1> HIDE DEF r, q
<1>3. IsPrefix(r, q) <=> n <= m /\ \A i \in 1..n : r[i] = q[i]
  <2>1. CASE n <= m
    <3>1. /\ SubSeq(r, 1, n) \in Seq(S) /\ Len(SubSeq(r, 1, n)) = n
          /\ \A i \in 1..n : SubSeq(r, 1, n)[i] = r[i]
      BY <1>1, <1>2, <2>1, SubSeqProperties
    <3>2. /\ SubSeq(q, 1, n) \in Seq(S) /\ Len(SubSeq(q, 1, n)) = n
          /\ \A i \in 1..n : SubSeq(q, 1, n)[i] = q[i]
      BY <1>1, <1>2, <2>1, SubSeqProperties
    <3>3. SubSeq(r, 1, n) = SubSeq(q, 1, n) <=> \A i \in 1..n : r[i] = q[i]
      BY <3>1, <3>2, SeqEqual
    <3> QED BY <3>3, <1>2, <2>1 DEF IsPrefix
  <2>2. CASE ~(n <= m)
    BY <1>2, <2>2 DEF IsPrefix
  <2> QED BY <2>1, <2>2
<1>4. (\A i \in 1..n : r[i] = q[i]) /\ n <= m => \A i \in 1..n : s[i] = t[i + (m - n)]
  <2> SUFFICES ASSUME \A i \in 1..n : r[i] = q[i], n <= m, NEW i \in 1..n PROVE s[i] = t[i + (m - n)]
    OBVIOUS
  <2>1. n - i + 1 \in 1..n /\ n - i + 1 \in 1..m /\ n - (n - i + 1) + 1 = i /\ m - (n - i + 1) + 1 = i + (m - n)
    BY <1>1
  <2> QED BY <1>2, <2>1
<1>5. (\A i \in 1..n : s[i] = t[i + (m - n)]) /\ n <= m => \A i \in 1..n : r[i] = q[i]
  <2> SUFFICES ASSUME \A i \in 1..n : s[i] = t[i + (m - n)], n <= m, NEW i \in 1..n PROVE r[i] = q[i]
    OBVIOUS
  <2>1. n - i + 1 \in 1..n /\ i \in 1..m /\ (n - i + 1) + (m - n) = m - i + 1
    BY <1>1
  <2> QED BY <1>2, <2>1
<1>6. n = m => (s = t <=> \A i \in 1..n : s[i] = t[i])
  BY SeqEqual
<1>7. IsStrictSuffix(s, t) <=> n <= m /\ (\A i \in 1..n : s[i] = t[i + (m - n)]) /\ s # t
  BY <1>3, <1>4, <1>5 DEF IsStrictSuffix, IsSuffix, r, q
<1>8. n = m => \A i \in 1..n : i + (m - n) = i
  BY <1>1
<1> QED
  BY <1>1, <1>6, <1>7, <1>8

\* Of two names that are above the same host, one is above the other.
LEMMA SuffixesCompare ==
    ASSUME NEW S, NEW s \in Seq(S), NEW t \in Seq(S), NEW h \in Seq(S),
           IsStrictSuffix(s, h), IsStrictSuffix(t, h)
    PROVE  \/ Len(s) = Len(t) /\ s = t
           \/ Len(s) < Len(t) /\ IsStrictSuffix(s, t)
           \/ Len(t) < Len(s) /\ IsStrictSuffix(t, s)
<1>1. \A x \in Seq(S) : Len(x) \in Nat
  OBVIOUS
<1>2. \A x, y \in Seq(S) :
        IsStrictSuffix(x, h) /\ IsStrictSuffix(y, h) /\ Len(x) <= Len(y) =>
            \A i \in 1..Len(x) : x[i] = y[i + (Len(y) - Len(x))]
  <2> SUFFICES ASSUME NEW x \in Seq(S), NEW y \in Seq(S), IsStrictSuffix(x, h), IsStrictSuffix(y, h),
                      Len(x) <= Len(y), NEW i \in 1..Len(x)
               PROVE  x[i] = y[i + (Len(y) - Len(x))]
    OBVIOUS
  <2> DEFINE n == Len(x)  m == Len(y)  k == Len(h)  j == i + (m - n)
  <2>1. n \in Nat /\ m \in Nat /\ k \in Nat /\ n <= m /\ n < k /\ m < k
    BY <1>1, SuffixElts
  <2>2. x[i] = h[i + (k - n)]
    BY SuffixElts
  <2>3. j \in 1..m /\ j + (k - m) = i + (k - n)
    BY <2>1
  <2>4. y[j] = h[j + (k - m)]
    BY <2>3, SuffixElts
  <2> QED
    BY <2>2, <2>3, <2>4
<1>3. CASE Len(s) = Len(t)
  <2>1. \A i \in 1..Len(s) : i + (Len(t) - Len(s)) = i
    BY <1>1, <1>3
  <2> QED
    BY <1>2, <1>3, <2>1, <1>1, SeqEqual
<1>4. CASE Len(s) < Len(t)
  BY <1>2, <1>4, <1>1, SuffixElts
<1>5. CASE Len(t) < Len(s)
  BY <1>2, <1>5, <1>1, SuffixElts
<1> QED
  BY <1>1, <1>3, <1>4, <1>5

\* What is above a name is above what is below it.
LEMMA SuffixTransitive ==
    ASSUME NEW S, NEW s \in Seq(S), NEW t \in Seq(S), NEW h \in Seq(S),
           IsStrictSuffix(s, t), IsStrictSuffix(t, h)
    PROVE  IsStrictSuffix(s, h)
<1>1. Len(s) \in Nat /\ Len(t) \in Nat /\ Len(h) \in Nat /\ Len(s) < Len(t) /\ Len(t) < Len(h)
  BY SuffixElts
<1>2. ASSUME NEW i \in 1..Len(s)
      PROVE  s[i] = h[i + (Len(h) - Len(s))]
  <2> DEFINE j == i + (Len(t) - Len(s))
  <2>1. j \in 1..Len(t) /\ j + (Len(h) - Len(t)) = i + (Len(h) - Len(s))
    BY <1>1
  <2>2. s[i] = t[j]
    BY SuffixElts
  <2>3. t[j] = h[j + (Len(h) - Len(t))]
    BY <2>1, SuffixElts
  <2> QED
    BY <2>1, <2>2, <2>3
<1> QED
  BY <1>1, <1>2, SuffixElts

\* A name is one label below another if that is its rest.
LEMMA OneLabelDown ==
    ASSUME NEW S, NEW s \in Seq(S), NEW h \in Seq(S)
    PROVE  IsStrictSuffix(s, h) /\ Len(h) = Len(s) + 1 <=> h # <<>> /\ Tail(h) = s
<1>1. Len(s) \in Nat /\ Len(h) \in Nat
  OBVIOUS
<1>2. CASE h # <<>> /\ Len(h) = Len(s) + 1
  <2>1. /\ Tail(h) \in Seq(S) /\ Len(Tail(h)) = Len(s)
        /\ \A i \in 1..Len(s) : Tail(h)[i] = h[i + 1]
    BY <1>1, <1>2
  <2>2. Tail(h) = s <=> \A i \in 1..Len(s) : Tail(h)[i] = s[i]
    BY <2>1, SeqEqual
  <2>3. Len(h) - Len(s) = 1 /\ Len(s) < Len(h)
    BY <1>1, <1>2
  <2>4. IsStrictSuffix(s, h) <=> \A i \in 1..Len(s) : s[i] = h[i + 1]
    BY <2>3, SuffixElts
  <2> QED
    BY <1>2, <2>1, <2>2, <2>4
<1>3. Len(h) = Len(s) + 1 => h # <<>>
  BY <1>1
<1>4. h # <<>> /\ Tail(h) = s => Len(h) = Len(s) + 1
  OBVIOUS
<1> QED
  BY <1>2, <1>3, <1>4

\* A name with another label before it is one label down.
LEMMA LabelBefore ==
    ASSUME NEW S, NEW s \in Seq(S), NEW l \in S
    PROVE  /\ <<l>> \o s \in Seq(S)
           /\ IsStrictSuffix(s, <<l>> \o s)
           /\ Len(<<l>> \o s) = Len(s) + 1
<1> DEFINE h == <<l>> \o s
<1>1. /\ Len(s) \in Nat /\ h \in Seq(S) /\ Len(h) = Len(s) + 1
      /\ \A i \in 1..Len(s) : h[i + 1] = s[i]
  OBVIOUS
<1> HIDE DEF h
<1>2. h # <<>>
  BY <1>1
<1>3. /\ Tail(h) \in Seq(S) /\ Len(Tail(h)) = Len(s)
      /\ \A i \in 1..Len(s) : Tail(h)[i] = h[i + 1]
  BY <1>1, <1>2
<1>4. Tail(h) = s
  BY <1>1, <1>3, SeqEqual
<1>5. IsStrictSuffix(s, h) /\ Len(h) = Len(s) + 1
  BY <1>1, <1>2, <1>4, OneLabelDown
<1> QED
  BY <1>1, <1>5 DEF h

\* A pattern's parts.
LEMMA PatternType ==
    ASSUME NEW p \in Patterns
    PROVE  p.wildcard \in BOOLEAN /\ p.name \in Names /\ p.name \in Seq(DnsLabels)
BY HostsAssumption DEF Patterns

\* Two patterns accept together what the narrower of them does.
LEMMA NarrowerAccepts ==
    ASSUME NEW a \in Patterns, NEW b \in Patterns
    PROVE  /\ narrowerHostname(a, b) \subseteq {a, b}
           /\ Accepts(a) \cap Accepts(b) = UNION {Accepts(p) : p \in narrowerHostname(a, b)}
<1> DEFINE Under(s, h) == IsStrictSuffix(s, h)
<1>1. /\ a.wildcard \in BOOLEAN /\ a.name \in Seq(DnsLabels)
      /\ b.wildcard \in BOOLEAN /\ b.name \in Seq(DnsLabels)
      /\ Hosts \subseteq Seq(DnsLabels)
  BY PatternType, HostsAssumption
<1>2. /\ a = [wildcard |-> a.wildcard, name |-> a.name]
      /\ b = [wildcard |-> b.wildcard, name |-> b.name]
  BY DEF Patterns
<1>3. narrowerHostname(a, b) \subseteq {a, b}
  BY DEF narrowerHostname
<1>4. ASSUME NEW h \in Hosts
      PROVE  /\ Under(a.name, h) /\ Under(b.name, h) =>
                    a.name = b.name \/ Under(a.name, b.name) \/ Under(b.name, a.name)
             /\ Under(a.name, b.name) /\ Under(b.name, h) => Under(a.name, h)
             /\ Under(b.name, a.name) /\ Under(a.name, h) => Under(b.name, h)
  BY <1>1, SuffixesCompare, SuffixTransitive
<1>5. \A h : h \in UNION {Accepts(p) : p \in narrowerHostname(a, b)} <=>
             \E p \in narrowerHostname(a, b) : h \in Accepts(p)
  OBVIOUS
<1>6. \A p \in {a, b} : \A h : h \in Accepts(p) <=>
            h \in Hosts /\ (IF p.wildcard THEN Under(p.name, h) ELSE h = p.name)
  BY DEF Accepts
<1>7. ASSUME NEW h
      PROVE  h \in Accepts(a) /\ h \in Accepts(b) <=>
                \E p \in narrowerHostname(a, b) : h \in Accepts(p)
  <2> HIDE DEF Under
  <2>1. CASE ~a.wildcard /\ ~b.wildcard
    <3>1. narrowerHostname(a, b) = IF a.name = b.name THEN {a} ELSE {}
      BY <2>1 DEF narrowerHostname
    <3> QED
      BY <2>1, <3>1, <1>6
  <2>2. CASE a.wildcard /\ ~b.wildcard
    <3>1. narrowerHostname(a, b) = IF Under(a.name, b.name) THEN {b} ELSE {}
      BY <2>2 DEF narrowerHostname, hostnameUnder, Under
    <3> QED
      BY <2>2, <3>1, <1>6
  <2>3. CASE ~a.wildcard /\ b.wildcard
    <3>1. narrowerHostname(a, b) = IF Under(b.name, a.name) THEN {a} ELSE {}
      BY <2>3 DEF narrowerHostname, hostnameUnder, Under
    <3>2. h \in Accepts(a) <=> h \in Hosts /\ h = a.name
      BY <2>3, <1>6
    <3>3. h \in Accepts(b) <=> h \in Hosts /\ Under(b.name, h)
      BY <2>3, <1>6
    <3> QED
      BY <3>1, <3>2, <3>3
  <2>4. CASE a.wildcard /\ b.wildcard
    <3>1. narrowerHostname(a, b) =
            IF a.name = b.name \/ Under(b.name, a.name) THEN {a}
            ELSE IF Under(a.name, b.name) THEN {b} ELSE {}
      BY <2>4 DEF narrowerHostname, hostnameUnder, Under
    <3>2. h \in Accepts(a) <=> h \in Hosts /\ Under(a.name, h)
      BY <2>4, <1>6
    <3>3. h \in Accepts(b) <=> h \in Hosts /\ Under(b.name, h)
      BY <2>4, <1>6
    <3> QED
      BY <1>4, <3>1, <3>2, <3>3
  <2> QED
    BY <1>1, <2>1, <2>2, <2>3, <2>4
<1> QED
  BY <1>3, <1>5, <1>7

\* Every pattern accepts some host.
LEMMA AcceptsSome ==
    ASSUME NEW p \in Patterns
    PROVE  Accepts(p) # {}
<1>1. PICK l \in DnsLabels : <<l>> \o p.name \in Hosts
  BY PatternType, HostsAssumption
<1>2. p.name \in Hosts /\ p.name \in Seq(DnsLabels)
  BY PatternType, HostsAssumption
<1>3. IsStrictSuffix(p.name, <<l>> \o p.name)
  BY <1>2, LabelBefore
<1> QED
  BY <1>1, <1>2, <1>3 DEF Accepts

\* A name of a certificate serves a hostname.
Serves(certName, hostname) ==
    IF hostname.wildcard THEN certNameIntersectsWildcard(certName, hostname.name)
    ELSE certNameCoversHost(certName, hostname.name)

\* It serves a hostname if and only if it covers a host that the hostname accepts.
LEMMA ServesIsOverlap ==
    ASSUME NEW c \in Patterns, NEW p \in Patterns
    PROVE  Serves(c, p) <=> Covers(c) \cap Accepts(p) # {}
<1>1. /\ c.wildcard \in BOOLEAN /\ c.name \in Seq(DnsLabels) /\ c.name \in Hosts
      /\ p.wildcard \in BOOLEAN /\ p.name \in Seq(DnsLabels) /\ p.name \in Hosts
      /\ Hosts \subseteq Seq(DnsLabels)
  BY PatternType, HostsAssumption
<1>2. CASE ~p.wildcard
  <2>1. Accepts(p) = {p.name}
    BY <1>1, <1>2 DEF Accepts
  <2>2. Serves(c, p) <=>
            IF c.wildcard THEN p.name # <<>> /\ Tail(p.name) = c.name ELSE p.name = c.name
    BY <1>2 DEF Serves, certNameCoversHost
  <2>3. p.name \in Covers(c) <=>
            IF c.wildcard THEN IsStrictSuffix(c.name, p.name) /\ Len(p.name) = Len(c.name) + 1
            ELSE p.name = c.name
    BY <1>1 DEF Covers
  <2>4. IsStrictSuffix(c.name, p.name) /\ Len(p.name) = Len(c.name) + 1 <=>
            p.name # <<>> /\ Tail(p.name) = c.name
    <3>1. \A n, h \in Seq(DnsLabels) :
            IsStrictSuffix(n, h) /\ Len(h) = Len(n) + 1 <=> h # <<>> /\ Tail(h) = n
      BY OneLabelDown
    <3> QED
      BY <1>1, <3>1, Zenon
  <2>5. Serves(c, p) <=> p.name \in Covers(c)
    BY <2>2, <2>3, <2>4, Zenon
  <2> QED
    BY <2>1, <2>5
<1>3. CASE p.wildcard /\ ~c.wildcard
  <2>1. Covers(c) = {c.name}
    BY <1>1, <1>3 DEF Covers
  <2>2. Serves(c, p) <=> IsStrictSuffix(p.name, c.name)
    BY <1>3 DEF Serves, certNameIntersectsWildcard, hostnameUnder
  <2>3. c.name \in Accepts(p) <=> IsStrictSuffix(p.name, c.name)
    BY <1>1, <1>3 DEF Accepts
  <2> QED
    BY <2>1, <2>2, <2>3
<1>4. CASE p.wildcard /\ c.wildcard
  <2>1. Serves(c, p) <=> c.name = p.name \/ IsStrictSuffix(p.name, c.name)
    BY <1>4 DEF Serves, certNameIntersectsWildcard, hostnameUnder
  <2>2. \A h : h \in Covers(c) \cap Accepts(p) <=>
                 /\ h \in Hosts
                 /\ IsStrictSuffix(c.name, h) /\ Len(h) = Len(c.name) + 1
                 /\ IsStrictSuffix(p.name, h)
    BY <1>4 DEF Covers, Accepts
  <2>3. ASSUME c.name = p.name \/ IsStrictSuffix(p.name, c.name)
        PROVE  Covers(c) \cap Accepts(p) # {}
    <3>1. PICK l \in DnsLabels : <<l>> \o c.name \in Hosts
      BY PatternType, HostsAssumption
    <3>2. /\ <<l>> \o c.name \in Seq(DnsLabels)
          /\ IsStrictSuffix(c.name, <<l>> \o c.name)
          /\ Len(<<l>> \o c.name) = Len(c.name) + 1
      BY <1>1, LabelBefore
    <3>3. PICK h \in Seq(DnsLabels) : h \in Hosts /\ IsStrictSuffix(c.name, h) /\ Len(h) = Len(c.name) + 1
      BY <3>1, <3>2, Zenon
    <3>4. IsStrictSuffix(p.name, h)
      BY <1>1, <2>3, <3>3, SuffixTransitive
    <3> QED
      BY <2>2, <3>3, <3>4
  <2>4. ASSUME NEW h \in Covers(c) \cap Accepts(p)
        PROVE  c.name = p.name \/ IsStrictSuffix(p.name, c.name)
    <3>1. /\ h \in Seq(DnsLabels) /\ IsStrictSuffix(c.name, h) /\ Len(h) = Len(c.name) + 1
          /\ IsStrictSuffix(p.name, h)
      BY <1>1, <2>2, <2>4
    <3>2. Len(p.name) < Len(c.name) + 1
      BY <1>1, <3>1, SuffixElts
    <3>3. Len(p.name) \in Nat /\ Len(c.name) \in Nat
      BY <1>1
    <3> QED
      BY <1>1, <3>1, <3>2, <3>3, SuffixesCompare
  <2> QED
    BY <2>1, <2>3, <2>4
<1> QED
  BY <1>1, <1>2, <1>3, <1>4

\* No hostname accepts every host; a route's hostnames accept some.
LEMMA AcceptsAnySome ==
    ASSUME NEW patterns \in SUBSET Patterns
    PROVE  AcceptsAny(patterns) # {}
<1>1. CASE patterns = {}
  BY <1>1, HostsAssumption DEF AcceptsAny
<1>2. CASE patterns # {}
  <2>1. PICK p \in patterns : Accepts(p) # {}
    BY <1>2, AcceptsSome
  <2>2. AcceptsAny(patterns) = UNION {Accepts(q) : q \in patterns}
    BY <1>2 DEF AcceptsAny
  <2> QED
    BY <2>1, <2>2
<1> QED
  BY <1>1, <1>2

\* What a listener and a route serve together: the hosts of both.
LEMMA IntersectionAccepts ==
    ASSUME NEW listener \in SUBSET Patterns, NEW route \in SUBSET Patterns
    PROVE  LET both   == hostnameIntersections(listener, route)
               served == AcceptsAny(listener) \cap AcceptsAny(route)
           IN  /\ both \in SUBSET Patterns
               /\ route # {} => served = UNION {Accepts(p) : p \in both}
<1> DEFINE both == hostnameIntersections(listener, route)
<1>1. CASE route = {}
  BY <1>1 DEF hostnameIntersections
<1>2. CASE route # {} /\ listener = {}
  <2>1. both = route
    BY <1>2 DEF hostnameIntersections
  <2>2. AcceptsAny(listener) = Hosts
    BY <1>2 DEF AcceptsAny
  <2>3. AcceptsAny(route) = UNION {Accepts(p) : p \in route}
    BY <1>2 DEF AcceptsAny
  <2>4. AcceptsAny(route) \subseteq Hosts
    BY <2>3 DEF Accepts
  <2> QED
    BY <2>1, <2>2, <2>3, <2>4
<1>3. CASE route # {} /\ listener # {}
  <2>1. both = UNION {narrowerHostname(l, r) : l \in listener, r \in route}
    BY <1>3 DEF hostnameIntersections
  <2>2. both \in SUBSET Patterns
    BY <2>1, NarrowerAccepts
  <2>3. \A h : h \in AcceptsAny(listener) <=> \E l \in listener : h \in Accepts(l)
    BY <1>3 DEF AcceptsAny
  <2>4. \A h : h \in AcceptsAny(route) <=> \E r \in route : h \in Accepts(r)
    BY <1>3 DEF AcceptsAny
  <2>5. \A l \in listener, r \in route : \A h :
            h \in Accepts(l) /\ h \in Accepts(r) <=> \E p \in narrowerHostname(l, r) : h \in Accepts(p)
    <3> SUFFICES ASSUME NEW l \in listener, NEW r \in route, NEW h
                 PROVE  h \in Accepts(l) /\ h \in Accepts(r) <=>
                            \E p \in narrowerHostname(l, r) : h \in Accepts(p)
      OBVIOUS
    <3>1. Accepts(l) \cap Accepts(r) = UNION {Accepts(p) : p \in narrowerHostname(l, r)}
      BY NarrowerAccepts
    <3>2. h \in UNION {Accepts(p) : p \in narrowerHostname(l, r)} <=>
              \E p \in narrowerHostname(l, r) : h \in Accepts(p)
      OBVIOUS
    <3>3. h \in Accepts(l) \cap Accepts(r) <=> h \in Accepts(l) /\ h \in Accepts(r)
      OBVIOUS
    <3> QED
      BY <3>1, <3>2, <3>3
  <2>6. \A p : p \in both <=> \E l \in listener, r \in route : p \in narrowerHostname(l, r)
    BY <2>1
  <2>7. \A h : h \in UNION {Accepts(p) : p \in both} <=> \E p \in both : h \in Accepts(p)
    OBVIOUS
  <2> HIDE DEF both
  <2>8. \A h : h \in UNION {Accepts(p) : p \in both} <=> h \in AcceptsAny(listener) /\ h \in AcceptsAny(route)
    <3> SUFFICES ASSUME NEW h
                 PROVE  (\E p \in both : h \in Accepts(p)) <=>
                            (\E l \in listener : h \in Accepts(l)) /\ (\E r \in route : h \in Accepts(r))
      BY <2>3, <2>4, <2>7
    <3>1. ASSUME NEW p \in both, h \in Accepts(p)
          PROVE  (\E l \in listener : h \in Accepts(l)) /\ (\E r \in route : h \in Accepts(r))
      BY <3>1, <2>5, <2>6
    <3>2. ASSUME NEW l \in listener, NEW r \in route, h \in Accepts(l), h \in Accepts(r)
          PROVE  \E p \in both : h \in Accepts(p)
      BY <3>2, <2>5, <2>6
    <3> QED
      BY <3>1, <3>2
  <2> QED
    BY <2>2, <2>8 DEF both
<1> QED
  BY <1>1, <1>2, <1>3

\* A certificate matches hostnames, if there are any, when it covers a host of theirs.
LEMMA MatchIsOverlap ==
    ASSUME NEW cert \in Certificates, NEW hostnames \in SUBSET Patterns
    PROVE  MatchesHostname(cert, hostnames) <=>
               \/ hostnames = {}
               \/ (UNION {Accepts(p) : p \in hostnames}) \cap
                      (UNION {Covers(c) : c \in certNames(cert)}) # {}
<1>1. certNames(cert) \in SUBSET Patterns
  BY DEF certNames, Certificates
<1>2. \A p \in hostnames :
          certServesHostname(cert, p) <=> \E c \in certNames(cert) : Covers(c) \cap Accepts(p) # {}
  <2> SUFFICES ASSUME NEW p \in hostnames
               PROVE  certServesHostname(cert, p) <=>
                          \E c \in certNames(cert) : Covers(c) \cap Accepts(p) # {}
    OBVIOUS
  <2>1. \A c \in certNames(cert) : Serves(c, p) <=> Covers(c) \cap Accepts(p) # {}
    BY <1>1, ServesIsOverlap
  <2>2. certServesHostname(cert, p) <=> \E c \in certNames(cert) : Serves(c, p)
    BY DEF certServesHostname, Serves
  <2> QED
    BY <2>1, <2>2
<1>3. (\E p \in hostnames, c \in certNames(cert) : Covers(c) \cap Accepts(p) # {}) <=>
          (UNION {Accepts(p) : p \in hostnames}) \cap
              (UNION {Covers(c) : c \in certNames(cert)}) # {}
  OBVIOUS
<1> QED
  BY <1>2, <1>3 DEF MatchesHostname

\* The check says what is so of any listener, route and certificate.
LEMMA CheckIsRight ==
    ASSUME NEW listener \in SUBSET Patterns, NEW route \in SUBSET Patterns,
           NEW pinned \in BOOLEAN, NEW cert \in Certificates
    PROVE  MismatchIsReal(listener, route, pinned, cert, CertCheck(listener, route, pinned, cert))
<1> DEFINE both    == hostnameIntersections(listener, route)
           check   == IF pinned /\ both = {} THEN route ELSE both
           served  == AcceptsAny(listener) \cap AcceptsAny(route)
           wanted  == IF pinned /\ served = {} THEN AcceptsAny(route) ELSE served
           covered == UNION {Covers(p) : p \in certNames(cert)}
           said    == CertCheck(listener, route, pinned, cert)
<1>1. MismatchIsReal(listener, route, pinned, cert, said) <=>
          /\ said = "not attached" <=> served = {} /\ ~pinned
          /\ said = "hostname mismatch" <=>
                (pinned \/ served # {}) /\ route # {} /\ wanted \cap covered = {}
  BY DEF MismatchIsReal, certNames, hasSAN
<1>2. /\ both \in SUBSET Patterns
      /\ route # {} => served = UNION {Accepts(p) : p \in both}
  BY IntersectionAccepts
<1>3. AcceptsAny(listener) # {} /\ AcceptsAny(route) # {}
  BY AcceptsAnySome
<1>4. said = IF ~pinned /\ route # {} /\ listener # {} /\ both = {} THEN "not attached"
             ELSE IF MatchesHostname(cert, check) THEN "ok" ELSE "hostname mismatch"
  BY DEF CertCheck
<1>5. MatchesHostname(cert, check) <=>
          check = {} \/ (UNION {Accepts(p) : p \in check}) \cap covered # {}
  BY <1>2, MatchIsOverlap
<1>6. CASE route = {}
  <2>1. both = {}
    BY <1>6 DEF hostnameIntersections
  <2>2. said = "ok"
    BY <1>4, <1>5, <1>6, <2>1
  <2>3. served # {}
    <3>1. AcceptsAny(route) = Hosts
      BY <1>6 DEF AcceptsAny
    <3>2. AcceptsAny(listener) \subseteq Hosts
      BY DEF AcceptsAny, Accepts
    <3> QED
      BY <1>3, <3>1, <3>2
  <2> QED
    BY <1>1, <1>6, <2>2, <2>3
<1>7. CASE route # {}
  <2>1. both = {} <=> served = {}
    <3>1. served = UNION {Accepts(p) : p \in both}
      BY <1>2, <1>7
    <3>2. \A p \in both : Accepts(p) # {}
      BY <1>2, AcceptsSome
    <3> HIDE DEF both, served
    <3> QED
      BY <3>1, <3>2
  <2>2. listener = {} => both # {}
    BY <1>7 DEF hostnameIntersections
  <2>3. AcceptsAny(route) = UNION {Accepts(p) : p \in route}
    BY <1>7 DEF AcceptsAny
  <2>4. check # {} => UNION {Accepts(p) : p \in check} = wanted
    BY <1>2, <1>7, <2>1, <2>3
  <2>5. check = {} <=> ~pinned /\ both = {}
    BY <1>7
  <2> HIDE DEF both, check, served, wanted, covered, said
  <2>6. ASSUME ~pinned /\ both = {} PROVE MismatchIsReal(listener, route, pinned, cert, said)
    <3>1. said = "not attached" /\ served = {}
      BY <1>4, <1>7, <2>1, <2>2, <2>6
    <3> QED
      BY <1>1, <2>6, <3>1
  <2>7. ASSUME pinned \/ both # {} PROVE MismatchIsReal(listener, route, pinned, cert, said)
    <3>1. said = IF wanted \cap covered # {} THEN "ok" ELSE "hostname mismatch"
      BY <1>4, <1>5, <2>4, <2>5, <2>7
    <3>2. pinned \/ served # {}
      BY <2>1, <2>7
    <3>3. said = "hostname mismatch" <=> wanted \cap covered = {}
      BY <3>1
    <3>4. said # "not attached"
      BY <3>1
    <3> QED
      BY <1>1, <1>7, <3>2, <3>3, <3>4
  <2> QED
    BY <2>6, <2>7 DEF said
<1> QED
  BY <1>6, <1>7

\* A certificate is reported to mismatch if and only if there is no host that the
\* listener and the route serve and the certificate covers, whatever the names and
\* the hosts (MismatchReported; hostname.go:47-110, certificate.go:136-181).
THEOREM MismatchesReported == MatchingSpec => []MismatchReported
<1> DEFINE Inv == question \in Questions /\ MismatchReported
<1>1. MatchingInit => Inv
  BY DEF MatchingInit, MismatchReported, Answered
<1>2. ASSUME Inv, [MatchingNext]_<<question, answer>> PROVE Inv'
  <2>1. CASE EvaluateSelector
    BY <1>2, <2>1 DEF EvaluateSelector, Asked, MismatchReported, Answered
  <2>2. CASE CheckCertificate
    <3>1. /\ question' = question /\ question.about = "certificate" /\ question \in Questions
          /\ answer' = CertCheck(question.listener, question.route, question.pinned, question.cert)
      BY <1>2, <2>2 DEF CheckCertificate, Asked
    <3>2. question \in Checks
      <4>1. \A q \in DriftChecks : q.about = "drift"
        BY MatchingAssumption
      <4> QED BY <3>1, <4>1 DEF Questions
    <3>3. /\ question.listener \in SUBSET Patterns /\ question.route \in SUBSET Patterns
          /\ question.pinned \in BOOLEAN /\ question.cert \in Certificates
      BY <3>2, MatchingAssumption
    <3>4. MismatchIsReal(question.listener, question.route, question.pinned, question.cert, answer')
      BY <3>1, <3>3, CheckIsRight
    <3> QED
      BY <3>1, <3>4 DEF MismatchReported
  <2>3. CASE CompareDocuments
    BY <1>2, <2>3 DEF CompareDocuments, Asked, MismatchReported, Answered
  <2>4. CASE UNCHANGED <<question, answer>>
    BY <1>2, <2>4 DEF MismatchReported, Answered
  <2> QED
    BY <1>2, <2>1, <2>2, <2>3, <2>4 DEF MatchingNext
<1>3. Inv => MismatchReported
  OBVIOUS
<1> QED
  BY <1>1, <1>2, <1>3, PTL DEF MatchingSpec

-----------------------------------------------------------------------------
(***************************************************************************)
(* Selectors.  Lists.                                                      *)
(***************************************************************************)

\* The rest of a list, from its i-th element.
LEMMA FromProperties ==
    ASSUME NEW S, NEW s \in Seq(S), NEW i \in 1..(Len(s) + 1)
    PROVE  /\ From(s, i) \in Seq(S) /\ Len(From(s, i)) = Len(s) - i + 1
           /\ \A j \in 1..(Len(s) - i + 1) : From(s, i)[j] = s[i + j - 1]
           /\ i <= Len(s) => From(s, i) # <<>> /\ From(s, i)[1] = s[i]
<1>1. /\ From(s, i) \in Seq(S) /\ Len(From(s, i)) = Len(s) - i + 1
      /\ \A j \in 1..(Len(s) - i + 1) : From(s, i)[j] = s[i + j - 1]
  BY SubSeqProperties DEF From
<1>2. ASSUME i <= Len(s) PROVE From(s, i) # <<>> /\ From(s, i)[1] = s[i]
  BY <1>1, <1>2
<1> QED
  BY <1>1, <1>2

\* The rest of a list is what is from its second element.
LEMMA TailIsFrom ==
    ASSUME NEW S, NEW s \in Seq(S), s # <<>>
    PROVE  /\ Tail(s) = From(s, 2) /\ Tail(s) \in Seq(S) /\ Len(Tail(s)) = Len(s) - 1
           /\ \A j \in 1..(Len(s) - 1) : Tail(s)[j] = s[j + 1]
<1>1. Tail(s) \in Seq(S) /\ Len(Tail(s)) = Len(s) - 1 /\ 2 \in 1..(Len(s) + 1)
  OBVIOUS
<1>2. \A j \in 1..(Len(s) - 1) : Tail(s)[j] = s[j + 1]
  OBVIOUS
<1>3. From(s, 2) \in Seq(S) /\ Len(From(s, 2)) = Len(s) - 1
        /\ \A j \in 1..(Len(s) - 1) : From(s, 2)[j] = s[j + 1]
  <2>1. /\ From(s, 2) \in Seq(S) /\ Len(From(s, 2)) = Len(s) - 2 + 1
        /\ \A j \in 1..(Len(s) - 2 + 1) : From(s, 2)[j] = s[2 + j - 1]
    BY <1>1, FromProperties
  <2>2. ASSUME NEW j \in 1..(Len(s) - 1) PROVE From(s, 2)[j] = s[j + 1]
    <3>1. j \in 1..(Len(s) - 2 + 1) /\ 2 + j - 1 = j + 1
      OBVIOUS
    <3> QED
      BY <2>1, <3>1
  <2> QED
    BY <2>1, <2>2, SMTT(30)
<1>4. Tail(s) = From(s, 2)
  BY <1>1, <1>2, <1>3, SeqEqual
<1> QED
  BY <1>1, <1>2, <1>4

\* The rest of a rest.
LEMMA FromFrom ==
    ASSUME NEW S, NEW s \in Seq(S), NEW i \in 1..(Len(s) + 1), NEW j \in 1..(Len(s) - i + 2)
    PROVE  From(From(s, i), j) = From(s, i + j - 1)
<1> DEFINE t == From(s, i)
<1>1. t \in Seq(S) /\ Len(t) = Len(s) - i + 1 /\ \A k \in 1..(Len(s) - i + 1) : t[k] = s[i + k - 1]
  BY FromProperties
<1> HIDE DEF t
<1>2. j \in 1..(Len(t) + 1) /\ i + j - 1 \in 1..(Len(s) + 1)
  BY <1>1
<1>3. /\ From(t, j) \in Seq(S) /\ Len(From(t, j)) = Len(t) - j + 1
      /\ \A k \in 1..(Len(t) - j + 1) : From(t, j)[k] = t[j + k - 1]
  BY <1>1, <1>2, FromProperties
<1>4. /\ From(s, i + j - 1) \in Seq(S) /\ Len(From(s, i + j - 1)) = Len(s) - (i + j - 1) + 1
      /\ \A k \in 1..(Len(s) - (i + j - 1) + 1) : From(s, i + j - 1)[k] = s[(i + j - 1) + k - 1]
  BY <1>1, <1>2, FromProperties
<1>5. Len(From(t, j)) = Len(From(s, i + j - 1))
  BY <1>1, <1>3, <1>4
<1>6. ASSUME NEW k \in 1..Len(From(t, j)) PROVE From(t, j)[k] = From(s, i + j - 1)[k]
  <2>1. /\ k \in 1..(Len(t) - j + 1) /\ k \in 1..(Len(s) - (i + j - 1) + 1)
        /\ j + k - 1 \in 1..(Len(s) - i + 1)
        /\ i + (j + k - 1) - 1 = (i + j - 1) + k - 1
    BY <1>1, <1>3, <1>6
  <2> QED
    BY <1>1, <1>3, <1>4, <2>1
<1>7. From(t, j) = From(s, i + j - 1)
  BY <1>3, <1>4, <1>5, <1>6, SeqEqual
<1> QED
  BY <1>7 DEF t

\* A list with another element before it.
LEMMA ConsProps ==
    ASSUME NEW S, NEW x \in S, NEW s \in Seq(S)
    PROVE  /\ <<x>> \o s \in Seq(S) /\ <<x>> \o s # <<>> /\ Len(<<x>> \o s) = Len(s) + 1
           /\ (<<x>> \o s)[1] = x /\ Tail(<<x>> \o s) = s
           /\ (<<x>> \o s)[Len(s) + 1] = IF s = <<>> THEN x ELSE s[Len(s)]
<1> DEFINE t == <<x>> \o s
<1>1. /\ t \in Seq(S) /\ Len(t) = Len(s) + 1 /\ t[1] = x
      /\ \A i \in 1..Len(s) : t[i + 1] = s[i]
  <2>1. <<x>> \in Seq(S) /\ Len(<<x>>) = 1 /\ <<x>>[1] = x
    OBVIOUS
  <2>2. t \in Seq(S) /\ Len(t) = 1 + Len(s) /\ \A i \in 1..(1 + Len(s)) :
            t[i] = IF i <= 1 THEN <<x>>[i] ELSE s[i - 1]
    BY <2>1, ConcatProperties
  <2>3. ASSUME NEW i \in 1..Len(s) PROVE t[i + 1] = s[i]
    <3>1. i + 1 \in 1..(1 + Len(s)) /\ ~(i + 1 <= 1) /\ (i + 1) - 1 = i
      OBVIOUS
    <3> HIDE DEF t
    <3> QED
      BY <2>2, <3>1
  <2>4. t[1] = x /\ Len(t) = Len(s) + 1
    BY <2>1, <2>2
  <2> QED
    BY <2>2, <2>3, <2>4
<1> HIDE DEF t
<1>2. t # <<>>
  BY <1>1
<1>3. Tail(t) \in Seq(S) /\ Len(Tail(t)) = Len(s) /\ \A i \in 1..Len(s) : Tail(t)[i] = s[i]
  BY <1>1, <1>2, TailIsFrom
<1>4. Tail(t) = s
  BY <1>3, SeqEqual
<1>5. t[Len(s) + 1] = IF s = <<>> THEN x ELSE s[Len(s)]
  BY <1>1
<1> QED
  BY <1>1, <1>2, <1>4, <1>5 DEF t

-----------------------------------------------------------------------------
(***************************************************************************)
(* Recursive functions: tokenizeFrom, parse and phrases are defined by what *)
(* they are for shorter arguments; walkLeaves, valuesEqual and what they    *)
(* are compared with, by what they are for what is in a value.             *)
(***************************************************************************)

\* A set of numbers has a least one: induction, as a fact about sets.
LEMMA Least ==
  ASSUME NEW T \in SUBSET Nat, T # {}
  PROVE  \E n \in T : \A m \in T : n <= m
<1> DEFINE R == OpToRel(<, Nat)
<1>1. IsWellFoundedOn(R, Nat)
  BY NatLessThanWellFounded
<1> HIDE DEF R
<1>2. PICK x \in T : \A y \in T : ~ (<<y, x>> \in R)
  BY <1>1, WFMin
<1>3. ASSUME NEW y \in T PROVE x <= y
  <2>1. <<y, x>> \notin R
    BY <1>2
  <2>2. ~(y < x)
    BY <2>1 DEF R, OpToRel
  <2> QED BY <2>2
<1> QED
  BY <1>3

\* The functions on S whose values have the types T.
Typed(S, U, T) == {g \in [S -> U] : \A x \in S : g[x] \in T[x]}

\* F[x][g] makes the value at x of g's values at what m measures as smaller.
RecursiveStep(S, U, T, m, F) ==
    /\ T \in [S -> SUBSET U] /\ m \in [S -> Nat] /\ \A x \in S : T[x] # {}
    /\ F \in [S -> [Typed(S, U, T) -> U]]
    /\ \A x \in S, g \in Typed(S, U, T) : F[x][g] \in T[x]
    /\ \A x \in S, g, h \in Typed(S, U, T) :
            (\A y \in S : m[y] < m[x] => g[y] = h[y]) => F[x][g] = F[x][h]

\* A recursive definition that makes each value of those at smaller arguments
\* defines a function: of the functions that satisfy it below every bound there is
\* one, by induction on the bound.
LEMMA RecursiveFunction ==
    ASSUME NEW S, NEW U, NEW T, NEW m, NEW F, RecursiveStep(S, U, T, m, F)
    PROVE  \E f \in Typed(S, U, T) : \A x \in S : f[x] = F[x][f]
<1> DEFINE G == Typed(S, U, T)
<1>0. /\ T \in [S -> SUBSET U] /\ m \in [S -> Nat] /\ \A x \in S : T[x] # {}
      /\ F \in [S -> [G -> U]]
      /\ \A x \in S, g \in G : F[x][g] \in T[x]
      /\ \A x \in S, g, h \in G : (\A y \in S : m[y] < m[x] => g[y] = h[y]) => F[x][g] = F[x][h]
      /\ G = {g \in [S -> U] : \A x \in S : g[x] \in T[x]}
  BY DEF RecursiveStep, Typed
<1> USE <1>0
<1> HIDE DEF G
<1> DEFINE Approx(g, n) == \A x \in S : m[x] < n => g[x] = F[x][g]
           Bad == {n \in Nat : \A g \in G : ~Approx(g, n)}
<1>1. Bad = {}
  <2> SUFFICES ASSUME Bad # {} PROVE FALSE
    OBVIOUS
  <2>1. PICK n \in Bad : \A k \in Bad : n <= k
    BY Least
  <2>2. CASE n = 0
    <3> DEFINE g == [x \in S |-> CHOOSE v \in T[x] : TRUE]
    <3>1. g \in G
      OBVIOUS
    <3>2. Approx(g, 0)
      OBVIOUS
    <3> QED BY <2>1, <2>2, <3>1, <3>2
  <2>3. CASE n # 0
    <3>1. n - 1 \in Nat /\ n - 1 \notin Bad
      BY <2>1, <2>3
    <3>2. PICK g \in G : Approx(g, n - 1)
      BY <3>1
    <3> DEFINE h == [x \in S |-> IF m[x] = n - 1 THEN F[x][g] ELSE g[x]]
    <3>3. h \in G
      OBVIOUS
    <3>4. ASSUME NEW x \in S, m[x] < n PROVE h[x] = F[x][h]
      <4>1. \A y \in S : m[y] < m[x] => g[y] = h[y]
        BY <3>1, <3>4
      <4>2. F[x][g] = F[x][h]
        <5> HIDE DEF h
        <5> QED
          BY <4>1, <3>3, ZenonT(30)
      <4>3. CASE m[x] = n - 1
        BY <4>2, <4>3
      <4>4. CASE m[x] # n - 1
        BY <4>2, <4>4, <3>2, <3>4, <3>1
      <4> QED BY <4>3, <4>4
    <3> QED BY <3>3, <3>4, <2>1
  <2> QED BY <2>2, <2>3
<1>2. \A n \in Nat : \E g \in G : Approx(g, n)
  <2> SUFFICES ASSUME NEW n \in Nat, \A g \in G : ~Approx(g, n) PROVE FALSE
    OBVIOUS
  <2>1. n \in Bad
    OBVIOUS
  <2> HIDE DEF Bad
  <2> QED BY <1>1, <2>1
<1> HIDE DEF Approx
<1>3. ASSUME NEW g \in G, NEW h \in G, NEW n \in Nat, Approx(g, n), Approx(h, n)
      PROVE  \A x \in S : m[x] < n => g[x] = h[x]
  <2> DEFINE Differ == {k \in Nat : \E x \in S : m[x] = k /\ k < n /\ g[x] # h[x]}
  <2> SUFFICES ASSUME Differ # {} PROVE FALSE
    OBVIOUS
  <2>1. PICK k \in Differ : \A l \in Differ : k <= l
    BY Least
  <2>2. PICK x \in S : m[x] = k /\ m[x] < n /\ g[x] # h[x]
    BY <2>1
  <2>3. ASSUME NEW y \in S, m[y] < m[x] PROVE g[y] = h[y]
    <3>1. m[y] \in Nat /\ m[y] \notin Differ /\ m[y] < n
      BY <2>1, <2>2, <2>3
    <3> QED BY <3>1
  <2>4. g[x] = F[x][g] /\ h[x] = F[x][h]
    BY <1>3, <2>2 DEF Approx
  <2>5. F[x][g] = F[x][h]
    BY <2>3
  <2> QED BY <2>2, <2>4, <2>5
<1> DEFINE A(n) == CHOOSE g \in G : Approx(g, n)
           f == [x \in S |-> A(m[x] + 1)[x]]
<1>4. \A n \in Nat : A(n) \in G /\ Approx(A(n), n)
  BY <1>2
<1> HIDE DEF A
<1>5. f \in G
  BY <1>4
<1>6. ASSUME NEW x \in S PROVE f[x] = F[x][f]
  <2> DEFINE g == A(m[x] + 1)
  <2>1. g \in G /\ Approx(g, m[x] + 1)
    BY <1>4
  <2>2. ASSUME NEW y \in S, m[y] < m[x] PROVE g[y] = f[y]
    <3>1. A(m[y] + 1) \in G /\ Approx(A(m[y] + 1), m[y] + 1)
      BY <1>4
    <3>2. Approx(g, m[y] + 1)
      BY <2>1, <2>2 DEF Approx
    <3> HIDE DEF g
    <3> DEFINE h == A(m[y] + 1)
    <3>3. g \in G /\ h \in G /\ Approx(g, m[y] + 1) /\ Approx(h, m[y] + 1) /\ m[y] < m[y] + 1
      BY <2>1, <3>1, <3>2
    <3> HIDE DEF h
    <3>4. g[y] = h[y]
      BY <1>3, <3>3
    <3> QED BY <3>4 DEF h
  <2>3. g[x] = F[x][g]
    BY <2>1 DEF Approx
  <2>4. F[x][g] = F[x][f]
    BY <2>1, <2>2, <1>5
  <2> QED BY <2>3, <2>4
<1> QED BY <1>5, <1>6 DEF G

-----------------------------------------------------------------------------
(***************************************************************************)
(* The tokenizer.                                                          *)
(***************************************************************************)
Text   == Seq(Lexeme)

\* What a lexeme may be.
LEMMA LexemeShape ==
    ASSUME NEW l \in Lexeme
    PROVE  /\ l.form \in {"word", "string", "symbol", "call", "junk"}
           /\ l.form \in {"word", "string"} => l.text \in Strings
           /\ l.form = "symbol" => l.text \in Symbols
           /\ l.form = "call" => l.text \in Calls
           /\ l = [form |-> l.form, text |-> l.text]
<1>1. CASE l = Junk
  BY <1>1 DEF Junk
<1>2. CASE l \in [form : {"word", "string"}, text : Strings]
  BY <1>2
<1>3. CASE l \in [form : {"symbol"}, text : Symbols]
  BY <1>3
<1>4. CASE l \in [form : {"call"}, text : Calls]
  BY <1>4
<1> QED
  BY <1>1, <1>2, <1>3, <1>4 DEF Lexeme

OperatorKinds == {"Contains", "StartsWith", "EndsWith", "NotIn", "In"}

\* The first word tells the operators apart.
LEMMA OperatorWords ==
    ASSUME NEW o \in WordOperators
    PROVE  /\ o[1] \in OperatorKinds
           /\ Len(o[2]) \in {1, 2} /\ 1 \in DOMAIN o[2]
           /\ \A p \in WordOperators : p[2][1] = o[2][1] => p = o
<1>1. o[1] \in OperatorKinds /\ Len(o[2]) \in {1, 2}
  BY DEF WordOperators, OperatorKinds
<1>2. 1 \in DOMAIN o[2]
  BY DEF WordOperators
<1>3. ASSUME NEW p \in WordOperators, p[2][1] = o[2][1] PROVE p = o
  BY <1>3 DEF WordOperators
<1> QED
  BY <1>1, <1>2, <1>3

\* The next token is one, of at least one lexeme of the input, and the only one.
LEMMA ReadingType ==
    ASSUME NEW input \in Text, input # <<>>, NEW expected \in Expectations,
           NEW r \in nextToken(input, expected)
    PROVE  /\ r.token \in Tokens /\ r.token.kind # "EOF" /\ r.length \in 1..Len(input)
           /\ \A s \in nextToken(input, expected) : s = r
<1>1. input[1] \in Lexeme /\ Len(input) \in Nat /\ Len(input) >= 1
  BY DEF Text
<1>2. CASE input[1].form \in {"symbol", "string", "junk"}
  BY <1>1, <1>2, LexemeShape DEF nextToken, Reading, Mark, Token, Symbols, Tokens, Kinds
<1>3. CASE input[1].form \in {"word", "call"} /\ expected = "operator"
  <2>1. nextToken(input, expected) = OperatorToken(input)
    BY <1>3 DEF nextToken
  <2>2. PICK o \in WordOperators : Spells(input, o[2]) /\ r = Reading(Mark(o[1]), Len(o[2]))
    BY <2>1 DEF OperatorToken
  <2>3. o[1] \in Kinds /\ o[1] # "EOF" /\ Len(o[2]) \in 1..2
    BY OperatorWords DEF OperatorKinds, Kinds
  <2>4. r.token \in Tokens /\ r.token.kind # "EOF" /\ r.length \in 1..Len(input)
    BY <1>1, <2>2, <2>3 DEF Reading, Mark, Token, Tokens, Kinds, Spells
  <2>5. ASSUME NEW s \in nextToken(input, expected) PROVE s = r
    <3>1. PICK p \in WordOperators : Spells(input, p[2]) /\ s = Reading(Mark(p[1]), Len(p[2]))
      BY <2>1 DEF OperatorToken
    <3>2. 1 \in DOMAIN o[2] /\ 1 \in DOMAIN p[2]
      BY DEF WordOperators
    <3>3. Word(o[2][1]) = Word(p[2][1])
      BY <2>2, <3>1, <3>2 DEF Spells
    <3>4. o[2][1] = p[2][1]
      BY <3>3 DEF Word
    <3> QED
      BY <2>2, <3>1, <3>4, OperatorWords
  <2> QED
    BY <2>4, <2>5
<1>4. CASE input[1].form = "call" /\ expected = "operand"
  <2>1. nextToken(input, expected) = CallToken(input)
    BY <1>4 DEF nextToken
  <2>2. CASE input[1].text = "has"
    <3>1. Len(input) >= 3 /\ r = Reading(Token("Has", input[2].text), 3)
            /\ nextToken(input, expected) \subseteq {r}
      BY <2>1, <2>2 DEF CallToken
    <3>2. input[2] \in Lexeme
      BY <1>1, <3>1 DEF Text
    <3>3. input[2].text \in Strings
      BY <2>1, <2>2, <3>2, LexemeShape DEF CallToken
    <3> QED
      BY <1>1, <3>1, <3>3 DEF Reading, Mark, Token, Tokens, Kinds
  <2>3. CASE input[1].text # "has"
    <3>1. Len(input) >= 2 /\ r = Reading(Mark(IF input[1].text = "all" THEN "All" ELSE "Global"), 2)
            /\ nextToken(input, expected) \subseteq {r}
      BY <2>1, <2>3 DEF CallToken
    <3>2. input[1].text \in Calls
      BY <1>1, <1>4, LexemeShape
    <3> QED
      BY <1>1, <3>1, <3>2 DEF Reading, Mark, Token, Tokens, Kinds, Calls
  <2> QED
    BY <2>2, <2>3
<1>5. CASE input[1].form = "word" /\ expected = "operand"
  BY <1>1, <1>5, LexemeShape DEF nextToken, Reading, Mark, Token, Tokens, Kinds
<1> QED
  BY <1>1, <1>2, <1>3, <1>4, <1>5, LexemeShape DEF Expectations

TokenizeStep(input, f) ==
    [expected \in Expectations |->
        IF input = <<>>
        THEN {<<EOF>>}
        ELSE UNION {{<<r.token>> \o rest :
                        rest \in f[From(input, r.length + 1)][Expected(r.token)]} :
                    r \in nextToken(input, expected)}]

TokenizeType ==
    {v \in [Expectations -> SUBSET TokenLists] : \A b \in Expectations : \A s, t \in v[b] : s = t}

\* A token before a list of tokens.
LEMMA TokenListCons ==
    ASSUME NEW x \in Tokens, NEW s \in TokenLists
    PROVE  /\ <<x>> \o s \in TokenLists /\ Len(<<x>> \o s) = Len(s) + 1
           /\ (<<x>> \o s)[1] = x /\ Tail(<<x>> \o s) = s
<1>1. s \in Seq(Tokens) /\ s # <<>> /\ s[Len(s)].kind = "EOF"
  BY DEF TokenLists
<1> DEFINE t == <<x>> \o s
<1>2. /\ t \in Seq(Tokens) /\ t # <<>> /\ Len(t) = Len(s) + 1 /\ t[1] = x /\ Tail(t) = s
      /\ t[Len(s) + 1] = s[Len(s)]
  BY <1>1, ConsProps
<1> HIDE DEF t
<1>3. t[Len(t)].kind = "EOF"
  BY <1>1, <1>2
<1>4. t \in TokenLists
  BY <1>2, <1>3 DEF TokenLists
<1> QED
  BY <1>2, <1>4 DEF t

\* The list is a token of the input, and one of f's lists for the rest of it.
ReadsAs(input, f, b, list) ==
    \E r \in nextToken(input, b) :
        \E rest \in f[From(input, r.length + 1)][Expected(r.token)] : list = <<r.token>> \o rest

\* The lists that the tokenizer's step makes.
LEMMA TokenizeStepElements ==
    ASSUME NEW input, input # <<>>, NEW f, NEW b \in Expectations
    PROVE  \A s : s \in TokenizeStep(input, f)[b] <=> ReadsAs(input, f, b, s)
<1> DEFINE N == nextToken(input, b)
           W(r) == {<<r.token>> \o rest : rest \in f[From(input, r.length + 1)][Expected(r.token)]}
<1> TAKE s
<1>1. TokenizeStep(input, f)[b] = UNION {W(r) : r \in N}
  BY DEF TokenizeStep
<1>2. s \in TokenizeStep(input, f)[b] <=> \E r \in N : s \in W(r)
  <2> HIDE DEF W, N
  <2> QED
    BY <1>1
<1>3. ASSUME NEW r
      PROVE  s \in W(r) <=> \E rest \in f[From(input, r.length + 1)][Expected(r.token)] : s = <<r.token>> \o rest
  OBVIOUS
<1> QED
  BY <1>2, <1>3, Zenon DEF ReadsAs

\* The tokenizer makes lists of tokens that end with the end's, at most one.
LEMMA TokenizeStepTyped ==
    ASSUME NEW input \in Text, NEW f,
           \A y \in Text : Len(y) < Len(input) => f[y] \in TokenizeType
    PROVE  TokenizeStep(input, f) \in TokenizeType
<1> DEFINE v == TokenizeStep(input, f)
<1>1. CASE input = <<>>
  <2>1. <<EOF>> \in Seq(Tokens) /\ <<EOF>> # <<>> /\ Len(<<EOF>>) = 1 /\ <<EOF>>[1] = EOF
    BY DEF EOF, Mark, Token, Tokens, Kinds
  <2>2. <<EOF>> \in TokenLists
    BY <2>1 DEF TokenLists, EOF, Mark, Token
  <2>3. v = [expected \in Expectations |-> {<<EOF>>}]
    BY <1>1 DEF TokenizeStep
  <2> QED
    BY <2>2, <2>3 DEF TokenizeType
<1>2. CASE input # <<>>
  <2> DEFINE After(r) == From(input, r.length + 1)
             L(r) == Expected(r.token)
  <2>1. ASSUME NEW b \in Expectations, NEW r \in nextToken(input, b)
        PROVE  /\ r.token \in Tokens /\ L(r) \in Expectations
               /\ f[After(r)][L(r)] \subseteq TokenLists
               /\ \A s, t \in f[After(r)][L(r)] : s = t
    <3>1. r.token \in Tokens /\ r.length \in 1..Len(input)
      BY <1>2, ReadingType
    <3>2. r.length + 1 \in 1..(Len(input) + 1) /\ input \in Seq(Lexeme)
      BY <3>1 DEF Text
    <3>3. After(r) \in Text /\ Len(After(r)) < Len(input)
      BY <3>1, <3>2, FromProperties DEF Text
    <3>4. f[After(r)] \in TokenizeType
      BY <3>3
    <3>5. L(r) \in Expectations
      BY DEF Expected, Expectations
    <3> HIDE DEF After, L
    <3> QED
      BY <3>1, <3>4, <3>5 DEF TokenizeType
  <2>2. ASSUME NEW b \in Expectations, NEW s \in v[b]
        PROVE  \E r \in nextToken(input, b) : \E rest \in f[After(r)][L(r)] : s = <<r.token>> \o rest
    <3>1. s \in TokenizeStep(input, f)[b]
      OBVIOUS
    <3>2. ReadsAs(input, f, b, s)
      BY <1>2, <3>1, TokenizeStepElements
    <3> QED
      BY <3>2 DEF ReadsAs
  <2>3. ASSUME NEW b \in Expectations, NEW s \in v[b]
        PROVE  \E r \in nextToken(input, b) : \E rest \in f[After(r)][L(r)] :
                    s = <<r.token>> \o rest /\ rest \in TokenLists /\ s \in TokenLists
    <3>1. PICK r \in nextToken(input, b) : \E rest \in f[After(r)][L(r)] : s = <<r.token>> \o rest
      BY <2>2
    <3>2. PICK rest \in f[After(r)][L(r)] : s = <<r.token>> \o rest
      BY <3>1
    <3>3. r.token \in Tokens /\ rest \in TokenLists
      BY <2>1, <3>2
    <3>4. s \in TokenLists
      BY <3>2, <3>3, TokenListCons
    <3> QED
      BY <3>2, <3>3, <3>4
  <2>4. ASSUME NEW b \in Expectations, NEW s \in v[b], NEW t \in v[b] PROVE s = t
    <3>1. PICK r \in nextToken(input, b) : \E rest \in f[After(r)][L(r)] : s = <<r.token>> \o rest
      BY <2>3
    <3>2. PICK q \in nextToken(input, b) : \E more \in f[After(q)][L(q)] : t = <<q.token>> \o more
      BY <2>3, ZenonT(30)
    <3>3. q = r
      BY <1>2, ReadingType
    <3>4. \A rest, more \in f[After(r)][L(r)] : rest = more
      BY <2>1
    <3> QED
      BY <3>1, <3>2, <3>3, <3>4
  <2>5. v \in [Expectations -> SUBSET TokenLists]
    <3>1. v = [b \in Expectations |-> v[b]]
      BY DEF TokenizeStep
    <3>2. \A b \in Expectations : v[b] \in SUBSET TokenLists
      BY <2>3
    <3> HIDE DEF v
    <3> QED
      BY <3>1, <3>2
  <2> HIDE DEF v
  <2>6. v \in TokenizeType
    BY <2>4, <2>5 DEF TokenizeType
  <2> QED
    BY <2>6 DEF v
<1> QED
  BY <1>1, <1>2

\* It asks for those of shorter inputs only.
LEMMA TokenizeStepLocal ==
    ASSUME NEW input \in Text, NEW f, NEW g,
           \A y \in Text : Len(y) < Len(input) => f[y] = g[y]
    PROVE  TokenizeStep(input, f) = TokenizeStep(input, g)
<1>1. CASE input = <<>>
  BY <1>1 DEF TokenizeStep
<1>2. CASE input # <<>>
  <2>1. ASSUME NEW b \in Expectations, NEW r \in nextToken(input, b)
        PROVE  f[From(input, r.length + 1)] = g[From(input, r.length + 1)]
    <3>1. r.length \in 1..Len(input)
      BY <1>2, ReadingType
    <3>2. r.length + 1 \in 1..(Len(input) + 1) /\ input \in Seq(Lexeme)
      BY <3>1 DEF Text
    <3>3. From(input, r.length + 1) \in Text /\ Len(From(input, r.length + 1)) < Len(input)
      BY <3>1, <3>2, FromProperties DEF Text
    <3> QED
      BY <3>3
  <2>2. ASSUME NEW b \in Expectations
        PROVE  TokenizeStep(input, f)[b] = TokenizeStep(input, g)[b]
    <3>1. ASSUME NEW s PROVE s \in TokenizeStep(input, f)[b] <=> s \in TokenizeStep(input, g)[b]
      <4>1. /\ s \in TokenizeStep(input, f)[b] <=> ReadsAs(input, f, b, s)
            /\ s \in TokenizeStep(input, g)[b] <=> ReadsAs(input, g, b, s)
        BY <1>2, TokenizeStepElements
      <4>2. ReadsAs(input, f, b, s) <=> ReadsAs(input, g, b, s)
        BY <2>1, Zenon DEF ReadsAs
      <4> QED
        BY <4>1, <4>2
    <3> QED
      BY <3>1
  <2>3. /\ TokenizeStep(input, f) = [b \in Expectations |-> TokenizeStep(input, f)[b]]
        /\ TokenizeStep(input, g) = [b \in Expectations |-> TokenizeStep(input, g)[b]]
    BY DEF TokenizeStep
  <2> QED
    BY <2>2, <2>3, Zenon
<1> QED
  BY <1>1, <1>2

\* tokenizeFrom is what its definition says, and has those lists.
LEMMA TokenizeEquation ==
    /\ tokenizeFrom = [input \in Text |-> TokenizeStep(input, tokenizeFrom)]
    /\ \A input \in Text : tokenizeFrom[input] \in TokenizeType
<1> DEFINE U == TokenizeType
           T == [input \in Text |-> U]
           m == [input \in Text |-> Len(input)]
           G == Typed(Text, U, T)
           F == [x \in Text |-> [g \in G |-> TokenizeStep(x, g)]]
<1>1. T \in [Text -> SUBSET U] /\ m \in [Text -> Nat]
  BY DEF Text
<1>2. \A x \in Text : T[x] # {}
  <2>1. [b \in Expectations |-> {}] \in TokenizeType
    BY DEF TokenizeType
  <2> QED
    BY <2>1
<1>3. ASSUME NEW x \in Text, NEW g \in G PROVE TokenizeStep(x, g) \in TokenizeType
  BY TokenizeStepTyped DEF Typed
<1>4. F \in [Text -> [G -> U]]
  BY <1>3
<1>5. \A x \in Text, g \in G : F[x][g] \in T[x]
  BY <1>3
<1>6. ASSUME NEW x \in Text, NEW g \in G, NEW h \in G, \A y \in Text : m[y] < m[x] => g[y] = h[y]
      PROVE  F[x][g] = F[x][h]
  BY <1>6, TokenizeStepLocal
<1>7. \E f \in G : \A x \in Text : f[x] = F[x][f]
  <2>1. \A x \in Text, g, h \in G : (\A y \in Text : m[y] < m[x] => g[y] = h[y]) => F[x][g] = F[x][h]
    BY <1>6
  <2> HIDE DEF T, m, F, U
  <2>2. RecursiveStep(Text, U, T, m, F)
    BY <1>1, <1>2, <1>4, <1>5, <2>1, Zenon DEF RecursiveStep
  <2> QED
    BY <2>2, RecursiveFunction
<1>8. \E f : f = [input \in Text |-> TokenizeStep(input, f)]
  <2>1. PICK f \in G : \A x \in Text : f[x] = F[x][f]
    BY <1>7
  <2>2. f \in [Text -> U] /\ \A x \in Text : f[x] = TokenizeStep(x, f)
    BY <2>1 DEF Typed
  <2>3. f = [input \in Text |-> TokenizeStep(input, f)]
    BY <2>2
  <2> QED
    BY <2>3
<1>9. tokenizeFrom = CHOOSE f : f = [input \in Text |-> TokenizeStep(input, f)]
  BY DEF tokenizeFrom, TokenizeStep, Text
<1>10. tokenizeFrom = [input \in Text |-> TokenizeStep(input, tokenizeFrom)]
  BY <1>8, <1>9
<1>11. \A input \in Text : tokenizeFrom[input] \in TokenizeType
  <2> DEFINE Bad == {n \in Nat : \E x \in Text : Len(x) = n /\ tokenizeFrom[x] \notin TokenizeType}
  <2> SUFFICES ASSUME Bad # {} PROVE FALSE
    BY DEF Text
  <2>1. PICK n \in Bad : \A k \in Bad : n <= k
    BY Least
  <2>2. PICK x \in Text : Len(x) = n /\ tokenizeFrom[x] \notin TokenizeType
    BY <2>1
  <2>3. ASSUME NEW y \in Text, Len(y) < Len(x) PROVE tokenizeFrom[y] \in TokenizeType
    <3>1. Len(y) \in Nat /\ Len(y) \notin Bad
      BY <2>1, <2>2, <2>3 DEF Text
    <3> QED
      BY <3>1
  <2>4. tokenizeFrom[x] = TokenizeStep(x, tokenizeFrom)
    BY <1>10
  <2> QED
    BY <2>2, <2>3, <2>4, TokenizeStepTyped
<1> QED
  BY <1>10, <1>11

-----------------------------------------------------------------------------
(***************************************************************************)
(* The parser: there is at most one result, and it is shorter.             *)
(***************************************************************************)
\* What a function makes of a list of tokens: at most one result, and the rest
\* of the list is shorter.
Spellings        == Strings \cup {"none"}
NodesOf(list) == {p \in [node : SUBSET Labellings, rem : TokenLists] : Len(p.rem) < Len(list)}
SetsOf(list)  == {s \in [set : SUBSET Spellings, rem : TokenLists] : Len(s.rem) < Len(list)}
OneOf(A)      == {R \in SUBSET A : \A p, q \in R : p = q}

ParseType(list) ==
    [set : OneOf(SetsOf(list)), operation : OneOf(NodesOf(list)),
     andExpression : OneOf(NodesOf(list)), orExpression : OneOf(NodesOf(list))]

\* f makes that of the lists that are shorter.
ParsesShorter(f, list) == \A y \in TokenLists : Len(y) < Len(list) => f[y] \in ParseType(y)

\* What is after the first token of a list that has more is a list.
LEMMA TokenListNext ==
    ASSUME NEW t \in TokenLists, NEW i \in 1..Len(t), t[i].kind # "EOF"
    PROVE  /\ i < Len(t) /\ From(t, i + 1) \in TokenLists
           /\ Len(From(t, i + 1)) = Len(t) - i
<1>1. t \in Seq(Tokens) /\ t # <<>> /\ t[Len(t)].kind = "EOF" /\ Len(t) \in Nat
  BY DEF TokenLists
<1>2. i < Len(t) /\ i + 1 \in 1..(Len(t) + 1) /\ i + 1 <= Len(t)
  BY <1>1
<1> DEFINE s == From(t, i + 1)
<1>3. /\ s \in Seq(Tokens) /\ Len(s) = Len(t) - (i + 1) + 1
      /\ \A j \in 1..(Len(t) - (i + 1) + 1) : s[j] = t[(i + 1) + j - 1]
  BY <1>1, <1>2, FromProperties
<1> HIDE DEF s
<1>4. Len(s) = Len(t) - i /\ s # <<>>
  BY <1>1, <1>2, <1>3
<1>5. s[Len(s)] = t[Len(t)]
  <2>1. Len(t) - i \in 1..(Len(t) - (i + 1) + 1) /\ (i + 1) + (Len(t) - i) - 1 = Len(t)
    BY <1>1, <1>2
  <2> QED
    BY <1>3, <1>4, <2>1
<1>6. s \in TokenLists
  BY <1>1, <1>3, <1>4, <1>5 DEF TokenLists
<1> QED
  BY <1>2, <1>4, <1>6 DEF s

\* A list of tokens whose first is not the end's has more.
LEMMA TokenListFirst ==
    ASSUME NEW t \in TokenLists
    PROVE  /\ t \in Seq(Tokens) /\ t # <<>> /\ Len(t) \in Nat /\ Len(t) >= 1
           /\ \A i \in 1..Len(t) : t[i] \in Tokens
           /\ t[1].kind # "EOF" =>
                /\ Len(t) >= 2 /\ Tail(t) \in TokenLists /\ Len(Tail(t)) = Len(t) - 1
                /\ t[2].kind # "EOF" =>
                    /\ Len(t) >= 3 /\ From(t, 3) \in TokenLists /\ Len(From(t, 3)) = Len(t) - 2
                    /\ t[3].kind # "EOF" =>
                        Len(t) >= 4 /\ From(t, 4) \in TokenLists /\ Len(From(t, 4)) = Len(t) - 3
<1>1. t \in Seq(Tokens) /\ t # <<>> /\ Len(t) \in Nat /\ Len(t) >= 1
  BY DEF TokenLists
<1>2. ASSUME t[1].kind # "EOF"
      PROVE  /\ Len(t) >= 2 /\ Tail(t) \in TokenLists /\ Len(Tail(t)) = Len(t) - 1
  <2>1. 1 \in 1..Len(t) /\ Tail(t) = From(t, 2) /\ 1 + 1 = 2
    BY <1>1, TailIsFrom
  <2>2. 1 < Len(t) /\ From(t, 2) \in TokenLists /\ Len(From(t, 2)) = Len(t) - 1
    BY <1>2, <2>1, TokenListNext
  <2>3. Len(t) >= 2
    BY <1>1, <2>2
  <2> QED
    BY <2>1, <2>2, <2>3, Zenon
<1>3. ASSUME t[1].kind # "EOF", t[2].kind # "EOF"
      PROVE  Len(t) >= 3 /\ From(t, 3) \in TokenLists /\ Len(From(t, 3)) = Len(t) - 2
  <2>1. 2 \in 1..Len(t) /\ 2 + 1 = 3
    BY <1>1, <1>2, <1>3
  <2>2. 2 < Len(t) /\ From(t, 3) \in TokenLists /\ Len(From(t, 3)) = Len(t) - 2
    BY <1>3, <2>1, TokenListNext
  <2> QED
    BY <1>1, <2>2
<1>4. ASSUME t[1].kind # "EOF", t[2].kind # "EOF", t[3].kind # "EOF"
      PROVE  Len(t) >= 4 /\ From(t, 4) \in TokenLists /\ Len(From(t, 4)) = Len(t) - 3
  <2>1. 3 \in 1..Len(t) /\ 3 + 1 = 4
    BY <1>1, <1>3, <1>4
  <2>2. 3 < Len(t) /\ From(t, 4) \in TokenLists /\ Len(From(t, 4)) = Len(t) - 3
    BY <1>4, <2>1, TokenListNext
  <2> QED
    BY <1>1, <2>2
<1> QED
  BY <1>1, <1>2, <1>3, <1>4

\* A set literal is a set of strings, and the only one.
LEMMA SetLiteralTyped ==
    ASSUME NEW tokens \in TokenLists, NEW f, ParsesShorter(f, tokens)
    PROVE  setLiteral(tokens, f) \in OneOf(SetsOf(tokens))
<1>1. {} \in OneOf(SetsOf(tokens))
  BY DEF OneOf
<1>2. CASE tokens[1].kind = "RBrace"
  <2>1. Tail(tokens) \in TokenLists /\ Len(Tail(tokens)) < Len(tokens)
    BY <1>2, TokenListFirst
  <2>2. [set |-> {}, rem |-> Tail(tokens)] \in SetsOf(tokens)
    BY <2>1 DEF SetsOf
  <2> QED
    BY <1>2, <2>2 DEF setLiteral, OneOf
<1>3. CASE tokens[1].kind = "StringLiteral" /\ tokens[2].kind = "RBrace"
  <2>1. /\ From(tokens, 3) \in TokenLists /\ Len(From(tokens, 3)) < Len(tokens)
        /\ tokens[1] \in Tokens
    BY <1>3, TokenListFirst
  <2>2. tokens[1].value \in Spellings
    BY <2>1 DEF Tokens, Spellings
  <2>3. [set |-> {tokens[1].value}, rem |-> From(tokens, 3)] \in SetsOf(tokens)
    BY <2>1, <2>2 DEF SetsOf
  <2> QED
    BY <1>3, <2>3 DEF setLiteral, OneOf
<1>4. CASE tokens[1].kind = "StringLiteral" /\ tokens[2].kind = "Comma"
  <2> DEFINE R == f[From(tokens, 3)].set
  <2>1. /\ From(tokens, 3) \in TokenLists /\ Len(From(tokens, 3)) < Len(tokens)
        /\ Len(tokens) \in Nat /\ tokens[1] \in Tokens
    BY <1>4, TokenListFirst
  <2>2. tokens[1].value \in Spellings
    BY <2>1 DEF Tokens, Spellings
  <2>3. R \in OneOf(SetsOf(From(tokens, 3)))
    BY <2>1 DEF ParsesShorter, ParseType
  <2>4. ASSUME NEW s \in R
        PROVE  [set |-> {tokens[1].value} \cup s.set, rem |-> s.rem] \in SetsOf(tokens)
    <3>1. s \in [set : SUBSET Spellings, rem : TokenLists] /\ Len(s.rem) < Len(From(tokens, 3))
      BY <2>3 DEF OneOf, SetsOf
    <3>2. Len(s.rem) \in Nat /\ Len(From(tokens, 3)) \in Nat
      BY <2>1, <3>1, TokenListFirst
    <3> QED
      BY <2>1, <2>2, <3>1, <3>2 DEF SetsOf
  <2>5. setLiteral(tokens, f) = {[set |-> {tokens[1].value} \cup s.set, rem |-> s.rem] : s \in R}
    BY <1>4 DEF setLiteral
  <2>6. \A s, t \in R : s = t
    BY <2>3 DEF OneOf
  <2> HIDE DEF R
  <2> QED
    BY <2>4, <2>5, <2>6 DEF OneOf
<1>5. CASE ~(tokens[1].kind = "RBrace") /\ ~(tokens[1].kind = "StringLiteral" /\ tokens[2].kind = "RBrace")
           /\ ~(tokens[1].kind = "StringLiteral" /\ tokens[2].kind = "Comma")
  BY <1>1, <1>5 DEF setLiteral
<1> QED
  BY <1>2, <1>3, <1>4, <1>5

\* A label's test is a node, and the only one.
LEMMA LabelOperationTyped ==
    ASSUME NEW tokens \in TokenLists, NEW f, ParsesShorter(f, tokens), tokens[1].kind = "Label"
    PROVE  labelOperation(tokens, f) \in OneOf(NodesOf(tokens))
<1> DEFINE op == tokens[2].kind
           k  == tokens[1].value
<1>1. {} \in OneOf(NodesOf(tokens))
  BY DEF OneOf
<1>2. CASE Len(tokens) < 3
  BY <1>1, <1>2 DEF labelOperation
<1>3. CASE ~(Len(tokens) < 3) /\ op \in {"Eq", "Ne", "Contains", "StartsWith", "EndsWith"}
           /\ tokens[3].kind = "StringLiteral"
  <2>1. From(tokens, 4) \in TokenLists /\ Len(From(tokens, 4)) < Len(tokens)
    BY <1>3, TokenListFirst
  <2>2. labelValueNode(op, k, tokens[3].value) \in SUBSET Labellings
    BY <1>3 DEF labelValueNode, Having
  <2>3. Parsed(labelValueNode(op, k, tokens[3].value), From(tokens, 4)) \in NodesOf(tokens)
    BY <2>1, <2>2 DEF NodesOf, Parsed
  <2>4. labelOperation(tokens, f) = {Parsed(labelValueNode(op, k, tokens[3].value), From(tokens, 4))}
    BY <1>3 DEF labelOperation
  <2> QED
    BY <2>3, <2>4 DEF OneOf
<1>4. CASE ~(Len(tokens) < 3) /\ op \in {"In", "NotIn"} /\ tokens[3].kind = "LBrace"
  <2> DEFINE R == f[From(tokens, 4)].set
  <2>1. /\ From(tokens, 4) \in TokenLists /\ Len(From(tokens, 4)) < Len(tokens)
        /\ Len(tokens) \in Nat
    BY <1>4, TokenListFirst
  <2>2. R \in OneOf(SetsOf(From(tokens, 4)))
    BY <2>1 DEF ParsesShorter, ParseType
  <2>3. ASSUME NEW s \in R
        PROVE  Parsed(labelSetNode(op, k, s.set), s.rem) \in NodesOf(tokens)
    <3>1. s.rem \in TokenLists /\ Len(s.rem) < Len(From(tokens, 4))
      BY <2>2 DEF OneOf, SetsOf
    <3>2. Len(s.rem) \in Nat /\ Len(From(tokens, 4)) \in Nat
      BY <2>1, <3>1, TokenListFirst
    <3>3. labelSetNode(op, k, s.set) \in SUBSET Labellings
      BY <1>4 DEF labelSetNode, Having
    <3> QED
      BY <2>1, <3>1, <3>2, <3>3 DEF NodesOf, Parsed
  <2>4. labelOperation(tokens, f) = {Parsed(labelSetNode(op, k, s.set), s.rem) : s \in R}
    BY <1>4 DEF labelOperation
  <2>5. \A s, t \in R : s = t
    BY <2>2 DEF OneOf
  <2> HIDE DEF R
  <2> QED
    BY <2>3, <2>4, <2>5 DEF OneOf
<1>5. CASE ~(Len(tokens) < 3) /\ ~(op \in {"In", "NotIn"} /\ tokens[3].kind = "LBrace")
           /\ ~(op \in {"Eq", "Ne", "Contains", "StartsWith", "EndsWith"} /\ tokens[3].kind = "StringLiteral")
  BY <1>1, <1>5 DEF labelOperation
<1> QED
  BY <1>2, <1>3, <1>4, <1>5
\* So is what negations may precede.
LEMMA OperandTyped ==
    ASSUME NEW tokens \in TokenLists, NEW f, ParsesShorter(f, tokens)
    PROVE  operand(tokens, f) \in OneOf(NodesOf(tokens))
<1> DEFINE kind == tokens[1].kind
<1>1. CASE kind = "Has"
  <2>1. Tail(tokens) \in TokenLists /\ Len(Tail(tokens)) < Len(tokens)
    BY <1>1, TokenListFirst
  <2>2. Parsed(Having(tokens[1].value), Tail(tokens)) \in NodesOf(tokens)
    BY <2>1 DEF NodesOf, Parsed, Having
  <2> QED
    BY <1>1, <2>2 DEF operand, OneOf
<1>2. CASE kind \in {"All", "Global"}
  <2>1. Tail(tokens) \in TokenLists /\ Len(Tail(tokens)) < Len(tokens)
    BY <1>2, TokenListFirst
  <2>2. Parsed(Labellings, Tail(tokens)) \in NodesOf(tokens)
    BY <2>1 DEF NodesOf, Parsed
  <2> QED
    BY <1>2, <2>2 DEF operand, OneOf
<1>3. CASE kind = "Label"
  <2>1. operand(tokens, f) = labelOperation(tokens, f)
    BY <1>3 DEF operand
  <2> QED
    BY <1>3, <2>1, LabelOperationTyped
<1>4. CASE kind = "LParen"
  <2> DEFINE R == {q \in f[Tail(tokens)].orExpression : q.rem[1].kind = "RParen"}
  <2>1. Tail(tokens) \in TokenLists /\ Len(Tail(tokens)) < Len(tokens) /\ Len(tokens) \in Nat
    BY <1>4, TokenListFirst
  <2>2. f[Tail(tokens)].orExpression \in OneOf(NodesOf(Tail(tokens)))
    BY <2>1 DEF ParsesShorter, ParseType
  <2>3. ASSUME NEW p \in R PROVE Parsed(p.node, Tail(p.rem)) \in NodesOf(tokens)
    <3>1. /\ p.rem \in TokenLists /\ Len(p.rem) < Len(Tail(tokens)) /\ p.node \in SUBSET Labellings
          /\ p.rem[1].kind = "RParen"
      BY <2>2 DEF OneOf, NodesOf
    <3>2. /\ Len(p.rem) \in Nat /\ Len(Tail(tokens)) \in Nat
          /\ Tail(p.rem) \in TokenLists /\ Len(Tail(p.rem)) = Len(p.rem) - 1
      BY <2>1, <3>1, TokenListFirst
    <3> QED
      BY <2>1, <3>1, <3>2 DEF NodesOf, Parsed
  <2>4. operand(tokens, f) = {Parsed(p.node, Tail(p.rem)) : p \in R}
    BY <1>4 DEF operand
  <2>5. \A s, t \in R : s = t
    BY <2>2 DEF OneOf
  <2> HIDE DEF R
  <2> QED
    BY <2>3, <2>4, <2>5 DEF OneOf
<1>5. CASE kind \notin {"Has", "All", "Global", "Label", "LParen"}
  BY <1>5 DEF operand, OneOf
<1> QED
  BY <1>1, <1>2, <1>3, <1>4, <1>5

\* So is an operation.
LEMMA OperationTyped ==
    ASSUME NEW tokens \in TokenLists, NEW f, ParsesShorter(f, tokens)
    PROVE  parseOperation(tokens, f) \in OneOf(NodesOf(tokens))
<1>1. CASE tokens[1].kind = "Not"
  <2> DEFINE R == f[Tail(tokens)].operation
  <2>1. Tail(tokens) \in TokenLists /\ Len(Tail(tokens)) < Len(tokens) /\ Len(tokens) \in Nat
    BY <1>1, TokenListFirst
  <2>2. R \in OneOf(NodesOf(Tail(tokens)))
    BY <2>1 DEF ParsesShorter, ParseType
  <2>3. ASSUME NEW p \in R PROVE Parsed(notNode(p.node), p.rem) \in NodesOf(tokens)
    <3>1. p.rem \in TokenLists /\ Len(p.rem) < Len(Tail(tokens))
      BY <2>2 DEF OneOf, NodesOf
    <3>2. Len(p.rem) \in Nat /\ Len(Tail(tokens)) \in Nat
      BY <2>1, <3>1, TokenListFirst
    <3> QED
      BY <2>1, <3>1, <3>2 DEF NodesOf, Parsed, notNode
  <2>4. parseOperation(tokens, f) = {Parsed(notNode(p.node), p.rem) : p \in R}
    BY <1>1 DEF parseOperation
  <2>5. \A s, t \in R : s = t
    BY <2>2 DEF OneOf
  <2> HIDE DEF R
  <2> QED
    BY <2>3, <2>4, <2>5 DEF OneOf
<1>2. CASE tokens[1].kind # "Not"
  BY <1>2, OperandTyped DEF parseOperation
<1> QED
  BY <1>1, <1>2

\* A conjunction: a first operation alone, or one before "&&" and the rest.
AndReads(operations, f, p) ==
    \E o \in operations :
        IF o.rem[1].kind = "And"
        THEN \E q \in f[Tail(o.rem)].andExpression : p = Parsed(andNode(o.node, q.node), q.rem)
        ELSE p = o

\* The nodes of a conjunction.
LEMMA AndElements ==
    ASSUME NEW operations, NEW f
    PROVE  \A p : p \in parseAndExpression(operations, f) <=> AndReads(operations, f, p)
<1> DEFINE W(o) == IF o.rem[1].kind = "And"
                   THEN {Parsed(andNode(o.node, q.node), q.rem) : q \in f[Tail(o.rem)].andExpression}
                   ELSE {o}
<1> TAKE p
<1>1. parseAndExpression(operations, f) = UNION {W(o) : o \in operations}
  BY DEF parseAndExpression
<1>2. p \in parseAndExpression(operations, f) <=> \E o \in operations : p \in W(o)
  <2> HIDE DEF W
  <2> QED
    BY <1>1
<1>3. ASSUME NEW o
      PROVE  p \in W(o) <=> IF o.rem[1].kind = "And"
                             THEN \E q \in f[Tail(o.rem)].andExpression : p = Parsed(andNode(o.node, q.node), q.rem)
                             ELSE p = o
  OBVIOUS
<1> QED
  BY <1>2, <1>3, Zenon DEF AndReads

\* A conjunction is a node, and the only one.
LEMMA AndTyped ==
    ASSUME NEW tokens \in TokenLists, NEW f, ParsesShorter(f, tokens),
           NEW operations \in OneOf(NodesOf(tokens))
    PROVE  parseAndExpression(operations, f) \in OneOf(NodesOf(tokens))
<1> DEFINE R == parseAndExpression(operations, f)
<1>1. ASSUME NEW o \in operations
      PROVE  /\ o \in NodesOf(tokens) /\ o.rem \in TokenLists
             /\ o.rem[1].kind = "And" =>
                    /\ Len(Tail(o.rem)) < Len(tokens)
                    /\ f[Tail(o.rem)].andExpression \in OneOf(NodesOf(Tail(o.rem)))
  <2>1. o \in NodesOf(tokens) /\ o.rem \in TokenLists /\ Len(o.rem) < Len(tokens)
    BY DEF OneOf, NodesOf
  <2>2. ASSUME o.rem[1].kind = "And"
        PROVE  /\ Len(Tail(o.rem)) < Len(tokens)
               /\ f[Tail(o.rem)].andExpression \in OneOf(NodesOf(Tail(o.rem)))
    <3>1. /\ Tail(o.rem) \in TokenLists /\ Len(Tail(o.rem)) = Len(o.rem) - 1
          /\ Len(o.rem) \in Nat /\ Len(tokens) \in Nat
      BY <2>1, <2>2, TokenListFirst
    <3>2. Len(Tail(o.rem)) < Len(tokens)
      BY <2>1, <3>1
    <3>3. f[Tail(o.rem)] \in ParseType(Tail(o.rem))
      BY <3>1, <3>2 DEF ParsesShorter
    <3> QED
      BY <3>2, <3>3 DEF ParseType
  <2> QED
    BY <2>1, <2>2
<1>2. ASSUME NEW p \in R PROVE p \in NodesOf(tokens)
  <2>1. PICK o \in operations :
            IF o.rem[1].kind = "And"
            THEN \E q \in f[Tail(o.rem)].andExpression : p = Parsed(andNode(o.node, q.node), q.rem)
            ELSE p = o
    BY AndElements DEF AndReads
  <2>2. CASE o.rem[1].kind = "And"
    <3>1. PICK q \in f[Tail(o.rem)].andExpression : p = Parsed(andNode(o.node, q.node), q.rem)
      BY <2>1, <2>2
    <3>2. /\ q.rem \in TokenLists /\ Len(q.rem) < Len(Tail(o.rem)) /\ q.node \in SUBSET Labellings
          /\ Tail(o.rem) \in TokenLists /\ Len(Tail(o.rem)) < Len(tokens)
      <4>1. f[Tail(o.rem)].andExpression \in OneOf(NodesOf(Tail(o.rem))) /\ Len(Tail(o.rem)) < Len(tokens)
        BY <1>1, <2>2
      <4>2. Tail(o.rem) \in TokenLists
        BY <1>1, <2>2, TokenListFirst
      <4> QED
        BY <4>1, <4>2 DEF OneOf, NodesOf
    <3>3. Len(q.rem) \in Nat /\ Len(Tail(o.rem)) \in Nat /\ Len(tokens) \in Nat
      BY <3>2, TokenListFirst
    <3>4. andNode(o.node, q.node) \in SUBSET Labellings
      BY <3>2 DEF andNode
    <3> QED
      BY <3>1, <3>2, <3>3, <3>4 DEF NodesOf, Parsed
  <2>3. CASE o.rem[1].kind # "And"
    BY <1>1, <2>1, <2>3
  <2> QED
    BY <2>2, <2>3
<1>3. ASSUME NEW p \in R, NEW r \in R PROVE p = r
  <2>1. PICK o \in operations :
            IF o.rem[1].kind = "And"
            THEN \E q \in f[Tail(o.rem)].andExpression : p = Parsed(andNode(o.node, q.node), q.rem)
            ELSE p = o
    BY AndElements DEF AndReads
  <2>2. PICK s \in operations :
            IF s.rem[1].kind = "And"
            THEN \E q \in f[Tail(s.rem)].andExpression : r = Parsed(andNode(s.node, q.node), q.rem)
            ELSE r = s
    BY AndElements DEF AndReads
  <2>3. s = o
    BY DEF OneOf
  <2>4. CASE o.rem[1].kind = "And"
    <3>1. \A q, u \in f[Tail(o.rem)].andExpression : q = u
      BY <1>1, <2>4 DEF OneOf
    <3> QED
      BY <2>1, <2>2, <2>3, <2>4, <3>1, Zenon
  <2>5. CASE o.rem[1].kind # "And"
    BY <2>1, <2>2, <2>3, <2>5
  <2> QED
    BY <2>4, <2>5
<1> HIDE DEF R
<1>4. R \in OneOf(NodesOf(tokens))
  BY <1>2, <1>3 DEF OneOf
<1> QED
  BY <1>4 DEF R
\* A disjunction: a first conjunction alone, or one before "||" and the rest.
OrReads(operations, f, p) ==
    \E o \in operations :
        IF o.rem[1].kind = "Or"
        THEN \E q \in f[Tail(o.rem)].orExpression : p = Parsed(orNode(o.node, q.node), q.rem)
        ELSE p = o

\* The nodes of a disjunction.
LEMMA OrElements ==
    ASSUME NEW operations, NEW f
    PROVE  \A p : p \in parseOrExpression(operations, f) <=> OrReads(operations, f, p)
<1> DEFINE W(o) == IF o.rem[1].kind = "Or"
                   THEN {Parsed(orNode(o.node, q.node), q.rem) : q \in f[Tail(o.rem)].orExpression}
                   ELSE {o}
<1> TAKE p
<1>1. parseOrExpression(operations, f) = UNION {W(o) : o \in operations}
  BY DEF parseOrExpression
<1>2. p \in parseOrExpression(operations, f) <=> \E o \in operations : p \in W(o)
  <2> HIDE DEF W
  <2> QED
    BY <1>1
<1>3. ASSUME NEW o
      PROVE  p \in W(o) <=> IF o.rem[1].kind = "Or"
                             THEN \E q \in f[Tail(o.rem)].orExpression : p = Parsed(orNode(o.node, q.node), q.rem)
                             ELSE p = o
  OBVIOUS
<1> QED
  BY <1>2, <1>3, Zenon DEF OrReads

\* A disjunction is a node, and the only one.
LEMMA OrTyped ==
    ASSUME NEW tokens \in TokenLists, NEW f, ParsesShorter(f, tokens),
           NEW operations \in OneOf(NodesOf(tokens))
    PROVE  parseOrExpression(operations, f) \in OneOf(NodesOf(tokens))
<1> DEFINE R == parseOrExpression(operations, f)
<1>1. ASSUME NEW o \in operations
      PROVE  /\ o \in NodesOf(tokens) /\ o.rem \in TokenLists
             /\ o.rem[1].kind = "Or" =>
                    /\ Len(Tail(o.rem)) < Len(tokens)
                    /\ f[Tail(o.rem)].orExpression \in OneOf(NodesOf(Tail(o.rem)))
  <2>1. o \in NodesOf(tokens) /\ o.rem \in TokenLists /\ Len(o.rem) < Len(tokens)
    BY DEF OneOf, NodesOf
  <2>2. ASSUME o.rem[1].kind = "Or"
        PROVE  /\ Len(Tail(o.rem)) < Len(tokens)
               /\ f[Tail(o.rem)].orExpression \in OneOf(NodesOf(Tail(o.rem)))
    <3>1. /\ Tail(o.rem) \in TokenLists /\ Len(Tail(o.rem)) = Len(o.rem) - 1
          /\ Len(o.rem) \in Nat /\ Len(tokens) \in Nat
      BY <2>1, <2>2, TokenListFirst
    <3>2. Len(Tail(o.rem)) < Len(tokens)
      BY <2>1, <3>1
    <3>3. f[Tail(o.rem)] \in ParseType(Tail(o.rem))
      BY <3>1, <3>2 DEF ParsesShorter
    <3> QED
      BY <3>2, <3>3 DEF ParseType
  <2> QED
    BY <2>1, <2>2
<1>2. ASSUME NEW p \in R PROVE p \in NodesOf(tokens)
  <2>1. PICK o \in operations :
            IF o.rem[1].kind = "Or"
            THEN \E q \in f[Tail(o.rem)].orExpression : p = Parsed(orNode(o.node, q.node), q.rem)
            ELSE p = o
    BY OrElements DEF OrReads
  <2>2. CASE o.rem[1].kind = "Or"
    <3>1. PICK q \in f[Tail(o.rem)].orExpression : p = Parsed(orNode(o.node, q.node), q.rem)
      BY <2>1, <2>2
    <3>2. /\ q.rem \in TokenLists /\ Len(q.rem) < Len(Tail(o.rem)) /\ q.node \in SUBSET Labellings
          /\ Tail(o.rem) \in TokenLists /\ Len(Tail(o.rem)) < Len(tokens)
      <4>1. f[Tail(o.rem)].orExpression \in OneOf(NodesOf(Tail(o.rem))) /\ Len(Tail(o.rem)) < Len(tokens)
        BY <1>1, <2>2
      <4>2. Tail(o.rem) \in TokenLists
        BY <1>1, <2>2, TokenListFirst
      <4> QED
        BY <4>1, <4>2 DEF OneOf, NodesOf
    <3>3. Len(q.rem) \in Nat /\ Len(Tail(o.rem)) \in Nat /\ Len(tokens) \in Nat
      BY <3>2, TokenListFirst
    <3>4. orNode(o.node, q.node) \in SUBSET Labellings
      BY <1>1, <3>2 DEF orNode, NodesOf
    <3> QED
      BY <3>1, <3>2, <3>3, <3>4 DEF NodesOf, Parsed
  <2>3. CASE o.rem[1].kind # "Or"
    BY <1>1, <2>1, <2>3
  <2> QED
    BY <2>2, <2>3
<1>3. ASSUME NEW p \in R, NEW r \in R PROVE p = r
  <2>1. PICK o \in operations :
            IF o.rem[1].kind = "Or"
            THEN \E q \in f[Tail(o.rem)].orExpression : p = Parsed(orNode(o.node, q.node), q.rem)
            ELSE p = o
    BY OrElements DEF OrReads
  <2>2. PICK s \in operations :
            IF s.rem[1].kind = "Or"
            THEN \E q \in f[Tail(s.rem)].orExpression : r = Parsed(orNode(s.node, q.node), q.rem)
            ELSE r = s
    BY OrElements DEF OrReads
  <2>3. s = o
    BY DEF OneOf
  <2>4. CASE o.rem[1].kind = "Or"
    <3>1. \A q, u \in f[Tail(o.rem)].orExpression : q = u
      BY <1>1, <2>4 DEF OneOf
    <3> QED
      BY <2>1, <2>2, <2>3, <2>4, <3>1, Zenon
  <2>5. CASE o.rem[1].kind # "Or"
    BY <2>1, <2>2, <2>3, <2>5
  <2> QED
    BY <2>4, <2>5
<1> HIDE DEF R
<1>4. R \in OneOf(NodesOf(tokens))
  BY <1>2, <1>3 DEF OneOf
<1> QED
  BY <1>4 DEF R

ParseStep(tokens, f) ==
    LET operations  == parseOperation(tokens, f)
        expressions == parseAndExpression(operations, f)
    IN  [set |-> setLiteral(tokens, f), operation |-> operations,
         andExpression |-> expressions, orExpression |-> parseOrExpression(expressions, f)]

\* What the parser makes of a list has the types of what it makes.
LEMMA ParseStepTyped ==
    ASSUME NEW tokens \in TokenLists, NEW f, ParsesShorter(f, tokens)
    PROVE  ParseStep(tokens, f) \in ParseType(tokens)
<1> DEFINE o == parseOperation(tokens, f)
           e == parseAndExpression(o, f)
           d == parseOrExpression(e, f)
           s == setLiteral(tokens, f)
<1>1. o \in OneOf(NodesOf(tokens)) /\ s \in OneOf(SetsOf(tokens))
  BY OperationTyped, SetLiteralTyped
<1> HIDE DEF o, s
<1>2. e \in OneOf(NodesOf(tokens))
  BY <1>1, AndTyped
<1> HIDE DEF e
<1>3. d \in OneOf(NodesOf(tokens))
  BY <1>2, OrTyped
<1>4. ParseStep(tokens, f) = [set |-> s, operation |-> o, andExpression |-> e, orExpression |-> d]
  BY DEF ParseStep, o, e, d, s
<1> HIDE DEF d
<1> QED
  BY <1>1, <1>2, <1>3, <1>4 DEF ParseType

\* f and g make the same of the lists that are shorter.
AgreeShorter(f, g, list) == \A y \in TokenLists : Len(y) < Len(list) => f[y] = g[y]

\* Operations ask only for what shorter lists are.
LEMMA OperationLocal ==
    ASSUME NEW tokens \in TokenLists, NEW f, NEW g, AgreeShorter(f, g, tokens)
    PROVE  parseOperation(tokens, f) = parseOperation(tokens, g) /\ setLiteral(tokens, f) = setLiteral(tokens, g)
<1>1. ASSUME tokens[1].kind # "EOF" PROVE f[Tail(tokens)] = g[Tail(tokens)]
  <2>1. Tail(tokens) \in TokenLists /\ Len(Tail(tokens)) < Len(tokens)
    BY <1>1, TokenListFirst
  <2> QED
    BY <2>1 DEF AgreeShorter
<1>2. ASSUME tokens[1].kind # "EOF", tokens[2].kind # "EOF" PROVE f[From(tokens, 3)] = g[From(tokens, 3)]
  BY <1>2, TokenListFirst DEF AgreeShorter
<1>3. ASSUME tokens[1].kind # "EOF", tokens[2].kind # "EOF", tokens[3].kind # "EOF"
      PROVE f[From(tokens, 4)] = g[From(tokens, 4)]
  BY <1>3, TokenListFirst DEF AgreeShorter
<1>4. setLiteral(tokens, f) = setLiteral(tokens, g)
  <2>1. CASE tokens[1].kind = "StringLiteral" /\ tokens[2].kind = "Comma"
    <3>1. f[From(tokens, 3)] = g[From(tokens, 3)]
      BY <1>2, <2>1
    <3> QED
      BY <3>1, Zenon DEF setLiteral
  <2>2. CASE ~(tokens[1].kind = "StringLiteral" /\ tokens[2].kind = "Comma")
    BY <2>2, Zenon DEF setLiteral
  <2> QED
    BY <2>1, <2>2
<1>5. ASSUME tokens[1].kind = "Label" PROVE labelOperation(tokens, f) = labelOperation(tokens, g)
  <2>1. CASE tokens[2].kind \in {"In", "NotIn"} /\ tokens[3].kind = "LBrace"
    <3>1. f[From(tokens, 4)] = g[From(tokens, 4)]
      BY <1>3, <1>5, <2>1
    <3> QED
      BY <3>1, Zenon DEF labelOperation
  <2>2. CASE ~(tokens[2].kind \in {"In", "NotIn"} /\ tokens[3].kind = "LBrace")
    BY <2>2, Zenon DEF labelOperation
  <2> QED
    BY <2>1, <2>2
<1>6. operand(tokens, f) = operand(tokens, g)
  <2>1. CASE tokens[1].kind = "LParen"
    <3>1. f[Tail(tokens)] = g[Tail(tokens)]
      BY <1>1, <2>1
    <3>2. /\ operand(tokens, f) = {Parsed(p.node, Tail(p.rem)) :
                p \in {q \in f[Tail(tokens)].orExpression : q.rem[1].kind = "RParen"}}
          /\ operand(tokens, g) = {Parsed(p.node, Tail(p.rem)) :
                p \in {q \in g[Tail(tokens)].orExpression : q.rem[1].kind = "RParen"}}
      BY <2>1 DEF operand
    <3> QED
      BY <3>1, <3>2, Zenon
  <2>2. CASE tokens[1].kind = "Label"
    BY <1>5, <2>2 DEF operand
  <2>3. CASE tokens[1].kind \notin {"Label", "LParen"}
    BY <2>3 DEF operand
  <2> QED
    BY <2>1, <2>2, <2>3
<1>7. parseOperation(tokens, f) = parseOperation(tokens, g)
  <2>1. CASE tokens[1].kind = "Not"
    <3>1. f[Tail(tokens)] = g[Tail(tokens)]
      BY <1>1, <2>1
    <3> QED
      BY <1>6, <3>1, Zenon DEF parseOperation
  <2>2. CASE tokens[1].kind # "Not"
    BY <1>6, <2>2 DEF parseOperation
  <2> QED
    BY <2>1, <2>2
<1> QED
  BY <1>4, <1>7

\* So do conjunctions.
LEMMA AndLocal ==
    ASSUME NEW tokens \in TokenLists, NEW f, NEW g, AgreeShorter(f, g, tokens),
           NEW operations \in OneOf(NodesOf(tokens))
    PROVE  parseAndExpression(operations, f) = parseAndExpression(operations, g)
<1>1. ASSUME NEW o \in operations, o.rem[1].kind = "And" PROVE f[Tail(o.rem)] = g[Tail(o.rem)]
  <2>1. o.rem \in TokenLists /\ Len(o.rem) < Len(tokens)
    BY DEF OneOf, NodesOf
  <2>2. /\ Tail(o.rem) \in TokenLists /\ Len(Tail(o.rem)) = Len(o.rem) - 1
        /\ Len(o.rem) \in Nat /\ Len(tokens) \in Nat
    BY <1>1, <2>1, TokenListFirst
  <2>3. Len(Tail(o.rem)) < Len(tokens)
    BY <2>1, <2>2
  <2> QED
    BY <2>2, <2>3 DEF AgreeShorter
<1>2. ASSUME NEW p PROVE p \in parseAndExpression(operations, f) <=> p \in parseAndExpression(operations, g)
  <2>1. /\ p \in parseAndExpression(operations, f) <=> AndReads(operations, f, p)
        /\ p \in parseAndExpression(operations, g) <=> AndReads(operations, g, p)
    BY AndElements
  <2>2. AndReads(operations, f, p) <=> AndReads(operations, g, p)
    BY <1>1, Zenon DEF AndReads
  <2> QED
    BY <2>1, <2>2
<1> QED
  BY <1>2

\* So do disjunctions.
LEMMA OrLocal ==
    ASSUME NEW tokens \in TokenLists, NEW f, NEW g, AgreeShorter(f, g, tokens),
           NEW operations \in OneOf(NodesOf(tokens))
    PROVE  parseOrExpression(operations, f) = parseOrExpression(operations, g)
<1>1. ASSUME NEW o \in operations, o.rem[1].kind = "Or" PROVE f[Tail(o.rem)] = g[Tail(o.rem)]
  <2>1. o.rem \in TokenLists /\ Len(o.rem) < Len(tokens)
    BY DEF OneOf, NodesOf
  <2>2. /\ Tail(o.rem) \in TokenLists /\ Len(Tail(o.rem)) = Len(o.rem) - 1
        /\ Len(o.rem) \in Nat /\ Len(tokens) \in Nat
    BY <1>1, <2>1, TokenListFirst
  <2>3. Len(Tail(o.rem)) < Len(tokens)
    BY <2>1, <2>2
  <2> QED
    BY <2>2, <2>3 DEF AgreeShorter
<1>2. ASSUME NEW p PROVE p \in parseOrExpression(operations, f) <=> p \in parseOrExpression(operations, g)
  <2>1. /\ p \in parseOrExpression(operations, f) <=> OrReads(operations, f, p)
        /\ p \in parseOrExpression(operations, g) <=> OrReads(operations, g, p)
    BY OrElements
  <2>2. OrReads(operations, f, p) <=> OrReads(operations, g, p)
    BY <1>1, Zenon DEF OrReads
  <2> QED
    BY <2>1, <2>2
<1> QED
  BY <1>2

\* So does the parser.
LEMMA ParseStepLocal ==
    ASSUME NEW tokens \in TokenLists, NEW f, NEW g, AgreeShorter(f, g, tokens), ParsesShorter(f, tokens)
    PROVE  ParseStep(tokens, f) = ParseStep(tokens, g)
<1> DEFINE o == parseOperation(tokens, f)
           e == parseAndExpression(o, f)
<1>1. o = parseOperation(tokens, g) /\ setLiteral(tokens, f) = setLiteral(tokens, g)
  BY OperationLocal
<1>2. o \in OneOf(NodesOf(tokens))
  BY OperationTyped
<1>3. ParseStep(tokens, f) = [set |-> setLiteral(tokens, f), operation |-> o, andExpression |-> e,
                              orExpression |-> parseOrExpression(e, f)]
  BY DEF ParseStep
<1>4. ParseStep(tokens, g) = [set |-> setLiteral(tokens, f), operation |-> o,
                              andExpression |-> parseAndExpression(o, g),
                              orExpression |-> parseOrExpression(parseAndExpression(o, g), g)]
  BY <1>1 DEF ParseStep
<1> HIDE DEF o
<1>5. e = parseAndExpression(o, g) /\ e \in OneOf(NodesOf(tokens))
  BY <1>2, AndLocal, AndTyped
<1> HIDE DEF e
<1>6. parseOrExpression(e, f) = parseOrExpression(e, g)
  BY <1>5, OrLocal
<1> QED
  BY <1>3, <1>4, <1>5, <1>6

\* parse is what its definition says, and has those types.
LEMMA ParseEquation ==
    /\ parse = [tokens \in TokenLists |-> ParseStep(tokens, parse)]
    /\ \A tokens \in TokenLists : parse[tokens] \in ParseType(tokens)
<1> DEFINE AnyNodes == SUBSET [node : SUBSET Labellings, rem : TokenLists]
           U == [set : SUBSET [set : SUBSET Spellings, rem : TokenLists], operation : AnyNodes,
                 andExpression : AnyNodes, orExpression : AnyNodes]
           T == [tokens \in TokenLists |-> ParseType(tokens)]
           m == [tokens \in TokenLists |-> Len(tokens)]
           G == Typed(TokenLists, U, T)
           F == [x \in TokenLists |-> [g \in G |-> ParseStep(x, g)]]
<1>1. T \in [TokenLists -> SUBSET U] /\ m \in [TokenLists -> Nat]
  <2>1. ASSUME NEW x \in TokenLists PROVE ParseType(x) \subseteq U /\ Len(x) \in Nat
    BY TokenListFirst DEF ParseType, OneOf, NodesOf, SetsOf
  <2> HIDE DEF U
  <2> QED
    BY <2>1
<1>2. \A x \in TokenLists : T[x] # {}
  <2>1. ASSUME NEW x \in TokenLists
        PROVE  [set |-> {}, operation |-> {}, andExpression |-> {}, orExpression |-> {}] \in ParseType(x)
    BY DEF ParseType, OneOf
  <2> QED
    BY <2>1
<1> HIDE DEF U
<1>3. ASSUME NEW x \in TokenLists, NEW g \in G PROVE ParsesShorter(g, x)
  BY DEF Typed, ParsesShorter
<1>4. ASSUME NEW x \in TokenLists, NEW g \in G PROVE ParseStep(x, g) \in ParseType(x)
  BY <1>3, ParseStepTyped
<1>5. F \in [TokenLists -> [G -> U]]
  <2>1. \A x \in TokenLists, g \in G : ParseStep(x, g) \in U
    BY <1>1, <1>4
  <2> QED
    BY <2>1
<1>6. \A x \in TokenLists, g \in G : F[x][g] \in T[x]
  BY <1>4
<1>7. ASSUME NEW x \in TokenLists, NEW g \in G, NEW h \in G, \A y \in TokenLists : m[y] < m[x] => g[y] = h[y]
      PROVE  F[x][g] = F[x][h]
  <2>1. AgreeShorter(g, h, x)
    BY <1>7 DEF AgreeShorter
  <2> QED
    BY <1>3, <2>1, ParseStepLocal
<1>8. \E f \in G : \A x \in TokenLists : f[x] = F[x][f]
  <2>1. \A x \in TokenLists, g, h \in G :
            (\A y \in TokenLists : m[y] < m[x] => g[y] = h[y]) => F[x][g] = F[x][h]
    BY <1>7
  <2> HIDE DEF T, m, F
  <2>2. RecursiveStep(TokenLists, U, T, m, F)
    BY <1>1, <1>2, <1>5, <1>6, <2>1, Zenon DEF RecursiveStep
  <2> QED
    BY <2>2, RecursiveFunction
<1>9. \E f : f = [tokens \in TokenLists |-> ParseStep(tokens, f)]
  <2>1. PICK f \in G : \A x \in TokenLists : f[x] = F[x][f]
    BY <1>8
  <2>2. f \in [TokenLists -> U] /\ \A x \in TokenLists : f[x] = ParseStep(x, f)
    BY <2>1 DEF Typed
  <2>3. f = [tokens \in TokenLists |-> ParseStep(tokens, f)]
    BY <2>2
  <2> QED
    BY <2>3
<1>10. parse = CHOOSE f : f = [tokens \in TokenLists |-> ParseStep(tokens, f)]
  BY DEF parse, ParseStep
<1>11. parse = [tokens \in TokenLists |-> ParseStep(tokens, parse)]
  BY <1>9, <1>10
<1>12. \A tokens \in TokenLists : parse[tokens] \in ParseType(tokens)
  <2> DEFINE Bad == {n \in Nat : \E x \in TokenLists : Len(x) = n /\ parse[x] \notin ParseType(x)}
  <2> SUFFICES ASSUME Bad # {} PROVE FALSE
    BY TokenListFirst
  <2>1. PICK n \in Bad : \A k \in Bad : n <= k
    BY Least
  <2>2. PICK x \in TokenLists : Len(x) = n /\ parse[x] \notin ParseType(x)
    BY <2>1
  <2>3. ASSUME NEW y \in TokenLists, Len(y) < Len(x) PROVE parse[y] \in ParseType(y)
    <3>1. Len(y) \in Nat /\ Len(y) \notin Bad
      BY <2>1, <2>2, <2>3, TokenListFirst
    <3> QED
      BY <3>1
  <2>4. parse[x] = ParseStep(x, parse) /\ ParsesShorter(parse, x)
    BY <1>11, <2>3 DEF ParsesShorter
  <2> QED
    BY <2>2, <2>4, ParseStepTyped
<1> QED
  BY <1>11, <1>12

-----------------------------------------------------------------------------
(***************************************************************************)
(* The grammar.                                                            *)
(***************************************************************************)
PhrasesOf(text) == {p \in [means : SUBSET Labellings, rest : Text] : Len(p.rest) < Len(text)}
StringsOf(text) == {s \in [means : SUBSET Strings, rest : Text] : Len(s.rest) < Len(text)}

PhraseType(text) ==
    [set : SUBSET StringsOf(text), operation : SUBSET PhrasesOf(text),
     conjunction : SUBSET PhrasesOf(text), disjunction : SUBSET PhrasesOf(text)]

SaysShorter(f, text) == \A y \in Text : Len(y) < Len(text) => f[y] \in PhraseType(y)
SayTheSame(f, g, text) == \A y \in Text : Len(y) < Len(text) => f[y] = g[y]

\* What is after a text's first lexemes is a text.
LEMMA TextFrom ==
    ASSUME NEW text \in Text, NEW i \in 1..Len(text)
    PROVE  /\ text \in Seq(Lexeme) /\ Len(text) \in Nat
           /\ From(text, i + 1) \in Text /\ Len(From(text, i + 1)) = Len(text) - i
           /\ \A j \in 1..(Len(text) - i) : From(text, i + 1)[j] = text[i + j]
           /\ i = 1 => Tail(text) = From(text, i + 1)
<1>1. text \in Seq(Lexeme) /\ Len(text) \in Nat
  BY DEF Text
<1>2. i + 1 \in 1..(Len(text) + 1)
  BY <1>1
<1> DEFINE s == From(text, i + 1)
<1>3. /\ s \in Seq(Lexeme) /\ Len(s) = Len(text) - (i + 1) + 1
      /\ \A j \in 1..(Len(text) - (i + 1) + 1) : s[j] = text[(i + 1) + j - 1]
  BY <1>1, <1>2, FromProperties
<1>4. i = 1 => Tail(text) = s
  BY <1>1, TailIsFrom
<1> HIDE DEF s
<1>5. Len(s) = Len(text) - i
  BY <1>1, <1>3
<1>6. ASSUME NEW j \in 1..(Len(text) - i) PROVE s[j] = text[i + j]
  <2>1. j \in 1..(Len(text) - (i + 1) + 1) /\ (i + 1) + j - 1 = i + j
    BY <1>1
  <2> QED
    BY <1>3, <2>1
<1>7. /\ s \in Text /\ Len(s) = Len(text) - i /\ (\A j \in 1..(Len(text) - i) : s[j] = text[i + j])
      /\ (i = 1 => Tail(text) = s)
  BY <1>3, <1>4, <1>5, <1>6 DEF Text
<1> QED
  BY <1>1, <1>7 DEF s

\* A text that goes on with lexemes.
LEMMA TextFirst ==
    ASSUME NEW text \in Text
    PROVE  /\ text \in Seq(Lexeme) /\ Len(text) \in Nat
           /\ \A i \in 1..Len(text) : text[i] \in Lexeme
           /\ text = <<>> <=> Len(text) = 0
           /\ text # <<>> => Tail(text) \in Text /\ Len(Tail(text)) = Len(text) - 1
                             /\ \A j \in 1..(Len(text) - 1) : Tail(text)[j] = text[j + 1]
           /\ Len(text) >= 2 => From(text, 3) \in Text /\ Len(From(text, 3)) = Len(text) - 2
           /\ Len(text) >= 3 => From(text, 4) \in Text /\ Len(From(text, 4)) = Len(text) - 3
<1>1. text \in Seq(Lexeme) /\ Len(text) \in Nat
  BY DEF Text
<1>2. text = <<>> <=> Len(text) = 0
  BY <1>1
<1>3. \A i \in 1..Len(text) : text[i] \in Lexeme
  BY <1>1
<1>4. ASSUME text # <<>>
      PROVE  Tail(text) \in Text /\ Len(Tail(text)) = Len(text) - 1
             /\ \A j \in 1..(Len(text) - 1) : Tail(text)[j] = text[j + 1]
  BY <1>1, <1>4, TailIsFrom DEF Text
<1>5. ASSUME Len(text) >= 2 PROVE From(text, 3) \in Text /\ Len(From(text, 3)) = Len(text) - 2
  <2>1. 2 \in 1..Len(text) /\ 2 + 1 = 3
    BY <1>1, <1>5
  <2> QED
    BY <2>1, TextFrom
<1>6. ASSUME Len(text) >= 3 PROVE From(text, 4) \in Text /\ Len(From(text, 4)) = Len(text) - 3
  <2>1. 3 \in 1..Len(text) /\ 3 + 1 = 4
    BY <1>1, <1>6
  <2> QED
    BY <2>1, TextFrom
<1> QED
  BY <1>1, <1>2, <1>3, <1>4, <1>5, <1>6

\* How comparisons and memberships are written.
LEMMA WrittenTests ==
    /\ \A c \in Comparisons :
            /\ c[1] \in {"equal", "unequal", "part", "beginning", "ending"}
            /\ Len(c[2]) \in {1, 2} /\ DOMAIN c[2] = 1..Len(c[2])
    /\ \A c \in Memberships :
            c[1] \in {"in", "out"} /\ Len(c[2]) \in {1, 2} /\ DOMAIN c[2] = 1..Len(c[2])
  BY DEF Comparisons, Memberships

\* The labels that pass a comparison at the text's beginning.
PassingLabels(c, text) ==
    {l \in Labellings :
        c[1] # "unequal" <=> text[1].text \in DOMAIN l
                             /\ Passes(c[1], l[text[1].text], text[Len(c[2]) + 2].text)}

\* The phrases that compare a label.
LEMMA ComparedElements ==
    ASSUME NEW text
    PROVE  \A p : p \in Compared(text) <=>
               \E c \in Comparisons : GoesOn(text, c[2], "string")
                    /\ p = Phrase(PassingLabels(c, text), From(text, (Len(c[2]) + 2) + 1))
<1>1. Compared(text) =
        {Phrase(PassingLabels(c, text), From(text, (Len(c[2]) + 2) + 1)) :
            c \in {d \in Comparisons : GoesOn(text, d[2], "string")}}
  BY Zenon DEF Compared, PassingLabels
<1> QED
  BY <1>1, Zenon

\* They are phrases.
LEMMA ComparedTyped ==
    ASSUME NEW text \in Text
    PROVE  Compared(text) \subseteq PhrasesOf(text)
<1>1. ASSUME NEW c \in Comparisons, GoesOn(text, c[2], "string"), NEW A, A \subseteq Labellings
      PROVE  Phrase(A, From(text, (Len(c[2]) + 2) + 1)) \in PhrasesOf(text)
  <2>1. Len(c[2]) \in {1, 2} /\ Len(text) \in Nat /\ Len(text) >= Len(c[2]) + 2
    BY <1>1, WrittenTests, TextFirst DEF GoesOn
  <2>2. Len(c[2]) + 2 \in 1..Len(text)
    BY <2>1
  <2> DEFINE n == Len(c[2]) + 2
  <2>3. From(text, n + 1) \in Text /\ Len(From(text, n + 1)) = Len(text) - n
    BY <2>2, TextFrom
  <2>4. Len(From(text, n + 1)) < Len(text)
    <3>1. n \in 1..Len(text)
      BY <2>2
    <3> HIDE DEF n
    <3> QED
      BY <2>1, <2>3, <3>1
  <2> QED
    BY <1>1, <2>3, <2>4 DEF PhrasesOf, Phrase
<1>2. ASSUME NEW p \in Compared(text) PROVE p \in PhrasesOf(text)
  <2>1. PICK c \in Comparisons :
            GoesOn(text, c[2], "string")
            /\ p = Phrase(PassingLabels(c, text), From(text, (Len(c[2]) + 2) + 1))
    BY ComparedElements
  <2>2. PassingLabels(c, text) \subseteq Labellings
    BY DEF PassingLabels
  <2> QED
    BY <1>1, <2>1, <2>2
<1> QED
  BY <1>2

\* The phrases that a label's set test can be.
MemberReads(text, f, c, p) ==
    /\ GoesOn(text, c[2], "symbol") /\ text[Len(c[2]) + 2] = Symbol("LBrace")
    /\ \E s \in f[From(text, (Len(c[2]) + 2) + 1)].set :
            p = Phrase({l \in Labellings : c[1] = "in" <=> text[1].text \in DOMAIN l
                                                          /\ l[text[1].text] \in s.means}, s.rest)

\* The phrases that ask whether a label's value is in a set.
LEMMA MemberElements ==
    ASSUME NEW text, NEW f
    PROVE  \A p : p \in Member(text, f) <=> \E c \in Memberships : MemberReads(text, f, c, p)
<1> TAKE p
<1> DEFINE n(c) == Len(c[2]) + 2
           W(c) == {Phrase({l \in Labellings : c[1] = "in" <=> text[1].text \in DOMAIN l
                                                          /\ l[text[1].text] \in s.means}, s.rest) :
                    s \in IF text[n(c)] = Symbol("LBrace") THEN f[From(text, n(c) + 1)].set ELSE {}}
           D == {d \in Memberships : GoesOn(text, d[2], "symbol")}
<1>1. Member(text, f) = UNION {W(c) : c \in D}
  BY Zenon DEF Member
<1>2. p \in Member(text, f) <=> \E c \in D : p \in W(c)
  <2> HIDE DEF W, D
  <2> QED
    BY <1>1
<1>3. ASSUME NEW c \in Memberships
      PROVE  (c \in D /\ p \in W(c)) <=> MemberReads(text, f, c, p)
  <2>1. c \in D <=> GoesOn(text, c[2], "symbol")
    OBVIOUS
  <2>2. CASE text[n(c)] = Symbol("LBrace")
    <3>1. p \in W(c) <=> \E s \in f[From(text, n(c) + 1)].set :
            p = Phrase({l \in Labellings : c[1] = "in" <=> text[1].text \in DOMAIN l
                                                          /\ l[text[1].text] \in s.means}, s.rest)
      BY <2>2, Zenon
    <3> QED
      BY <2>1, <2>2, <3>1, Zenon DEF MemberReads
  <2>3. CASE text[n(c)] # Symbol("LBrace")
    <3>1. W(c) = {}
      BY <2>3
    <3> QED
      BY <2>3, <3>1, Zenon DEF MemberReads
  <2> QED
    BY <2>2, <2>3
<1>4. D \subseteq Memberships
  OBVIOUS
<1> HIDE DEF W, D
<1> QED
  BY <1>2, <1>3, <1>4, Zenon

\* They are phrases.
LEMMA MemberTyped ==
    ASSUME NEW text \in Text, NEW f, SaysShorter(f, text)
    PROVE  Member(text, f) \subseteq PhrasesOf(text)
<1>1. ASSUME NEW p \in Member(text, f) PROVE p \in PhrasesOf(text)
  <2>1. PICK c \in Memberships : MemberReads(text, f, c, p)
    BY MemberElements
  <2>2. Len(c[2]) \in {1, 2} /\ Len(text) \in Nat /\ Len(text) >= Len(c[2]) + 2
    BY <2>1, WrittenTests, TextFirst DEF GoesOn, MemberReads
  <2> DEFINE n == Len(c[2]) + 2
             y == From(text, n + 1)
  <2>3. n \in 1..Len(text)
    BY <2>2
  <2>4. PICK s \in f[y].set :
            p = Phrase({l \in Labellings : c[1] = "in" <=> text[1].text \in DOMAIN l
                                                          /\ l[text[1].text] \in s.means}, s.rest)
    BY <2>1, Zenon DEF MemberReads
  <2>5. y \in Text /\ Len(y) = Len(text) - n
    BY <2>3, TextFrom
  <2> HIDE DEF n, y
  <2>6. Len(y) < Len(text) /\ Len(y) \in Nat
    BY <2>2, <2>3, <2>5, TextFirst
  <2>7. s \in StringsOf(y)
    BY <2>5, <2>6 DEF SaysShorter, PhraseType
  <2>8. s.rest \in Text /\ Len(s.rest) < Len(text)
    <3>1. s.rest \in Text /\ Len(s.rest) < Len(y)
      BY <2>7 DEF StringsOf
    <3>2. Len(s.rest) \in Nat
      BY <3>1, TextFirst
    <3> QED
      BY <2>2, <2>6, <3>1, <3>2
  <2> QED
    BY <2>4, <2>8 DEF PhrasesOf, Phrase
<1> QED
  BY <1>1

\* Set literals are sets of strings.
LEMMA SetTyped ==
    ASSUME NEW text \in Text, NEW f, SaysShorter(f, text)
    PROVE  Set(text, f) \subseteq StringsOf(text)
<1>1. CASE Begins(text, Symbol("RBrace"))
  <2>1. Tail(text) \in Text /\ Len(Tail(text)) < Len(text)
    BY <1>1, TextFirst DEF Begins
  <2> QED
    BY <1>1, <2>1 DEF Set, StringsOf, Phrase
<1>2. ASSUME Len(text) >= 2, text[1].form = "string"
      PROVE  /\ text[1].text \in Strings /\ From(text, 3) \in Text /\ Len(From(text, 3)) < Len(text)
             /\ \A s \in f[From(text, 3)].set : s.means \in SUBSET Strings /\ s.rest \in Text
                                                 /\ Len(s.rest) < Len(text)
  <2>1. 1 \in 1..Len(text) /\ Len(text) \in Nat
    BY <1>2, TextFirst
  <2>2. text[1].text \in Strings
    BY <1>2, <2>1, TextFirst, LexemeShape
  <2>3. From(text, 3) \in Text /\ Len(From(text, 3)) < Len(text) /\ Len(From(text, 3)) \in Nat
    BY <1>2, <2>1, TextFirst
  <2>4. f[From(text, 3)].set \subseteq StringsOf(From(text, 3))
    BY <2>3 DEF SaysShorter, PhraseType
  <2>5. ASSUME NEW s \in f[From(text, 3)].set
        PROVE  s.means \in SUBSET Strings /\ s.rest \in Text /\ Len(s.rest) < Len(text)
    <3>1. s.means \in SUBSET Strings /\ s.rest \in Text /\ Len(s.rest) < Len(From(text, 3))
      BY <2>4 DEF StringsOf
    <3>2. Len(s.rest) \in Nat
      BY <3>1, TextFirst
    <3> QED
      BY <2>1, <2>3, <3>1, <3>2
  <2> QED
    BY <2>2, <2>3, <2>5
<1>3. CASE ~Begins(text, Symbol("RBrace"))
  <2>1. CASE Len(text) >= 2 /\ text[1].form = "string" /\ text[2] = Symbol("RBrace")
    BY <1>2, <1>3, <2>1 DEF Set, StringsOf, Phrase
  <2>2. CASE Len(text) >= 2 /\ text[1].form = "string" /\ text[2] = Symbol("Comma")
    <3>0. Symbol("Comma") # Symbol("RBrace")
      BY DEF Symbol
    <3>1. Set(text, f) = {Phrase({text[1].text} \cup s.means, s.rest) : s \in f[From(text, 3)].set}
      BY <1>3, <2>2, <3>0, Zenon DEF Set
    <3>2. ASSUME NEW s \in f[From(text, 3)].set
          PROVE  Phrase({text[1].text} \cup s.means, s.rest) \in StringsOf(text)
      BY <1>2, <2>2 DEF StringsOf, Phrase
    <3> QED
      BY <3>1, <3>2
  <2>3. CASE /\ ~(Len(text) >= 2 /\ text[1].form = "string" /\ text[2] = Symbol("RBrace"))
             /\ ~(Len(text) >= 2 /\ text[1].form = "string" /\ text[2] = Symbol("Comma"))
    BY <1>3, <2>3 DEF Set
  <2> QED
    BY <2>1, <2>2, <2>3
<1> QED
  BY <1>1, <1>3

\* Tests are phrases.
LEMMA TestTyped ==
    ASSUME NEW text \in Text, text # <<>>, NEW f, SaysShorter(f, text)
    PROVE  Test(text, f) \subseteq PhrasesOf(text)
<1>1. text[1] \in Lexeme /\ Len(text) \in Nat /\ Len(text) >= 1
  BY TextFirst
<1>2. CASE text[1].form = "word"
  <2>1. text[1] \notin {Call("has"), Call("all"), Call("global")}
    BY <1>2 DEF Call
  <2>2. Test(text, f) = Compared(text) \cup Member(text, f)
    BY <1>2, <2>1, Zenon DEF Test
  <2> QED
    BY <2>2, ComparedTyped, MemberTyped
<1>3. CASE text[1] = Call("has")
  <2>1. Test(text, f) = IF Len(text) >= 3 /\ text[2].form = "word" /\ text[3] = Symbol("RParen")
            THEN {Phrase({l \in Labellings : text[2].text \in DOMAIN l}, From(text, 4))} ELSE {}
    BY <1>3 DEF Test, Call
  <2>2. CASE Len(text) >= 3
    <3>1. From(text, 4) \in Text /\ Len(From(text, 4)) < Len(text)
      BY <1>1, <2>2, TextFirst
    <3>2. Phrase({l \in Labellings : text[2].text \in DOMAIN l}, From(text, 4)) \in PhrasesOf(text)
      BY <3>1 DEF PhrasesOf, Phrase
    <3> QED
      BY <2>1, <3>2
  <2> QED
    BY <2>1, <2>2
<1>4. CASE text[1] \in {Call("all"), Call("global")}
  <2>1. Test(text, f) = IF Begins(Tail(text), Symbol("RParen")) THEN {Phrase(Labellings, From(text, 3))} ELSE {}
    BY <1>4 DEF Test, Call
  <2>2. CASE Begins(Tail(text), Symbol("RParen"))
    <3>1. Tail(text) \in Text /\ Tail(text) # <<>> /\ Len(Tail(text)) = Len(text) - 1
      BY <2>2, TextFirst DEF Begins
    <3>2. Len(text) >= 2
      BY <1>1, <3>1
    <3>3. From(text, 3) \in Text /\ Len(From(text, 3)) < Len(text)
      BY <1>1, <3>2, TextFirst
    <3>4. Phrase(Labellings, From(text, 3)) \in PhrasesOf(text)
      BY <3>3 DEF PhrasesOf, Phrase
    <3> QED
      BY <2>1, <3>4
  <2> QED
    BY <2>1, <2>2
<1>5. CASE text[1].form # "word" /\ text[1] \notin {Call("has"), Call("all"), Call("global")}
  BY <1>5 DEF Test
<1> QED
  BY <1>2, <1>3, <1>4, <1>5

\* Operations are phrases.
LEMMA PhraseOperationTyped ==
    ASSUME NEW text \in Text, NEW f, SaysShorter(f, text)
    PROVE  Operation(text, f) \subseteq PhrasesOf(text)
<1>1. CASE text = <<>>
  BY <1>1 DEF Operation
<1>2. CASE text # <<>>
  <2>1. /\ Tail(text) \in Text /\ Len(Tail(text)) < Len(text) /\ Len(text) \in Nat
        /\ Len(Tail(text)) \in Nat
    BY <1>2, TextFirst
  <2>2. /\ f[Tail(text)].operation \subseteq PhrasesOf(Tail(text))
        /\ f[Tail(text)].disjunction \subseteq PhrasesOf(Tail(text))
    BY <2>1 DEF SaysShorter, PhraseType
  <2>3. ASSUME NEW p \in PhrasesOf(Tail(text))
        PROVE  /\ p.means \in SUBSET Labellings /\ p.rest \in Text /\ Len(p.rest) < Len(text)
               /\ p.rest # <<>> => Tail(p.rest) \in Text /\ Len(Tail(p.rest)) < Len(text)
    <3>1. p.means \in SUBSET Labellings /\ p.rest \in Text /\ Len(p.rest) < Len(Tail(text))
      BY DEF PhrasesOf
    <3>2. /\ Len(p.rest) \in Nat
          /\ p.rest # <<>> => Tail(p.rest) \in Text /\ Len(Tail(p.rest)) = Len(p.rest) - 1
      BY <3>1, TextFirst
    <3> QED
      BY <2>1, <3>1, <3>2
  <2>4. CASE text[1] = Symbol("Not")
    <3>1. Operation(text, f) = {Phrase(Labellings \ p.means, p.rest) : p \in f[Tail(text)].operation}
      BY <1>2, <2>4 DEF Operation
    <3>2. ASSUME NEW p \in f[Tail(text)].operation
          PROVE  Phrase(Labellings \ p.means, p.rest) \in PhrasesOf(text)
      BY <2>2, <2>3 DEF PhrasesOf, Phrase
    <3> QED
      BY <3>1, <3>2
  <2>5. CASE text[1] = Symbol("LParen")
    <3> DEFINE R == {q \in f[Tail(text)].disjunction : Begins(q.rest, Symbol("RParen"))}
    <3>1. Operation(text, f) = {Phrase(p.means, Tail(p.rest)) : p \in R}
      BY <1>2, <2>5 DEF Operation, Symbol
    <3>2. ASSUME NEW p \in R
          PROVE  Phrase(p.means, Tail(p.rest)) \in PhrasesOf(text)
      <4>1. p \in PhrasesOf(Tail(text)) /\ p.rest # <<>>
        BY <2>2 DEF Begins
      <4> QED
        BY <2>3, <4>1 DEF PhrasesOf, Phrase
    <3> HIDE DEF R
    <3> QED
      BY <3>1, <3>2
  <2>6. CASE text[1] \notin {Symbol("Not"), Symbol("LParen")}
    BY <1>2, <2>6, TestTyped DEF Operation
  <2> QED
    BY <2>4, <2>5, <2>6
<1> QED
  BY <1>1, <1>2

\* A conjunction: a first operation, alone or with "&&" and the rest.
ConjunctionReads(first, f, p) ==
    \/ p \in first
    \/ \E a \in first : /\ Begins(a.rest, Symbol("And"))
                        /\ \E q \in f[Tail(a.rest)].conjunction : p = Phrase(a.means \cap q.means, q.rest)

\* The phrases that are conjunctions.
LEMMA ConjunctionElements ==
    ASSUME NEW first, NEW f
    PROVE  \A p : p \in Conjunction(first, f) <=> ConjunctionReads(first, f, p)
<1> DEFINE W(a) == {Phrase(a.means \cap q.means, q.rest) : q \in f[Tail(a.rest)].conjunction}
           D == {a \in first : Begins(a.rest, Symbol("And"))}
<1> TAKE p
<1>1. Conjunction(first, f) = first \cup UNION {W(a) : a \in D}
  BY DEF Conjunction
<1>2. p \in UNION {W(a) : a \in D} <=> \E a \in D : p \in W(a)
  <2> HIDE DEF W, D
  <2> QED
    OBVIOUS
<1>3. ASSUME NEW a
      PROVE  p \in W(a) <=> \E q \in f[Tail(a.rest)].conjunction : p = Phrase(a.means \cap q.means, q.rest)
  OBVIOUS
<1>4. p \in Conjunction(first, f) <=> p \in first \/ \E a \in D : p \in W(a)
  <2> HIDE DEF W, D
  <2> QED
    BY <1>1, <1>2
<1>5. (\E a \in D : p \in W(a)) <=>
        \E a \in first : /\ Begins(a.rest, Symbol("And"))
                         /\ \E q \in f[Tail(a.rest)].conjunction : p = Phrase(a.means \cap q.means, q.rest)
  <2>1. \A a : a \in D <=> a \in first /\ Begins(a.rest, Symbol("And"))
    OBVIOUS
  <2> HIDE DEF W, D
  <2> QED
    BY <1>3, <2>1, Zenon
<1> HIDE DEF W, D
<1> QED
  BY <1>4, <1>5 DEF ConjunctionReads

\* They are phrases.
LEMMA ConjunctionTyped ==
    ASSUME NEW text \in Text, NEW f, SaysShorter(f, text), NEW first \in SUBSET PhrasesOf(text)
    PROVE  Conjunction(first, f) \subseteq PhrasesOf(text)
<1>1. ASSUME NEW p \in Conjunction(first, f) PROVE p \in PhrasesOf(text)
  <2>1. ConjunctionReads(first, f, p)
    BY ConjunctionElements
  <2>2. CASE p \in first
    BY <2>2
  <2>3. CASE \E a \in first : /\ Begins(a.rest, Symbol("And"))
                              /\ \E q \in f[Tail(a.rest)].conjunction : p = Phrase(a.means \cap q.means, q.rest)
    <3>1. PICK a \in first : /\ Begins(a.rest, Symbol("And"))
                             /\ \E q \in f[Tail(a.rest)].conjunction : p = Phrase(a.means \cap q.means, q.rest)
      BY <2>3
    <3>2. PICK q \in f[Tail(a.rest)].conjunction : p = Phrase(a.means \cap q.means, q.rest)
      BY <3>1
    <3>3. a.means \in SUBSET Labellings /\ a.rest \in Text /\ Len(a.rest) < Len(text) /\ a.rest # <<>>
      BY <3>1 DEF PhrasesOf, Begins
    <3>4. /\ Tail(a.rest) \in Text /\ Len(Tail(a.rest)) = Len(a.rest) - 1 /\ Len(a.rest) \in Nat
          /\ Len(text) \in Nat
      BY <3>3, TextFirst
    <3>5. Len(Tail(a.rest)) < Len(text)
      BY <3>3, <3>4
    <3>6. q \in PhrasesOf(Tail(a.rest))
      BY <3>2, <3>4, <3>5 DEF SaysShorter, PhraseType
    <3>7. q.means \in SUBSET Labellings /\ q.rest \in Text /\ Len(q.rest) < Len(Tail(a.rest))
      BY <3>6 DEF PhrasesOf
    <3>8. Len(q.rest) \in Nat
      BY <3>7, TextFirst
    <3>9. Len(q.rest) < Len(text)
      BY <3>3, <3>4, <3>7, <3>8
    <3> QED
      BY <3>2, <3>3, <3>7, <3>9 DEF PhrasesOf, Phrase
  <2> QED
    BY <2>1, <2>2, <2>3 DEF ConjunctionReads
<1> QED
  BY <1>1

\* A disjunction: a first conjunction, alone or with "||" and the rest.
DisjunctionReads(first, f, p) ==
    \/ p \in first
    \/ \E a \in first : /\ Begins(a.rest, Symbol("Or"))
                        /\ \E q \in f[Tail(a.rest)].disjunction : p = Phrase(a.means \cup q.means, q.rest)

\* The phrases that are disjunctions.
LEMMA DisjunctionElements ==
    ASSUME NEW first, NEW f
    PROVE  \A p : p \in Disjunction(first, f) <=> DisjunctionReads(first, f, p)
<1> DEFINE W(a) == {Phrase(a.means \cup q.means, q.rest) : q \in f[Tail(a.rest)].disjunction}
           D == {a \in first : Begins(a.rest, Symbol("Or"))}
<1> TAKE p
<1>1. Disjunction(first, f) = first \cup UNION {W(a) : a \in D}
  BY DEF Disjunction
<1>2. p \in UNION {W(a) : a \in D} <=> \E a \in D : p \in W(a)
  <2> HIDE DEF W, D
  <2> QED
    OBVIOUS
<1>3. ASSUME NEW a
      PROVE  p \in W(a) <=> \E q \in f[Tail(a.rest)].disjunction : p = Phrase(a.means \cup q.means, q.rest)
  OBVIOUS
<1>4. p \in Disjunction(first, f) <=> p \in first \/ \E a \in D : p \in W(a)
  <2> HIDE DEF W, D
  <2> QED
    BY <1>1, <1>2
<1>5. (\E a \in D : p \in W(a)) <=>
        \E a \in first : /\ Begins(a.rest, Symbol("Or"))
                         /\ \E q \in f[Tail(a.rest)].disjunction : p = Phrase(a.means \cup q.means, q.rest)
  <2>1. \A a : a \in D <=> a \in first /\ Begins(a.rest, Symbol("Or"))
    OBVIOUS
  <2> HIDE DEF W, D
  <2> QED
    BY <1>3, <2>1, Zenon
<1> HIDE DEF W, D
<1> QED
  BY <1>4, <1>5 DEF DisjunctionReads

\* They are phrases.
LEMMA DisjunctionTyped ==
    ASSUME NEW text \in Text, NEW f, SaysShorter(f, text), NEW first \in SUBSET PhrasesOf(text)
    PROVE  Disjunction(first, f) \subseteq PhrasesOf(text)
<1>1. ASSUME NEW p \in Disjunction(first, f) PROVE p \in PhrasesOf(text)
  <2>1. DisjunctionReads(first, f, p)
    BY DisjunctionElements
  <2>2. CASE p \in first
    BY <2>2
  <2>3. CASE \E a \in first : /\ Begins(a.rest, Symbol("Or"))
                              /\ \E q \in f[Tail(a.rest)].disjunction : p = Phrase(a.means \cup q.means, q.rest)
    <3>1. PICK a \in first : /\ Begins(a.rest, Symbol("Or"))
                             /\ \E q \in f[Tail(a.rest)].disjunction : p = Phrase(a.means \cup q.means, q.rest)
      BY <2>3
    <3>2. PICK q \in f[Tail(a.rest)].disjunction : p = Phrase(a.means \cup q.means, q.rest)
      BY <3>1
    <3>3. a.means \in SUBSET Labellings /\ a.rest \in Text /\ Len(a.rest) < Len(text) /\ a.rest # <<>>
      BY <3>1 DEF PhrasesOf, Begins
    <3>4. /\ Tail(a.rest) \in Text /\ Len(Tail(a.rest)) = Len(a.rest) - 1 /\ Len(a.rest) \in Nat
          /\ Len(text) \in Nat
      BY <3>3, TextFirst
    <3>5. Len(Tail(a.rest)) < Len(text)
      BY <3>3, <3>4
    <3>6. q \in PhrasesOf(Tail(a.rest))
      BY <3>2, <3>4, <3>5 DEF SaysShorter, PhraseType
    <3>7. q.means \in SUBSET Labellings /\ q.rest \in Text /\ Len(q.rest) < Len(Tail(a.rest))
      BY <3>6 DEF PhrasesOf
    <3>8. Len(q.rest) \in Nat
      BY <3>7, TextFirst
    <3>9. Len(q.rest) < Len(text)
      BY <3>3, <3>4, <3>7, <3>8
    <3> QED
      BY <3>2, <3>3, <3>7, <3>9 DEF PhrasesOf, Phrase
  <2> QED
    BY <2>1, <2>2, <2>3 DEF DisjunctionReads
<1> QED
  BY <1>1

PhrasesStep(text, f) ==
    LET operations   == Operation(text, f)
        conjunctions == Conjunction(operations, f)
    IN  [set |-> Set(text, f), operation |-> operations, conjunction |-> conjunctions,
         disjunction |-> Disjunction(conjunctions, f)]

\* The grammar says phrases of a text.
LEMMA PhrasesStepTyped ==
    ASSUME NEW text \in Text, NEW f, SaysShorter(f, text)
    PROVE  PhrasesStep(text, f) \in PhraseType(text)
<1> DEFINE o == Operation(text, f)
           c == Conjunction(o, f)
           d == Disjunction(c, f)
           s == Set(text, f)
<1>1. o \in SUBSET PhrasesOf(text) /\ s \in SUBSET StringsOf(text)
  BY PhraseOperationTyped, SetTyped
<1> HIDE DEF o, s
<1>2. c \in SUBSET PhrasesOf(text)
  BY <1>1, ConjunctionTyped
<1> HIDE DEF c
<1>3. d \in SUBSET PhrasesOf(text)
  BY <1>2, DisjunctionTyped
<1>4. PhrasesStep(text, f) = [set |-> s, operation |-> o, conjunction |-> c, disjunction |-> d]
  BY DEF PhrasesStep, o, c, d, s
<1> HIDE DEF d
<1> QED
  BY <1>1, <1>2, <1>3, <1>4 DEF PhraseType

\* Operations ask only for the phrases of shorter texts.
LEMMA PhraseOperationLocal ==
    ASSUME NEW text \in Text, NEW f, NEW g, SayTheSame(f, g, text)
    PROVE  Operation(text, f) = Operation(text, g) /\ Set(text, f) = Set(text, g)
<1>1. Set(text, f) = Set(text, g)
  <2>1. CASE Len(text) >= 2
    <3>1. f[From(text, 3)] = g[From(text, 3)]
      <4>1. From(text, 3) \in Text /\ Len(From(text, 3)) < Len(text)
        BY <2>1, TextFirst
      <4> QED
        BY <4>1 DEF SayTheSame
    <3> QED
      BY <3>1, Zenon DEF Set
  <2>2. CASE ~(Len(text) >= 2)
    BY <2>2, Zenon DEF Set
  <2> QED
    BY <2>1, <2>2
<1>2. ASSUME NEW c \in Memberships, GoesOn(text, c[2], "symbol")
      PROVE  f[From(text, (Len(c[2]) + 2) + 1)] = g[From(text, (Len(c[2]) + 2) + 1)]
  <2> DEFINE n == Len(c[2]) + 2
             y == From(text, n + 1)
  <2>1. Len(c[2]) \in {1, 2} /\ Len(text) \in Nat /\ Len(text) >= Len(c[2]) + 2
    BY <1>2, WrittenTests, TextFirst DEF GoesOn
  <2>2. n \in 1..Len(text)
    BY <2>1
  <2>3. y \in Text /\ Len(y) = Len(text) - n
    BY <2>2, TextFrom
  <2> HIDE DEF n, y
  <2>4. Len(y) < Len(text)
    BY <2>1, <2>2, <2>3
  <2>5. f[y] = g[y]
    BY <2>3, <2>4 DEF SayTheSame
  <2> QED
    BY <2>5 DEF y, n
<1>3. Member(text, f) = Member(text, g)
  <2>1. ASSUME NEW p PROVE p \in Member(text, f) <=> p \in Member(text, g)
    <3>1. /\ p \in Member(text, f) <=> \E c \in Memberships : MemberReads(text, f, c, p)
          /\ p \in Member(text, g) <=> \E c \in Memberships : MemberReads(text, g, c, p)
      BY MemberElements
    <3>2. ASSUME NEW c \in Memberships PROVE MemberReads(text, f, c, p) <=> MemberReads(text, g, c, p)
      BY <1>2, Zenon DEF MemberReads
    <3> QED
      BY <3>1, <3>2
  <2> QED
    BY <2>1
<1>4. Test(text, f) = Test(text, g)
  BY <1>3, Zenon DEF Test
<1>5. Operation(text, f) = Operation(text, g)
  <2>1. CASE text = <<>>
    BY <2>1 DEF Operation
  <2>2. CASE text # <<>>
    <3>1. Tail(text) \in Text /\ Len(Tail(text)) < Len(text)
      BY <2>2, TextFirst
    <3>2. f[Tail(text)] = g[Tail(text)]
      BY <3>1 DEF SayTheSame
    <3> QED
      BY <1>4, <3>2, Zenon DEF Operation
  <2> QED
    BY <2>1, <2>2
<1> QED
  BY <1>1, <1>5

\* So do conjunctions.
LEMMA ConjunctionLocal ==
    ASSUME NEW text \in Text, NEW f, NEW g, SayTheSame(f, g, text), NEW first \in SUBSET PhrasesOf(text)
    PROVE  Conjunction(first, f) = Conjunction(first, g)
<1>1. ASSUME NEW a \in first, Begins(a.rest, Symbol("And")) PROVE f[Tail(a.rest)] = g[Tail(a.rest)]
  <2>1. a.rest \in Text /\ Len(a.rest) < Len(text) /\ a.rest # <<>>
    BY <1>1 DEF PhrasesOf, Begins
  <2>2. /\ Tail(a.rest) \in Text /\ Len(Tail(a.rest)) = Len(a.rest) - 1 /\ Len(a.rest) \in Nat
        /\ Len(text) \in Nat
    BY <2>1, TextFirst
  <2>3. Len(Tail(a.rest)) < Len(text)
    BY <2>1, <2>2
  <2> QED
    BY <2>2, <2>3 DEF SayTheSame
<1>2. ASSUME NEW p PROVE p \in Conjunction(first, f) <=> p \in Conjunction(first, g)
  <2>1. /\ p \in Conjunction(first, f) <=> ConjunctionReads(first, f, p)
        /\ p \in Conjunction(first, g) <=> ConjunctionReads(first, g, p)
    BY ConjunctionElements
  <2>2. ConjunctionReads(first, f, p) <=> ConjunctionReads(first, g, p)
    BY <1>1, Zenon DEF ConjunctionReads
  <2> QED
    BY <2>1, <2>2
<1> QED
  BY <1>2

\* So do disjunctions.
LEMMA DisjunctionLocal ==
    ASSUME NEW text \in Text, NEW f, NEW g, SayTheSame(f, g, text), NEW first \in SUBSET PhrasesOf(text)
    PROVE  Disjunction(first, f) = Disjunction(first, g)
<1>1. ASSUME NEW a \in first, Begins(a.rest, Symbol("Or")) PROVE f[Tail(a.rest)] = g[Tail(a.rest)]
  <2>1. a.rest \in Text /\ Len(a.rest) < Len(text) /\ a.rest # <<>>
    BY <1>1 DEF PhrasesOf, Begins
  <2>2. /\ Tail(a.rest) \in Text /\ Len(Tail(a.rest)) = Len(a.rest) - 1 /\ Len(a.rest) \in Nat
        /\ Len(text) \in Nat
    BY <2>1, TextFirst
  <2>3. Len(Tail(a.rest)) < Len(text)
    BY <2>1, <2>2
  <2> QED
    BY <2>2, <2>3 DEF SayTheSame
<1>2. ASSUME NEW p PROVE p \in Disjunction(first, f) <=> p \in Disjunction(first, g)
  <2>1. /\ p \in Disjunction(first, f) <=> DisjunctionReads(first, f, p)
        /\ p \in Disjunction(first, g) <=> DisjunctionReads(first, g, p)
    BY DisjunctionElements
  <2>2. DisjunctionReads(first, f, p) <=> DisjunctionReads(first, g, p)
    BY <1>1, Zenon DEF DisjunctionReads
  <2> QED
    BY <2>1, <2>2
<1> QED
  BY <1>2

\* So does the grammar.
LEMMA PhrasesStepLocal ==
    ASSUME NEW text \in Text, NEW f, NEW g, SayTheSame(f, g, text), SaysShorter(f, text)
    PROVE  PhrasesStep(text, f) = PhrasesStep(text, g)
<1> DEFINE o == Operation(text, f)
           c == Conjunction(o, f)
<1>1. o = Operation(text, g) /\ Set(text, f) = Set(text, g)
  BY PhraseOperationLocal
<1>2. o \in SUBSET PhrasesOf(text)
  BY PhraseOperationTyped
<1>3. PhrasesStep(text, f) = [set |-> Set(text, f), operation |-> o, conjunction |-> c,
                              disjunction |-> Disjunction(c, f)]
  BY DEF PhrasesStep
<1>4. PhrasesStep(text, g) = [set |-> Set(text, f), operation |-> o, conjunction |-> Conjunction(o, g),
                              disjunction |-> Disjunction(Conjunction(o, g), g)]
  BY <1>1 DEF PhrasesStep
<1> HIDE DEF o
<1>5. c = Conjunction(o, g) /\ c \in SUBSET PhrasesOf(text)
  BY <1>2, ConjunctionLocal, ConjunctionTyped
<1> HIDE DEF c
<1>6. Disjunction(c, f) = Disjunction(c, g)
  BY <1>5, DisjunctionLocal
<1> QED
  BY <1>3, <1>4, <1>5, <1>6

\* phrases is what its definition says, and has phrases.
LEMMA PhrasesEquation ==
    /\ phrases = [text \in Text |-> PhrasesStep(text, phrases)]
    /\ \A text \in Text : phrases[text] \in PhraseType(text)
<1> DEFINE AnyPhrases == SUBSET [means : SUBSET Labellings, rest : Text]
           U == [set : SUBSET [means : SUBSET Strings, rest : Text], operation : AnyPhrases,
                 conjunction : AnyPhrases, disjunction : AnyPhrases]
           T == [text \in Text |-> PhraseType(text)]
           m == [text \in Text |-> Len(text)]
           G == Typed(Text, U, T)
           F == [x \in Text |-> [g \in G |-> PhrasesStep(x, g)]]
<1>1. T \in [Text -> SUBSET U] /\ m \in [Text -> Nat]
  <2>1. ASSUME NEW x \in Text PROVE PhraseType(x) \subseteq U /\ Len(x) \in Nat
    BY TextFirst DEF PhraseType, PhrasesOf, StringsOf
  <2> HIDE DEF U
  <2> QED
    BY <2>1
<1>2. \A x \in Text : T[x] # {}
  <2>1. ASSUME NEW x \in Text
        PROVE  [set |-> {}, operation |-> {}, conjunction |-> {}, disjunction |-> {}] \in PhraseType(x)
    BY DEF PhraseType
  <2> QED
    BY <2>1
<1> HIDE DEF U
<1>3. ASSUME NEW x \in Text, NEW g \in G PROVE SaysShorter(g, x)
  BY DEF Typed, SaysShorter
<1>4. ASSUME NEW x \in Text, NEW g \in G PROVE PhrasesStep(x, g) \in PhraseType(x)
  BY <1>3, PhrasesStepTyped
<1>5. F \in [Text -> [G -> U]]
  <2>1. \A x \in Text, g \in G : PhrasesStep(x, g) \in U
    BY <1>1, <1>4
  <2> QED
    BY <2>1
<1>6. \A x \in Text, g \in G : F[x][g] \in T[x]
  BY <1>4
<1>7. ASSUME NEW x \in Text, NEW g \in G, NEW h \in G, \A y \in Text : m[y] < m[x] => g[y] = h[y]
      PROVE  F[x][g] = F[x][h]
  <2>1. SayTheSame(g, h, x)
    BY <1>7 DEF SayTheSame
  <2> QED
    BY <1>3, <2>1, PhrasesStepLocal
<1>8. \E f \in G : \A x \in Text : f[x] = F[x][f]
  <2>1. \A x \in Text, g, h \in G :
            (\A y \in Text : m[y] < m[x] => g[y] = h[y]) => F[x][g] = F[x][h]
    BY <1>7
  <2> HIDE DEF T, m, F
  <2>2. RecursiveStep(Text, U, T, m, F)
    BY <1>1, <1>2, <1>5, <1>6, <2>1, Zenon DEF RecursiveStep
  <2> QED
    BY <2>2, RecursiveFunction
<1>9. \E f : f = [text \in Text |-> PhrasesStep(text, f)]
  <2>1. PICK f \in G : \A x \in Text : f[x] = F[x][f]
    BY <1>8
  <2>2. f \in [Text -> U] /\ \A x \in Text : f[x] = PhrasesStep(x, f)
    BY <2>1 DEF Typed
  <2>3. f = [text \in Text |-> PhrasesStep(text, f)]
    BY <2>2
  <2> QED
    BY <2>3
<1>10. phrases = CHOOSE f : f = [text \in Text |-> PhrasesStep(text, f)]
  BY DEF phrases, PhrasesStep, Text
<1>11. phrases = [text \in Text |-> PhrasesStep(text, phrases)]
  BY <1>9, <1>10
<1>12. \A text \in Text : phrases[text] \in PhraseType(text)
  <2> DEFINE Bad == {n \in Nat : \E x \in Text : Len(x) = n /\ phrases[x] \notin PhraseType(x)}
  <2> SUFFICES ASSUME Bad # {} PROVE FALSE
    BY TextFirst
  <2>1. PICK n \in Bad : \A k \in Bad : n <= k
    BY Least
  <2>2. PICK x \in Text : Len(x) = n /\ phrases[x] \notin PhraseType(x)
    BY <2>1
  <2>3. ASSUME NEW y \in Text, Len(y) < Len(x) PROVE phrases[y] \in PhraseType(y)
    <3>1. Len(y) \in Nat /\ Len(y) \notin Bad
      BY <2>1, <2>2, <2>3, TextFirst
    <3> QED
      BY <3>1
  <2>4. phrases[x] = PhrasesStep(x, phrases) /\ SaysShorter(phrases, x)
    BY <1>11, <2>3 DEF SaysShorter
  <2> QED
    BY <2>2, <2>4, PhrasesStepTyped
<1> QED
  BY <1>11, <1>12

-----------------------------------------------------------------------------
(***************************************************************************)
(* The first token of a text, and the lexemes that it is made of.          *)
(***************************************************************************)
Toks(text)       == tokenizeFrom[text]["operand"]
AfterLabel(text) == tokenizeFrom[text]["operator"]

\* The lists of a text's tokens are lists of tokens, at most one.
LEMMA TokensTyped ==
    ASSUME NEW text \in Text, NEW b \in Expectations
    PROVE  /\ tokenizeFrom[text][b] \subseteq TokenLists
           /\ \A s, t \in tokenizeFrom[text][b] : s = t
<1>1. tokenizeFrom[text] \in TokenizeType
  BY TokenizeEquation
<1> QED
  BY <1>1 DEF TokenizeType

\* What is after a text's first token is a shorter text.
LEMMA NextText ==
    ASSUME NEW text \in Text, text # <<>>, NEW b \in Expectations, NEW r \in nextToken(text, b)
    PROVE  /\ r.token \in Tokens /\ r.token.kind # "EOF" /\ r.length \in 1..Len(text)
           /\ From(text, r.length + 1) \in Text /\ Expected(r.token) \in Expectations
           /\ r.length = 1 => From(text, r.length + 1) = Tail(text)
<1>1. r.token \in Tokens /\ r.token.kind # "EOF" /\ r.length \in 1..Len(text)
  BY ReadingType
<1>2. From(text, r.length + 1) \in Text /\ (r.length = 1 => From(text, r.length + 1) = Tail(text))
  BY <1>1, TextFrom
<1> QED
  BY <1>1, <1>2 DEF Expected, Expectations

\* A list of a text's tokens is its first token and a list of what is after it.
LEMMA FirstToken ==
    ASSUME NEW text \in Text, text # <<>>, NEW b \in Expectations, NEW toks \in tokenizeFrom[text][b]
    PROVE  \E r \in nextToken(text, b) :
               toks[1] = r.token /\ Tail(toks) \in tokenizeFrom[From(text, r.length + 1)][Expected(r.token)]
<1>1. tokenizeFrom[text] = TokenizeStep(text, tokenizeFrom)
  BY TokenizeEquation
<1>2. ReadsAs(text, tokenizeFrom, b, toks)
  BY <1>1, TokenizeStepElements
<1>3. PICK r \in nextToken(text, b) :
        \E rest \in tokenizeFrom[From(text, r.length + 1)][Expected(r.token)] : toks = <<r.token>> \o rest
  BY <1>2 DEF ReadsAs
<1>4. PICK rest \in tokenizeFrom[From(text, r.length + 1)][Expected(r.token)] : toks = <<r.token>> \o rest
  BY <1>3
<1>5. /\ r.token \in Tokens /\ From(text, r.length + 1) \in Text /\ Expected(r.token) \in Expectations
  BY NextText
<1>6. rest \in TokenLists
  BY <1>4, <1>5, TokensTyped
<1>7. toks[1] = r.token /\ Tail(toks) = rest
  BY <1>4, <1>5, <1>6, TokenListCons
<1> QED
  BY <1>4, <1>7

\* A text's first token and a list of what is after it are a list of the text's.
LEMMA MadeOfFirstToken ==
    ASSUME NEW text \in Text, text # <<>>, NEW b \in Expectations, NEW r \in nextToken(text, b),
           NEW rest \in tokenizeFrom[From(text, r.length + 1)][Expected(r.token)]
    PROVE  /\ <<r.token>> \o rest \in tokenizeFrom[text][b]
           /\ (<<r.token>> \o rest)[1] = r.token /\ Tail(<<r.token>> \o rest) = rest
<1>1. tokenizeFrom[text] = TokenizeStep(text, tokenizeFrom)
  BY TokenizeEquation
<1>2. ReadsAs(text, tokenizeFrom, b, <<r.token>> \o rest)
  BY Zenon DEF ReadsAs
<1>3. <<r.token>> \o rest \in tokenizeFrom[text][b]
  BY <1>1, <1>2, TokenizeStepElements
<1>4. /\ r.token \in Tokens /\ From(text, r.length + 1) \in Text /\ Expected(r.token) \in Expectations
  BY NextText
<1>5. rest \in TokenLists
  BY <1>4, TokensTyped
<1> QED
  BY <1>3, <1>4, <1>5, TokenListCons

\* The tokens of no text.
LEMMA NoText ==
    ASSUME NEW b \in Expectations
    PROVE  <<>> \in Text /\ tokenizeFrom[<<>>][b] = {<<EOF>>}
<1>1. <<>> \in Text
  BY DEF Text
<1>2. tokenizeFrom[<<>>] = TokenizeStep(<<>>, tokenizeFrom)
  BY <1>1, TokenizeEquation
<1> QED
  BY <1>1, <1>2 DEF TokenizeStep

\* A text whose first token is the end's has no lexemes.
LEMMA EndOfText ==
    ASSUME NEW text \in Text, NEW b \in Expectations, NEW toks \in tokenizeFrom[text][b]
    PROVE  /\ toks \in TokenLists
           /\ toks[1].kind = "EOF" <=> text = <<>>
           /\ text = <<>> => toks = <<EOF>>
<1>1. toks \in TokenLists
  BY TokensTyped
<1>2. CASE text = <<>>
  <2>1. toks = <<EOF>>
    BY <1>2, NoText
  <2>2. toks[1].kind = "EOF"
    BY <2>1 DEF EOF, Mark, Token
  <2> QED
    BY <1>1, <1>2, <2>1, <2>2
<1>3. CASE text # <<>>
  <2>1. PICK r \in nextToken(text, b) : toks[1] = r.token
    BY <1>3, FirstToken
  <2>2. r.token.kind # "EOF"
    BY <1>3, NextText
  <2> QED
    BY <1>1, <1>3, <2>1, <2>2
<1> QED
  BY <1>2, <1>3

\* What the first lexeme says of the first token.
LEMMA TokenOfLexeme ==
    ASSUME NEW text \in Text, text # <<>>, NEW b \in Expectations, NEW r \in nextToken(text, b)
    PROVE  /\ text[1].form = "symbol" => r = Reading(Mark(text[1].text), 1) /\ text[1].text \in Symbols
           /\ text[1].form = "string" => r = Reading(Token("StringLiteral", text[1].text), 1)
           /\ text[1].form # "junk"
           /\ text[1].form \in {"word", "call"} =>
                \/ b = "operator" /\ r.token.kind \in OperatorKinds /\ r \in OperatorToken(text)
                \/ b = "operand" /\ text[1].form = "call" /\ r.token.kind \in {"Has", "All", "Global"}
                   /\ r \in CallToken(text)
                \/ b = "operand" /\ text[1].form = "word" /\ r = Reading(Token("Label", text[1].text), 1)
<1>1. text[1] \in Lexeme /\ 1 \in 1..Len(text)
  BY TextFirst
<1>2. text[1].form \in {"word", "string", "symbol", "call", "junk"}
  BY <1>1, LexemeShape
<1>3. CASE text[1].form \in {"symbol", "string", "junk"}
  BY <1>1, <1>3, LexemeShape DEF nextToken
<1>4. CASE text[1].form \in {"word", "call"} /\ b = "operator"
  <2>1. r \in OperatorToken(text)
    BY <1>4 DEF nextToken
  <2>2. PICK o \in WordOperators : r = Reading(Mark(o[1]), Len(o[2]))
    BY <2>1 DEF OperatorToken
  <2>3. r.token.kind \in OperatorKinds
    BY <2>2, OperatorWords DEF Reading, Mark, Token
  <2> QED
    BY <1>4, <2>1, <2>3
<1>5. CASE text[1].form = "call" /\ b = "operand"
  <2>1. r \in CallToken(text)
    BY <1>5 DEF nextToken
  <2>2. r.token.kind \in {"Has", "All", "Global"}
    BY <2>1 DEF CallToken, Reading, Mark, Token
  <2> QED
    BY <1>5, <2>1, <2>2
<1>6. CASE text[1].form = "word" /\ b = "operand"
  BY <1>6 DEF nextToken
<1> QED
  BY <1>2, <1>3, <1>4, <1>5, <1>6 DEF Expectations

\* A token that is a symbol's is made of that symbol.
LEMMA SymbolToken ==
    ASSUME NEW text \in Text, NEW b \in Expectations, NEW toks \in tokenizeFrom[text][b], NEW s \in Symbols
    PROVE  /\ toks[1].kind = s <=> Begins(text, Symbol(s))
           /\ Begins(text, Symbol(s)) => Tail(text) \in Text /\ Tail(toks) \in Toks(Tail(text))
<1>1. CASE text = <<>>
  <2>1. toks[1].kind = "EOF"
    BY <1>1, EndOfText
  <2> QED
    BY <1>1, <2>1 DEF Begins, Symbols
<1>2. CASE text # <<>>
  <2>1. PICK r \in nextToken(text, b) :
            toks[1] = r.token /\ Tail(toks) \in tokenizeFrom[From(text, r.length + 1)][Expected(r.token)]
    BY <1>2, FirstToken
  <2>2. text[1] \in Lexeme
    BY <1>2, TextFirst
  <2>3. toks[1].kind = s <=> text[1] = Symbol(s)
    <3>1. CASE text[1].form = "symbol"
      <4>1. r.token.kind = text[1].text
        BY <1>2, <3>1, TokenOfLexeme DEF Reading, Mark, Token
      <4>2. text[1] = Symbol(text[1].text)
        BY <2>2, <3>1, LexemeShape DEF Symbol
      <4> QED
        BY <2>1, <4>1, <4>2 DEF Symbol
    <3>2. CASE text[1].form # "symbol"
      <4>1. r.token.kind \notin Symbols
        <5>1. CASE text[1].form = "string"
          BY <1>2, <5>1, TokenOfLexeme DEF Reading, Token, Symbols
        <5>2. CASE text[1].form \in {"word", "call"}
          <6>1. r.token.kind \in OperatorKinds \/ r.token.kind \in {"Has", "All", "Global"}
                    \/ r = Reading(Token("Label", text[1].text), 1)
            BY <1>2, <5>2, TokenOfLexeme
          <6> QED
            BY <6>1 DEF Reading, Token, Symbols, OperatorKinds
        <5> QED
          BY <1>2, <2>2, <3>2, <5>1, <5>2, LexemeShape, TokenOfLexeme
      <4>2. text[1] # Symbol(s)
        BY <3>2 DEF Symbol
      <4> QED
        BY <2>1, <4>1, <4>2
    <3> QED
      BY <3>1, <3>2
  <2>4. ASSUME text[1] = Symbol(s)
        PROVE  Tail(text) \in Text /\ Tail(toks) \in Toks(Tail(text))
    <3>1. text[1].form = "symbol" /\ text[1].text = s
      BY <2>4 DEF Symbol
    <3>2. r.length = 1 /\ r.token.kind = s
      BY <1>2, <3>1, TokenOfLexeme DEF Reading, Mark, Token
    <3>3. From(text, r.length + 1) = Tail(text) /\ Tail(text) \in Text
      BY <1>2, <3>2, NextText
    <3>4. Expected(r.token) = "operand"
      BY <3>2 DEF Expected, Symbols
    <3> QED
      BY <2>1, <3>3, <3>4 DEF Toks
  <2> QED
    BY <1>2, <2>3, <2>4 DEF Begins
<1> QED
  BY <1>1, <1>2

\* A symbol makes its token.
LEMMA SymbolTokenMade ==
    ASSUME NEW text \in Text, NEW b \in Expectations, NEW s \in Symbols, Begins(text, Symbol(s)),
           NEW rest \in Toks(Tail(text))
    PROVE  \E toks \in tokenizeFrom[text][b] : toks[1].kind = s /\ Tail(toks) = rest
<1>1. text # <<>> /\ text[1].form = "symbol" /\ text[1].text = s
  BY DEF Begins, Symbol
<1> DEFINE r == Reading(Mark(s), 1)
<1>2. r \in nextToken(text, b)
  BY <1>1 DEF nextToken
<1>3. r.length = 1 /\ r.token.kind = s
  BY DEF Reading, Mark, Token
<1> HIDE DEF r
<1>4. From(text, r.length + 1) = Tail(text)
  BY <1>1, <1>2, <1>3, NextText
<1>5. Expected(r.token) = "operand"
  BY <1>3 DEF Expected, Symbols
<1>6. rest \in tokenizeFrom[From(text, r.length + 1)][Expected(r.token)]
  BY <1>4, <1>5 DEF Toks
<1>7. /\ <<r.token>> \o rest \in tokenizeFrom[text][b]
      /\ (<<r.token>> \o rest)[1] = r.token /\ Tail(<<r.token>> \o rest) = rest
  BY <1>1, <1>2, <1>6, MadeOfFirstToken
<1> DEFINE t == <<r.token>> \o rest
<1> HIDE DEF t
<1>8. t \in tokenizeFrom[text][b] /\ t[1].kind = s /\ Tail(t) = rest
  BY <1>3, <1>7 DEF t
<1> QED
  BY <1>8

\* A token that is a string's is made of a quoted string.
LEMMA StringToken ==
    ASSUME NEW text \in Text, NEW b \in Expectations, NEW toks \in tokenizeFrom[text][b]
    PROVE  /\ toks[1].kind = "StringLiteral" <=> text # <<>> /\ text[1].form = "string"
           /\ toks[1].kind = "StringLiteral" =>
                /\ toks[1].value = text[1].text
                /\ Tail(text) \in Text /\ Tail(toks) \in Toks(Tail(text))
<1>1. CASE text = <<>>
  <2>1. toks[1].kind = "EOF"
    BY <1>1, EndOfText
  <2> QED
    BY <1>1, <2>1
<1>2. CASE text # <<>>
  <2>1. PICK r \in nextToken(text, b) :
            toks[1] = r.token /\ Tail(toks) \in tokenizeFrom[From(text, r.length + 1)][Expected(r.token)]
    BY <1>2, FirstToken
  <2>2. text[1] \in Lexeme
    BY <1>2, TextFirst
  <2>3. CASE text[1].form = "string"
    <3>1. r.token.kind = "StringLiteral" /\ r.token.value = text[1].text /\ r.length = 1
      BY <1>2, <2>3, TokenOfLexeme DEF Reading, Token
    <3>2. From(text, r.length + 1) = Tail(text) /\ Tail(text) \in Text
      BY <1>2, <3>1, NextText
    <3>3. Expected(r.token) = "operand"
      BY <3>1 DEF Expected
    <3> QED
      BY <1>2, <2>1, <2>3, <3>1, <3>2, <3>3 DEF Toks
  <2>4. CASE text[1].form # "string"
    <3>1. r.token.kind # "StringLiteral"
      <4>1. CASE text[1].form = "symbol"
        BY <1>2, <4>1, TokenOfLexeme DEF Reading, Mark, Token, Symbols
      <4>2. CASE text[1].form \in {"word", "call"}
        <5>1. r.token.kind \in OperatorKinds \/ r.token.kind \in {"Has", "All", "Global"}
                  \/ r = Reading(Token("Label", text[1].text), 1)
          BY <1>2, <4>2, TokenOfLexeme
        <5> QED
          BY <5>1 DEF Reading, Token, OperatorKinds
      <4> QED
        BY <1>2, <2>2, <2>4, <4>1, <4>2, LexemeShape, TokenOfLexeme
    <3> QED
      BY <2>1, <2>4, <3>1
  <2> QED
    BY <2>3, <2>4
<1> QED
  BY <1>1, <1>2

\* A quoted string makes its token.
LEMMA StringTokenMade ==
    ASSUME NEW text \in Text, NEW b \in Expectations, text # <<>>, text[1].form = "string",
           NEW rest \in Toks(Tail(text))
    PROVE  \E toks \in tokenizeFrom[text][b] : toks[1].kind = "StringLiteral" /\ Tail(toks) = rest
<1> DEFINE r == Reading(Token("StringLiteral", text[1].text), 1)
<1>1. r \in nextToken(text, b)
  BY DEF nextToken
<1>2. r.length = 1 /\ r.token.kind = "StringLiteral"
  BY DEF Reading, Token
<1> HIDE DEF r
<1>3. From(text, r.length + 1) = Tail(text)
  BY <1>1, <1>2, NextText
<1>4. Expected(r.token) = "operand"
  BY <1>2 DEF Expected
<1>5. rest \in tokenizeFrom[From(text, r.length + 1)][Expected(r.token)]
  BY <1>3, <1>4 DEF Toks
<1> DEFINE t == <<r.token>> \o rest
<1>6. t \in tokenizeFrom[text][b] /\ t[1] = r.token /\ Tail(t) = rest
  BY <1>1, <1>5, MadeOfFirstToken
<1> HIDE DEF t
<1> QED
  BY <1>2, <1>6

\* A word where an operand is expected is a label.
LEMMA LabelToken ==
    ASSUME NEW text \in Text, text # <<>>, text[1].form = "word", NEW toks \in Toks(text)
    PROVE  /\ toks[1].kind = "Label" /\ toks[1].value = text[1].text
           /\ Tail(text) \in Text /\ Tail(toks) \in AfterLabel(Tail(text))
<1>1. "operand" \in Expectations /\ toks \in tokenizeFrom[text]["operand"]
  BY DEF Expectations, Toks
<1>2. PICK r \in nextToken(text, "operand") :
          toks[1] = r.token /\ Tail(toks) \in tokenizeFrom[From(text, r.length + 1)][Expected(r.token)]
  BY <1>1, FirstToken
<1>3. r = Reading(Token("Label", text[1].text), 1)
  BY <1>1, TokenOfLexeme
<1>4. r.length = 1 /\ r.token.kind = "Label" /\ r.token.value = text[1].text
  BY <1>3 DEF Reading, Token
<1>5. From(text, r.length + 1) = Tail(text) /\ Tail(text) \in Text
  BY <1>1, <1>4, NextText
<1>6. Expected(r.token) = "operator"
  BY <1>4 DEF Expected
<1> QED
  BY <1>2, <1>4, <1>5, <1>6 DEF AfterLabel

\* A word where an operand is expected makes a label's token.
LEMMA LabelTokenMade ==
    ASSUME NEW text \in Text, text # <<>>, text[1].form = "word", NEW rest \in AfterLabel(Tail(text))
    PROVE  \E toks \in Toks(text) :
               toks[1].kind = "Label" /\ toks[1].value = text[1].text /\ Tail(toks) = rest
<1> DEFINE r == Reading(Token("Label", text[1].text), 1)
<1>1. r \in nextToken(text, "operand") /\ "operand" \in Expectations
  BY DEF nextToken, Expectations
<1>2. r.length = 1 /\ r.token.kind = "Label" /\ r.token.value = text[1].text
  BY DEF Reading, Token
<1> HIDE DEF r
<1>3. From(text, r.length + 1) = Tail(text)
  BY <1>1, <1>2, NextText
<1>4. Expected(r.token) = "operator"
  BY <1>2 DEF Expected
<1>5. rest \in tokenizeFrom[From(text, r.length + 1)][Expected(r.token)]
  BY <1>3, <1>4 DEF AfterLabel
<1> DEFINE t == <<r.token>> \o rest
<1>6. t \in tokenizeFrom[text]["operand"] /\ t[1] = r.token /\ Tail(t) = rest
  BY <1>1, <1>5, MadeOfFirstToken
<1> HIDE DEF t
<1> QED
  BY <1>2, <1>6 DEF Toks

\* An operator that is a word.
LEMMA OperatorWordToken ==
    ASSUME NEW text \in Text, NEW toks \in AfterLabel(text), toks[1].kind \in OperatorKinds
    PROVE  /\ text # <<>>
           /\ \E o \in WordOperators :
                /\ Spells(text, o[2]) /\ toks[1].kind = o[1]
                /\ Tail(toks) \in Toks(From(text, Len(o[2]) + 1))
<1>1. "operator" \in Expectations /\ toks \in tokenizeFrom[text]["operator"]
  BY DEF Expectations, AfterLabel
<1>2. text # <<>>
  <2>1. toks[1].kind # "EOF"
    BY DEF OperatorKinds
  <2> QED
    BY <1>1, <2>1, EndOfText
<1>3. PICK r \in nextToken(text, "operator") :
          toks[1] = r.token /\ Tail(toks) \in tokenizeFrom[From(text, r.length + 1)][Expected(r.token)]
  BY <1>1, <1>2, FirstToken
<1>4. r \in OperatorToken(text)
  <2>1. text[1] \in Lexeme
    BY <1>2, TextFirst
  <2>2. CASE text[1].form = "symbol"
    BY <1>1, <1>2, <1>3, <2>2, TokenOfLexeme DEF Reading, Mark, Token, Symbols, OperatorKinds
  <2>3. CASE text[1].form = "string"
    BY <1>1, <1>2, <1>3, <2>3, TokenOfLexeme DEF Reading, Token, OperatorKinds
  <2>4. CASE text[1].form \in {"word", "call"}
    BY <1>1, <1>2, <2>4, TokenOfLexeme
  <2> QED
    BY <1>1, <1>2, <2>1, <2>2, <2>3, <2>4, LexemeShape, TokenOfLexeme
<1>5. PICK o \in WordOperators : Spells(text, o[2]) /\ r = Reading(Mark(o[1]), Len(o[2]))
  BY <1>4 DEF OperatorToken
<1>6. r.token.kind = o[1] /\ r.length = Len(o[2])
  BY <1>5 DEF Reading, Mark, Token
<1>7. Expected(r.token) = "operand"
  BY <1>6, OperatorWords DEF Expected, OperatorKinds
<1> QED
  BY <1>2, <1>3, <1>5, <1>6, <1>7 DEF Toks

\* The words of an operator, where one is expected, make its token.
LEMMA OperatorWordTokenMade ==
    ASSUME NEW text \in Text, NEW o \in WordOperators, Spells(text, o[2]),
           NEW rest \in Toks(From(text, Len(o[2]) + 1))
    PROVE  \E toks \in AfterLabel(text) : toks[1].kind = o[1] /\ Tail(toks) = rest
<1>1. "operator" \in Expectations /\ 1 \in DOMAIN o[2] /\ Len(o[2]) \in {1, 2} /\ o[1] \in OperatorKinds
  BY OperatorWords DEF Expectations
<1>2. text # <<>> /\ text[1].form = "word"
  <2>1. text[1] = Word(o[2][1]) /\ Len(o[2]) <= Len(text)
    BY <1>1 DEF Spells
  <2>2. Len(text) # 0
    BY <1>1, <2>1
  <2> QED
    BY <2>1, <2>2, TextFirst DEF Word
<1> DEFINE r == Reading(Mark(o[1]), Len(o[2]))
<1>3. r \in nextToken(text, "operator")
  BY <1>2 DEF nextToken, OperatorToken
<1>4. r.length = Len(o[2]) /\ r.token.kind = o[1]
  BY DEF Reading, Mark, Token
<1> HIDE DEF r
<1>5. Expected(r.token) = "operand"
  BY <1>1, <1>4 DEF Expected, OperatorKinds
<1>6. rest \in tokenizeFrom[From(text, r.length + 1)][Expected(r.token)]
  BY <1>4, <1>5 DEF Toks
<1> DEFINE t == <<r.token>> \o rest
<1>7. t \in tokenizeFrom[text]["operator"] /\ t[1] = r.token /\ Tail(t) = rest
  BY <1>1, <1>2, <1>3, <1>6, MadeOfFirstToken
<1> HIDE DEF t
<1> QED
  BY <1>4, <1>7 DEF AfterLabel

\* A call.
LEMMA CallTokens ==
    ASSUME NEW text \in Text, text # <<>>, text[1].form = "call", NEW toks \in Toks(text)
    PROVE  \E r \in CallToken(text) :
               /\ toks[1] = r.token /\ r.token.kind \in {"Has", "All", "Global"}
               /\ Tail(toks) \in Toks(From(text, r.length + 1))
<1>1. "operand" \in Expectations /\ toks \in tokenizeFrom[text]["operand"]
  BY DEF Expectations, Toks
<1>2. PICK r \in nextToken(text, "operand") :
          toks[1] = r.token /\ Tail(toks) \in tokenizeFrom[From(text, r.length + 1)][Expected(r.token)]
  BY <1>1, FirstToken
<1>3. r \in CallToken(text) /\ r.token.kind \in {"Has", "All", "Global"}
  BY <1>1, TokenOfLexeme
<1>4. Expected(r.token) = "operand"
  BY <1>3 DEF Expected
<1> QED
  BY <1>2, <1>3, <1>4 DEF Toks

\* A call that is complete makes its token.
LEMMA CallTokensMade ==
    ASSUME NEW text \in Text, text # <<>>, text[1].form = "call", NEW r \in CallToken(text),
           NEW rest \in Toks(From(text, r.length + 1))
    PROVE  \E toks \in Toks(text) : toks[1] = r.token /\ Tail(toks) = rest
<1>1. "operand" \in Expectations /\ r \in nextToken(text, "operand")
  BY DEF Expectations, nextToken
<1>2. r.token.kind \in {"Has", "All", "Global"}
  BY <1>1, TokenOfLexeme
<1>3. Expected(r.token) = "operand"
  BY <1>2 DEF Expected
<1> DEFINE t == <<r.token>> \o rest
<1>4. t \in tokenizeFrom[text]["operand"] /\ t[1] = r.token /\ Tail(t) = rest
  BY <1>1, <1>3, MadeOfFirstToken DEF Toks
<1> HIDE DEF t
<1> QED
  BY <1>4 DEF Toks

-----------------------------------------------------------------------------
(***************************************************************************)
(* The parser reads phrases, by induction on the text: sets, conjunctions, *)
(* disjunctions, negations, parentheses and calls.                         *)
(***************************************************************************)
\* What the parser can make of a text, and what it should: a value and the tokens
\* of what is after.
ReadsSet(text, v, rem)       == \E toks \in Toks(text) : [set |-> v, rem |-> rem] \in parse[toks].set
ReadsOperation(text, v, rem) == \E toks \in Toks(text) : Parsed(v, rem) \in parse[toks].operation
ReadsAnd(text, v, rem)       == \E toks \in Toks(text) : Parsed(v, rem) \in parse[toks].andExpression
ReadsOr(text, v, rem)        == \E toks \in Toks(text) : Parsed(v, rem) \in parse[toks].orExpression

SaysSet(text, v, rem) ==
    \E rest \in Text : Phrase(v, rest) \in phrases[text].set /\ rem \in Toks(rest)
SaysOperation(text, v, rem) ==
    \E rest \in Text : Phrase(v, rest) \in phrases[text].operation /\ rem \in Toks(rest)
SaysAnd(text, v, rem) ==
    /\ rem[1].kind # "And"
    /\ \E rest \in Text : Phrase(v, rest) \in phrases[text].conjunction /\ rem \in Toks(rest)
SaysOr(text, v, rem) ==
    /\ rem[1].kind \notin {"And", "Or"}
    /\ \E rest \in Text : Phrase(v, rest) \in phrases[text].disjunction /\ rem \in Toks(rest)

Reads(text) ==
    \A v, rem : /\ ReadsSet(text, v, rem) <=> SaysSet(text, v, rem)
                /\ ReadsOperation(text, v, rem) <=> SaysOperation(text, v, rem)
                /\ ReadsAnd(text, v, rem) <=> SaysAnd(text, v, rem)
                /\ ReadsOr(text, v, rem) <=> SaysOr(text, v, rem)

ReadsShorter(text) == \A y \in Text : Len(y) < Len(text) => Reads(y)

\* What the parser makes of a list, by the kind of what is parsed.
LEMMA ParseFields ==
    ASSUME NEW toks \in TokenLists
    PROVE  /\ parse[toks].set = setLiteral(toks, parse)
           /\ parse[toks].operation = parseOperation(toks, parse)
           /\ parse[toks].andExpression = parseAndExpression(parse[toks].operation, parse)
           /\ parse[toks].orExpression = parseOrExpression(parse[toks].andExpression, parse)
<1>1. parse[toks] = ParseStep(toks, parse)
  BY ParseEquation
<1> QED
  BY <1>1 DEF ParseStep

\* What the grammar says of a text, by the kind of phrase.
LEMMA PhraseFields ==
    ASSUME NEW text \in Text
    PROVE  /\ phrases[text].set = Set(text, phrases)
           /\ phrases[text].operation = Operation(text, phrases)
           /\ phrases[text].conjunction = Conjunction(phrases[text].operation, phrases)
           /\ phrases[text].disjunction = Disjunction(phrases[text].conjunction, phrases)
<1>1. phrases[text] = PhrasesStep(text, phrases)
  BY PhrasesEquation
<1> QED
  BY <1>1 DEF PhrasesStep

\* A result of the parser is its node and its rest.
LEMMA ParsedShape ==
    ASSUME NEW toks \in TokenLists
    PROVE  /\ \A s \in parse[toks].set : s = [set |-> s.set, rem |-> s.rem] /\ s.rem \in TokenLists
           /\ \A p \in parse[toks].operation \cup parse[toks].andExpression \cup parse[toks].orExpression :
                p = Parsed(p.node, p.rem) /\ p.rem \in TokenLists /\ p.node \in SUBSET Labellings
<1>1. parse[toks] \in ParseType(toks)
  BY ParseEquation
<1>2. /\ parse[toks].set \subseteq SetsOf(toks)
      /\ parse[toks].operation \cup parse[toks].andExpression \cup parse[toks].orExpression \subseteq NodesOf(toks)
  BY <1>1 DEF ParseType, OneOf
<1> QED
  BY <1>2 DEF SetsOf, NodesOf, Parsed

\* A phrase is its meaning and its rest.
LEMMA PhraseShape ==
    ASSUME NEW text \in Text
    PROVE  /\ \A s \in phrases[text].set : s = Phrase(s.means, s.rest) /\ s.rest \in Text
           /\ \A p \in phrases[text].operation \cup phrases[text].conjunction \cup phrases[text].disjunction :
                /\ p = Phrase(p.means, p.rest) /\ p.rest \in Text /\ p.means \in SUBSET Labellings
                /\ Len(p.rest) < Len(text)
<1>1. phrases[text] \in PhraseType(text)
  BY PhrasesEquation
<1>2. /\ phrases[text].set \subseteq StringsOf(text)
      /\ phrases[text].operation \cup phrases[text].conjunction \cup phrases[text].disjunction \subseteq PhrasesOf(text)
  BY <1>1 DEF PhraseType
<1> QED
  BY <1>2 DEF StringsOf, PhrasesOf, Phrase

\* The rests of a list of tokens.
LEMMA Tails ==
    ASSUME NEW S, NEW s \in Seq(S)
    PROVE  /\ s # <<>> => Tail(s) \in Seq(S) /\ Len(Tail(s)) = Len(s) - 1
           /\ Len(s) >= 2 => Tail(s)[1] = s[2] /\ Tail(Tail(s)) = From(s, 3)
           /\ Len(s) >= 3 => From(s, 3)[1] = s[3] /\ Tail(s)[2] = s[3] /\ Tail(From(s, 3)) = From(s, 4)
           /\ Len(s) >= 4 => Tail(From(s, 4)) = From(s, 5)
<1>1. s # <<>> => Tail(s) = From(s, 2) /\ Tail(s) \in Seq(S) /\ Len(Tail(s)) = Len(s) - 1
                  /\ \A j \in 1..(Len(s) - 1) : Tail(s)[j] = s[j + 1]
  BY TailIsFrom
<1>2. ASSUME NEW i \in 2..Len(s)
      PROVE  Tail(From(s, i)) = From(s, i + 1) /\ From(s, i)[1] = s[i]
  <2>1. /\ i \in 1..(Len(s) + 1) /\ 2 \in 1..(Len(s) - i + 2) /\ i + 2 - 1 = i + 1 /\ i <= Len(s)
    OBVIOUS
  <2>2. From(s, i) \in Seq(S) /\ From(s, i) # <<>> /\ From(s, i)[1] = s[i]
    BY <2>1, FromProperties
  <2>3. Tail(From(s, i)) = From(From(s, i), 2)
    BY <2>2, TailIsFrom
  <2>4. From(From(s, i), 2) = From(s, i + 2 - 1)
    BY <2>1, FromFrom
  <2> QED
    BY <2>1, <2>2, <2>3, <2>4
<1>3. ASSUME Len(s) >= 2 PROVE Tail(s)[1] = s[2] /\ Tail(Tail(s)) = From(s, 3)
  <2>1. s # <<>> /\ 2 \in 2..Len(s) /\ 2 + 1 = 3 /\ 1 \in 1..(Len(s) - 1) /\ 1 + 1 = 2
    BY <1>3
  <2> QED
    BY <1>1, <1>2, <2>1
<1>4. ASSUME Len(s) >= 3
      PROVE  From(s, 3)[1] = s[3] /\ Tail(s)[2] = s[3] /\ Tail(From(s, 3)) = From(s, 4)
  <2>1. s # <<>> /\ 3 \in 2..Len(s) /\ 3 + 1 = 4 /\ 2 \in 1..(Len(s) - 1) /\ 2 + 1 = 3
    BY <1>4
  <2> QED
    BY <1>1, <1>2, <2>1
<1>5. ASSUME Len(s) >= 4 PROVE Tail(From(s, 4)) = From(s, 5)
  <2>1. 4 \in 2..Len(s) /\ 4 + 1 = 5
    BY <1>5
  <2> QED
    BY <1>2, <2>1
<1> QED
  BY <1>1, <1>3, <1>4, <1>5

\* Two tokens that are one lexeme each.
LEMMA TwoTokens ==
    ASSUME NEW text \in Text, NEW b \in Expectations, NEW toks \in tokenizeFrom[text][b],
           toks[1].kind = "StringLiteral", NEW s \in Symbols, toks[2].kind = s
    PROVE  /\ Len(text) >= 2 /\ text[1].form = "string" /\ text[1].text = toks[1].value
           /\ text[2] = Symbol(s)
           /\ From(text, 3) \in Text /\ From(toks, 3) \in Toks(From(text, 3))
<1>1. toks \in TokenLists /\ "operand" \in Expectations
  BY TokensTyped DEF Expectations
<1>2. toks \in Seq(Tokens) /\ Len(toks) >= 2
  BY <1>1, TokenListFirst
<1>3. /\ text # <<>> /\ text[1].form = "string" /\ text[1].text = toks[1].value
      /\ Tail(text) \in Text /\ Tail(toks) \in Toks(Tail(text))
  BY StringToken
<1>4. Tail(toks)[1] = toks[2] /\ Tail(Tail(toks)) = From(toks, 3)
  BY <1>2, Tails
<1>5. /\ Begins(Tail(text), Symbol(s))
      /\ Tail(Tail(text)) \in Text /\ Tail(Tail(toks)) \in Toks(Tail(Tail(text)))
  <2>1. Tail(toks) \in tokenizeFrom[Tail(text)]["operand"]
    BY <1>3 DEF Toks
  <2>2. PICK more \in tokenizeFrom[Tail(text)]["operand"] : more = Tail(toks)
    BY <2>1
  <2>3. PICK after \in Text : after = Tail(text) /\ more \in tokenizeFrom[after]["operand"]
    BY <1>3, <2>2
  <2>4. more[1].kind = s
    BY <1>4, <2>2
  <2>5. Begins(after, Symbol(s)) /\ Tail(after) \in Text /\ Tail(more) \in Toks(Tail(after))
    BY <1>1, <2>3, <2>4, SymbolToken
  <2> QED
    BY <2>2, <2>3, <2>5
<1>6. Len(text) >= 2
  <2>1. Tail(text) # <<>>
    BY <1>5 DEF Begins
  <2> QED
    BY <1>3, <2>1, TextFirst
<1>7. Tail(text)[1] = text[2] /\ Tail(Tail(text)) = From(text, 3)
  BY <1>6, Tails DEF Text
<1> QED
  BY <1>3, <1>4, <1>5, <1>6, <1>7 DEF Begins

\* Two lexemes that are a token each make these.
LEMMA TwoTokensMade ==
    ASSUME NEW text \in Text, NEW b \in Expectations, Len(text) >= 2, text[1].form = "string",
           NEW s \in Symbols, text[2] = Symbol(s), NEW rest \in Toks(From(text, 3))
    PROVE  \E toks \in tokenizeFrom[text][b] :
               /\ toks[1].kind = "StringLiteral" /\ toks[1].value = text[1].text
               /\ toks[2].kind = s /\ From(toks, 3) = rest
<1>1. text # <<>> /\ Tail(text) \in Text /\ Len(Tail(text)) = Len(text) - 1 /\ Len(text) \in Nat
  BY TextFirst
<1>2. Tail(text)[1] = text[2] /\ Tail(Tail(text)) = From(text, 3) /\ Tail(text) # <<>>
  <2>1. Tail(text)[1] = text[2] /\ Tail(Tail(text)) = From(text, 3)
    BY Tails DEF Text
  <2>2. Tail(text) # <<>>
    BY <1>1
  <2> QED
    BY <2>1, <2>2
<1>3. Begins(Tail(text), Symbol(s)) /\ "operand" \in Expectations
  BY <1>2 DEF Begins, Expectations
<1>4. PICK more \in Toks(Tail(text)) : more[1].kind = s /\ Tail(more) = rest
  <2>1. rest \in Toks(Tail(Tail(text)))
    BY <1>2
  <2>2. \E more \in tokenizeFrom[Tail(text)]["operand"] : more[1].kind = s /\ Tail(more) = rest
    BY <1>1, <1>3, <2>1, SymbolTokenMade
  <2> QED
    BY <2>2 DEF Toks
<1>5. PICK toks \in tokenizeFrom[text][b] : toks[1].kind = "StringLiteral" /\ Tail(toks) = more
  BY <1>1, <1>4, StringTokenMade
<1>6. toks \in TokenLists
  BY TokensTyped
<1>7. toks \in Seq(Tokens) /\ Len(toks) >= 2
  BY <1>5, <1>6, TokenListFirst
<1>8. Tail(toks)[1] = toks[2] /\ Tail(Tail(toks)) = From(toks, 3)
  BY <1>7, Tails
<1>9. toks[1].value = text[1].text
  BY <1>5, StringToken
<1> QED
  BY <1>4, <1>5, <1>8, <1>9

\* The parser reads set literals as the grammar does, if it reads what is shorter so.
LEMMA SetAgrees ==
    ASSUME NEW text \in Text, ReadsShorter(text), NEW v, NEW rem
    PROVE  ReadsSet(text, v, rem) <=> SaysSet(text, v, rem)
<1> DEFINE said == Set(text, phrases)
<1>0. phrases[text].set = said /\ "operand" \in Expectations
  BY PhraseFields DEF Expectations
<1>1. ASSUME NEW toks \in Toks(text), [set |-> v, rem |-> rem] \in parse[toks].set
      PROVE  SaysSet(text, v, rem)
  <2>1. toks \in tokenizeFrom[text]["operand"] /\ toks \in TokenLists
    BY <1>0, TokensTyped DEF Toks
  <2>2. [set |-> v, rem |-> rem] \in setLiteral(toks, parse)
    BY <1>1, <2>1, ParseFields
  <2>3. CASE toks[1].kind = "RBrace"
    <3>1. Begins(text, Symbol("RBrace")) /\ Tail(text) \in Text /\ Tail(toks) \in Toks(Tail(text))
      BY <1>0, <2>1, <2>3, SymbolToken DEF Symbols
    <3>2. v = {} /\ rem = Tail(toks)
      BY <2>2, <2>3 DEF setLiteral
    <3>3. Phrase(v, Tail(text)) \in said
      BY <3>1, <3>2 DEF Set
    <3> QED
      BY <1>0, <3>1, <3>2, <3>3 DEF SaysSet
  <2>4. CASE toks[1].kind = "StringLiteral" /\ toks[2].kind = "RBrace"
    <3>1. /\ Len(text) >= 2 /\ text[1].form = "string" /\ text[1].text = toks[1].value
          /\ text[2] = Symbol("RBrace")
          /\ From(text, 3) \in Text /\ From(toks, 3) \in Toks(From(text, 3))
      BY <1>0, <2>1, <2>4, TwoTokens DEF Symbols
    <3>2. v = {toks[1].value} /\ rem = From(toks, 3)
      BY <2>2, <2>4 DEF setLiteral
    <3>3. ~Begins(text, Symbol("RBrace"))
      BY <3>1 DEF Begins, Symbol
    <3>4. Phrase(v, From(text, 3)) \in said
      BY <3>1, <3>2, <3>3 DEF Set
    <3> QED
      BY <1>0, <3>1, <3>2, <3>4 DEF SaysSet
  <2>5. CASE toks[1].kind = "StringLiteral" /\ toks[2].kind = "Comma"
    <3> DEFINE y == From(text, 3)
    <3>1. /\ Len(text) >= 2 /\ text[1].form = "string" /\ text[1].text = toks[1].value
          /\ text[2] = Symbol("Comma") /\ y \in Text /\ From(toks, 3) \in Toks(y)
      BY <1>0, <2>1, <2>5, TwoTokens DEF Symbols
    <3>2. PICK s \in parse[From(toks, 3)].set : v = {toks[1].value} \cup s.set /\ rem = s.rem
      BY <2>2, <2>5 DEF setLiteral
    <3>3. From(toks, 3) \in TokenLists
      BY <1>0, <3>1, TokensTyped DEF Toks
    <3>4. s = [set |-> s.set, rem |-> s.rem]
      BY <3>2, <3>3, ParsedShape
    <3>5. ReadsSet(y, s.set, s.rem)
      BY <3>1, <3>2, <3>4 DEF ReadsSet
    <3>6. Len(y) < Len(text)
      BY <3>1, TextFirst
    <3>7. SaysSet(y, s.set, s.rem)
      BY <3>1, <3>5, <3>6 DEF ReadsShorter, Reads
    <3>8. PICK rest \in Text : Phrase(s.set, rest) \in phrases[y].set /\ s.rem \in Toks(rest)
      BY <3>7 DEF SaysSet
    <3>9. ~Begins(text, Symbol("RBrace")) /\ text[2] # Symbol("RBrace")
      BY <3>1 DEF Begins, Symbol
    <3>10. said = {Phrase({text[1].text} \cup u.means, u.rest) : u \in phrases[y].set}
      BY <3>1, <3>9, Zenon DEF Set
    <3>11. Phrase({text[1].text} \cup s.set, rest) \in said
      <4>1. PICK u \in phrases[y].set : u = Phrase(s.set, rest)
        BY <3>8
      <4>2. u.means = s.set /\ u.rest = rest
        BY <4>1 DEF Phrase
      <4> HIDE DEF said, y
      <4> QED
        BY <3>10, <4>1, <4>2, Zenon
    <3>12. Phrase(v, rest) \in said
      BY <3>1, <3>2, <3>11
    <3> QED
      BY <1>0, <3>2, <3>8, <3>12 DEF SaysSet
  <2> QED
    BY <2>2, <2>3, <2>4, <2>5 DEF setLiteral
<1>2. ASSUME NEW rest \in Text, Phrase(v, rest) \in phrases[text].set, rem \in Toks(rest)
      PROVE  ReadsSet(text, v, rem)
  <2>1. CASE Begins(text, Symbol("RBrace"))
    <3>1. v = {} /\ rest = Tail(text)
      BY <1>0, <1>2, <2>1 DEF Set, Phrase
    <3>2. PICK toks \in tokenizeFrom[text]["operand"] : toks[1].kind = "RBrace" /\ Tail(toks) = rem
      BY <1>0, <1>2, <2>1, <3>1, SymbolTokenMade DEF Symbols
    <3>3. toks \in TokenLists
      BY <1>0, TokensTyped
    <3>4. [set |-> v, rem |-> rem] \in parse[toks].set
      BY <3>1, <3>2, <3>3, ParseFields DEF setLiteral
    <3> QED
      BY <3>2, <3>4 DEF ReadsSet, Toks
  <2>2. CASE ~Begins(text, Symbol("RBrace")) /\ Len(text) >= 2 /\ text[1].form = "string"
             /\ text[2] = Symbol("RBrace")
    <3>1. v = {text[1].text} /\ rest = From(text, 3)
      BY <1>0, <1>2, <2>2 DEF Set, Phrase
    <3>2. PICK toks \in tokenizeFrom[text]["operand"] :
               /\ toks[1].kind = "StringLiteral" /\ toks[1].value = text[1].text
               /\ toks[2].kind = "RBrace" /\ From(toks, 3) = rem
      BY <1>0, <1>2, <2>2, <3>1, TwoTokensMade DEF Symbols
    <3>3. toks \in TokenLists
      BY <1>0, TokensTyped
    <3>4. [set |-> v, rem |-> rem] \in parse[toks].set
      BY <3>1, <3>2, <3>3, ParseFields DEF setLiteral
    <3> QED
      BY <3>2, <3>4 DEF ReadsSet, Toks
  <2>3. CASE ~Begins(text, Symbol("RBrace")) /\ Len(text) >= 2 /\ text[1].form = "string"
             /\ text[2] = Symbol("Comma")
    <3> DEFINE y == From(text, 3)
    <3>1. text[2] # Symbol("RBrace")
      BY <2>3 DEF Symbol
    <3>2. said = {Phrase({text[1].text} \cup u.means, u.rest) : u \in phrases[y].set}
      BY <2>3, <3>1, Zenon DEF Set
    <3>3. PICK u \in phrases[y].set : v = {text[1].text} \cup u.means /\ rest = u.rest
      <4>1. PICK u \in phrases[y].set : Phrase(v, rest) = Phrase({text[1].text} \cup u.means, u.rest)
        <5> HIDE DEF said
        <5> QED
          BY <1>0, <1>2, <3>2, Zenon
      <4> QED
        BY <4>1 DEF Phrase
    <3>4. y \in Text /\ Len(y) < Len(text)
      BY <2>3, TextFirst
    <3>5. u = Phrase(u.means, u.rest) /\ u.rest \in Text
      BY <3>3, <3>4, PhraseShape
    <3>6. SaysSet(y, u.means, rem)
      BY <1>2, <3>3, <3>5 DEF SaysSet
    <3>7. ReadsSet(y, u.means, rem)
      BY <3>4, <3>6 DEF ReadsShorter, Reads
    <3>8. PICK more \in Toks(y) : [set |-> u.means, rem |-> rem] \in parse[more].set
      BY <3>7 DEF ReadsSet
    <3>9. PICK toks \in tokenizeFrom[text]["operand"] :
               /\ toks[1].kind = "StringLiteral" /\ toks[1].value = text[1].text
               /\ toks[2].kind = "Comma" /\ From(toks, 3) = more
      BY <1>0, <2>3, <3>8, TwoTokensMade DEF Symbols
    <3>10. toks \in TokenLists
      BY <1>0, TokensTyped
    <3>11. setLiteral(toks, parse) =
                {[set |-> {toks[1].value} \cup s.set, rem |-> s.rem] : s \in parse[more].set}
      BY <3>9 DEF setLiteral
    <3>12. [set |-> v, rem |-> rem] \in setLiteral(toks, parse)
      <4>1. PICK s \in parse[more].set : s = [set |-> u.means, rem |-> rem]
        BY <3>8
      <4>2. s.set = u.means /\ s.rem = rem
        BY <4>1
      <4>3. [set |-> v, rem |-> rem] = [set |-> {toks[1].value} \cup s.set, rem |-> s.rem]
        BY <3>3, <3>9, <4>2
      <4> QED
        BY <3>11, <4>1, <4>3, Zenon
    <3>13. [set |-> v, rem |-> rem] \in parse[toks].set
      BY <3>10, <3>12, ParseFields
    <3> QED
      BY <3>9, <3>13 DEF ReadsSet, Toks
  <2> QED
    BY <1>0, <1>2, <2>1, <2>2, <2>3 DEF Set
<1> QED
  BY <1>1, <1>2 DEF ReadsSet, SaysSet

\* The same of conjunctions, if it reads operations as the grammar does.
LEMMA AndAgrees ==
    ASSUME NEW text \in Text, ReadsShorter(text),
           \A v, rem : ReadsOperation(text, v, rem) <=> SaysOperation(text, v, rem),
           NEW v, NEW rem
    PROVE  ReadsAnd(text, v, rem) <=> SaysAnd(text, v, rem)
<1>0. /\ "operand" \in Expectations /\ "And" \in Symbols
      /\ phrases[text].conjunction = Conjunction(phrases[text].operation, phrases)
  BY PhraseFields DEF Expectations, Symbols
<1>1. ASSUME NEW toks \in Toks(text), Parsed(v, rem) \in parse[toks].andExpression
      PROVE  SaysAnd(text, v, rem)
  <2>1. toks \in TokenLists
    BY <1>0, TokensTyped DEF Toks
  <2>2. AndReads(parse[toks].operation, parse, Parsed(v, rem))
    BY <1>1, <2>1, ParseFields, AndElements
  <2>3. PICK o \in parse[toks].operation :
            IF o.rem[1].kind = "And"
            THEN \E q \in parse[Tail(o.rem)].andExpression : Parsed(v, rem) = Parsed(andNode(o.node, q.node), q.rem)
            ELSE Parsed(v, rem) = o
    BY <2>2 DEF AndReads
  <2>4. o = Parsed(o.node, o.rem) /\ o.rem \in TokenLists
    BY <2>1, <2>3, ParsedShape
  <2>5. ReadsOperation(text, o.node, o.rem)
    BY <2>3, <2>4 DEF ReadsOperation
  <2>6. PICK next \in Text : Phrase(o.node, next) \in phrases[text].operation /\ o.rem \in Toks(next)
    BY <2>5 DEF SaysOperation
  <2>7. Len(next) < Len(text)
    BY <2>6, PhraseShape DEF Phrase
  <2>8. CASE o.rem[1].kind = "And"
    <3>1. PICK q \in parse[Tail(o.rem)].andExpression : Parsed(v, rem) = Parsed(andNode(o.node, q.node), q.rem)
      BY <2>3, <2>8
    <3>2. v = o.node \cap q.node /\ rem = q.rem
      BY <3>1 DEF Parsed, andNode
    <3>3. Begins(next, Symbol("And")) /\ Tail(next) \in Text /\ Tail(o.rem) \in Toks(Tail(next))
      <4>1. o.rem \in tokenizeFrom[next]["operand"]
        BY <2>6 DEF Toks
      <4>2. PICK r \in tokenizeFrom[next]["operand"] : r = o.rem
        BY <4>1
      <4>3. Begins(next, Symbol("And")) /\ Tail(next) \in Text /\ Tail(r) \in Toks(Tail(next))
        BY <1>0, <2>8, <4>2, SymbolToken
      <4> QED
        BY <4>2, <4>3
    <3>4. Len(Tail(next)) < Len(text)
      <4>1. Len(Tail(next)) = Len(next) - 1 /\ Len(next) \in Nat /\ Len(text) \in Nat
        BY <3>3, TextFirst DEF Begins
      <4> QED
        BY <2>7, <4>1
    <3>5. Tail(o.rem) \in TokenLists
      BY <2>4, <2>8, TokenListFirst
    <3>6. q = Parsed(q.node, q.rem)
      BY <3>1, <3>5, ParsedShape
    <3>7. ReadsAnd(Tail(next), q.node, q.rem)
      BY <3>1, <3>3, <3>6 DEF ReadsAnd
    <3>8. SaysAnd(Tail(next), q.node, q.rem)
      BY <3>3, <3>4, <3>7 DEF ReadsShorter, Reads
    <3>9. PICK rest \in Text : Phrase(q.node, rest) \in phrases[Tail(next)].conjunction /\ q.rem \in Toks(rest)
      BY <3>8 DEF SaysAnd
    <3>10. ConjunctionReads(phrases[text].operation, phrases, Phrase(v, rest))
      <4>1. PICK a \in phrases[text].operation : a = Phrase(o.node, next)
        BY <2>6
      <4>2. PICK u \in phrases[Tail(next)].conjunction : u = Phrase(q.node, rest)
        BY <3>9
      <4>3. a.rest = next /\ Phrase(v, rest) = Phrase(a.means \cap u.means, u.rest)
        BY <3>2, <4>1, <4>2 DEF Phrase
      <4>4. Begins(a.rest, Symbol("And")) /\ u \in phrases[Tail(a.rest)].conjunction
        BY <3>3, <4>2, <4>3
      <4> QED
        BY <4>1, <4>3, <4>4, Zenon DEF ConjunctionReads
    <3>11. Phrase(v, rest) \in phrases[text].conjunction
      BY <1>0, <3>10, ConjunctionElements
    <3> QED
      BY <3>2, <3>8, <3>9, <3>11 DEF SaysAnd
  <2>9. CASE o.rem[1].kind # "And"
    <3>1. Parsed(v, rem) = o
      BY <2>3, <2>9
    <3>2. v = o.node /\ rem = o.rem
      BY <3>1 DEF Parsed
    <3>3. Phrase(v, next) \in phrases[text].conjunction
      BY <1>0, <2>6, <3>2, ConjunctionElements DEF ConjunctionReads
    <3> QED
      BY <2>5, <2>6, <2>9, <3>2, <3>3 DEF SaysAnd
  <2> QED
    BY <2>8, <2>9
<1>2. ASSUME SaysAnd(text, v, rem)
      PROVE  ReadsAnd(text, v, rem)
  <2>1. PICK rest \in Text : Phrase(v, rest) \in phrases[text].conjunction /\ rem \in Toks(rest)
    BY <1>2 DEF SaysAnd
  <2>2. rem[1].kind # "And"
    BY <1>2 DEF SaysAnd
  <2>3. ConjunctionReads(phrases[text].operation, phrases, Phrase(v, rest))
    BY <1>0, <2>1, ConjunctionElements
  <2>4. CASE Phrase(v, rest) \in phrases[text].operation
    <3>1. SaysOperation(text, v, rem)
      BY <1>2, <2>1, <2>4 DEF SaysOperation, SaysAnd
    <3>2. PICK toks \in Toks(text) : Parsed(v, rem) \in parse[toks].operation
      BY <3>1 DEF ReadsOperation
    <3>3. toks \in TokenLists
      BY <1>0, TokensTyped DEF Toks
    <3>4. AndReads(parse[toks].operation, parse, Parsed(v, rem))
      <4>1. PICK o \in parse[toks].operation : o = Parsed(v, rem)
        BY <3>2
      <4>2. o.rem[1].kind # "And"
        BY <2>2, <4>1 DEF Parsed
      <4> QED
        BY <4>1, <4>2, Zenon DEF AndReads
    <3>5. Parsed(v, rem) \in parse[toks].andExpression
      BY <3>3, <3>4, ParseFields, AndElements
    <3> QED
      BY <3>2, <3>5 DEF ReadsAnd
  <2>5. CASE \E a \in phrases[text].operation : /\ Begins(a.rest, Symbol("And"))
                /\ \E q \in phrases[Tail(a.rest)].conjunction : Phrase(v, rest) = Phrase(a.means \cap q.means, q.rest)
    <3>1. PICK a \in phrases[text].operation : /\ Begins(a.rest, Symbol("And"))
                /\ \E q \in phrases[Tail(a.rest)].conjunction : Phrase(v, rest) = Phrase(a.means \cap q.means, q.rest)
      BY <2>5
    <3>2. PICK q \in phrases[Tail(a.rest)].conjunction : Phrase(v, rest) = Phrase(a.means \cap q.means, q.rest)
      BY <3>1
    <3>3. v = a.means \cap q.means /\ rest = q.rest
      BY <3>2 DEF Phrase
    <3>4. a = Phrase(a.means, a.rest) /\ a.rest \in Text /\ Len(a.rest) < Len(text) /\ a.rest # <<>>
      BY <3>1, PhraseShape DEF Begins
    <3> DEFINE y == Tail(a.rest)
    <3>5. y \in Text /\ Len(y) < Len(text)
      <4>1. y \in Text /\ Len(y) = Len(a.rest) - 1 /\ Len(a.rest) \in Nat /\ Len(text) \in Nat
        BY <3>4, TextFirst
      <4> QED
        BY <3>4, <4>1
    <3>6. q = Phrase(q.means, q.rest) /\ q.rest \in Text
      BY <3>2, <3>5, PhraseShape
    <3>7. SaysAnd(y, q.means, rem)
      BY <1>2, <2>1, <3>2, <3>3, <3>6 DEF SaysAnd
    <3>8. ReadsAnd(y, q.means, rem)
      BY <3>5, <3>7 DEF ReadsShorter, Reads
    <3>9. PICK more \in Toks(y) : Parsed(q.means, rem) \in parse[more].andExpression
      BY <3>8 DEF ReadsAnd
    <3>10. PICK next \in tokenizeFrom[a.rest]["operand"] : next[1].kind = "And" /\ Tail(next) = more
      <4>1. PICK z \in Text : z = a.rest
        BY <3>4
      <4>2. Begins(z, Symbol("And")) /\ more \in Toks(Tail(z))
        BY <3>1, <3>9, <4>1
      <4>3. \E next \in tokenizeFrom[z]["operand"] : next[1].kind = "And" /\ Tail(next) = more
        BY <1>0, <4>2, SymbolTokenMade
      <4> QED
        BY <4>1, <4>3
    <3>11. SaysOperation(text, a.means, next)
      BY <3>4, <3>10 DEF SaysOperation, Toks
    <3>12. PICK toks \in Toks(text) : Parsed(a.means, next) \in parse[toks].operation
      BY <3>11 DEF ReadsOperation
    <3>13. toks \in TokenLists
      BY <1>0, TokensTyped DEF Toks
    <3>14. AndReads(parse[toks].operation, parse, Parsed(v, rem))
      <4>1. PICK o \in parse[toks].operation : o = Parsed(a.means, next)
        BY <3>12
      <4>2. o.node = a.means /\ o.rem = next
        BY <4>1 DEF Parsed
      <4>3. PICK u \in parse[more].andExpression : u = Parsed(q.means, rem)
        BY <3>9
      <4>4. Parsed(v, rem) = Parsed(andNode(o.node, u.node), u.rem)
        BY <3>3, <4>2, <4>3 DEF Parsed, andNode
      <4>5. o.rem[1].kind = "And" /\ Tail(o.rem) = more
        BY <3>10, <4>2
      <4>6. u \in parse[Tail(o.rem)].andExpression
        BY <4>3, <4>5
      <4> QED
        BY <4>4, <4>5, <4>6, Zenon DEF AndReads
    <3>15. Parsed(v, rem) \in parse[toks].andExpression
      BY <3>13, <3>14, ParseFields, AndElements
    <3> QED
      BY <3>12, <3>15 DEF ReadsAnd
  <2> QED
    BY <2>3, <2>4, <2>5 DEF ConjunctionReads
<1> QED
  BY <1>1, <1>2 DEF ReadsAnd

\* The same of disjunctions, if it reads conjunctions as the grammar does.
LEMMA OrAgrees ==
    ASSUME NEW text \in Text, ReadsShorter(text),
           \A v, rem : ReadsAnd(text, v, rem) <=> SaysAnd(text, v, rem),
           NEW v, NEW rem
    PROVE  ReadsOr(text, v, rem) <=> SaysOr(text, v, rem)
<1>0. /\ "operand" \in Expectations /\ "Or" \in Symbols
      /\ phrases[text].disjunction = Disjunction(phrases[text].conjunction, phrases)
  BY PhraseFields DEF Expectations, Symbols
<1>1. ASSUME NEW toks \in Toks(text), Parsed(v, rem) \in parse[toks].orExpression
      PROVE  SaysOr(text, v, rem)
  <2>1. toks \in TokenLists
    BY <1>0, TokensTyped DEF Toks
  <2>2. OrReads(parse[toks].andExpression, parse, Parsed(v, rem))
    BY <1>1, <2>1, ParseFields, OrElements
  <2>3. PICK o \in parse[toks].andExpression :
            IF o.rem[1].kind = "Or"
            THEN \E q \in parse[Tail(o.rem)].orExpression : Parsed(v, rem) = Parsed(orNode(o.node, q.node), q.rem)
            ELSE Parsed(v, rem) = o
    BY <2>2 DEF OrReads
  <2>4. o = Parsed(o.node, o.rem) /\ o.rem \in TokenLists
    BY <2>1, <2>3, ParsedShape
  <2>5. ReadsAnd(text, o.node, o.rem)
    BY <2>3, <2>4 DEF ReadsAnd
  <2>6. PICK next \in Text : Phrase(o.node, next) \in phrases[text].conjunction /\ o.rem \in Toks(next)
    BY <2>5 DEF SaysAnd
  <2>7. Len(next) < Len(text)
    BY <2>6, PhraseShape DEF Phrase
  <2>8. CASE o.rem[1].kind = "Or"
    <3>1. PICK q \in parse[Tail(o.rem)].orExpression : Parsed(v, rem) = Parsed(orNode(o.node, q.node), q.rem)
      BY <2>3, <2>8
    <3>2. v = o.node \cup q.node /\ rem = q.rem
      BY <3>1 DEF Parsed, orNode
    <3>3. Begins(next, Symbol("Or")) /\ Tail(next) \in Text /\ Tail(o.rem) \in Toks(Tail(next))
      <4>1. o.rem \in tokenizeFrom[next]["operand"]
        BY <2>6 DEF Toks
      <4>2. PICK r \in tokenizeFrom[next]["operand"] : r = o.rem
        BY <4>1
      <4>3. Begins(next, Symbol("Or")) /\ Tail(next) \in Text /\ Tail(r) \in Toks(Tail(next))
        BY <1>0, <2>8, <4>2, SymbolToken
      <4> QED
        BY <4>2, <4>3
    <3>4. Len(Tail(next)) < Len(text)
      <4>1. Len(Tail(next)) = Len(next) - 1 /\ Len(next) \in Nat /\ Len(text) \in Nat
        BY <3>3, TextFirst DEF Begins
      <4> QED
        BY <2>7, <4>1
    <3>5. Tail(o.rem) \in TokenLists
      BY <2>4, <2>8, TokenListFirst
    <3>6. q = Parsed(q.node, q.rem)
      BY <3>1, <3>5, ParsedShape
    <3>7. ReadsOr(Tail(next), q.node, q.rem)
      BY <3>1, <3>3, <3>6 DEF ReadsOr
    <3>8. SaysOr(Tail(next), q.node, q.rem)
      BY <3>3, <3>4, <3>7 DEF ReadsShorter, Reads
    <3>9. PICK rest \in Text : Phrase(q.node, rest) \in phrases[Tail(next)].disjunction /\ q.rem \in Toks(rest)
      BY <3>8 DEF SaysOr
    <3>10. DisjunctionReads(phrases[text].conjunction, phrases, Phrase(v, rest))
      <4>1. PICK a \in phrases[text].conjunction : a = Phrase(o.node, next)
        BY <2>6
      <4>2. PICK u \in phrases[Tail(next)].disjunction : u = Phrase(q.node, rest)
        BY <3>9
      <4>3. a.rest = next /\ Phrase(v, rest) = Phrase(a.means \cup u.means, u.rest)
        BY <3>2, <4>1, <4>2 DEF Phrase
      <4>4. Begins(a.rest, Symbol("Or")) /\ u \in phrases[Tail(a.rest)].disjunction
        BY <3>3, <4>2, <4>3
      <4> QED
        BY <4>1, <4>3, <4>4, Zenon DEF DisjunctionReads
    <3>11. Phrase(v, rest) \in phrases[text].disjunction
      BY <1>0, <3>10, DisjunctionElements
    <3> QED
      BY <3>2, <3>8, <3>9, <3>11 DEF SaysOr
  <2>9. CASE o.rem[1].kind # "Or"
    <3>1. Parsed(v, rem) = o
      BY <2>3, <2>9
    <3>2. v = o.node /\ rem = o.rem
      BY <3>1 DEF Parsed
    <3>3. Phrase(v, next) \in phrases[text].disjunction
      BY <1>0, <2>6, <3>2, DisjunctionElements DEF DisjunctionReads
    <3> QED
      BY <2>5, <2>6, <2>9, <3>2, <3>3 DEF SaysOr, SaysAnd
  <2> QED
    BY <2>8, <2>9
<1>2. ASSUME SaysOr(text, v, rem)
      PROVE  ReadsOr(text, v, rem)
  <2>1. PICK rest \in Text : Phrase(v, rest) \in phrases[text].disjunction /\ rem \in Toks(rest)
    BY <1>2 DEF SaysOr
  <2>2. rem[1].kind # "Or"
    BY <1>2 DEF SaysOr
  <2>3. DisjunctionReads(phrases[text].conjunction, phrases, Phrase(v, rest))
    BY <1>0, <2>1, DisjunctionElements
  <2>4. CASE Phrase(v, rest) \in phrases[text].conjunction
    <3>1. SaysAnd(text, v, rem)
      BY <1>2, <2>1, <2>4 DEF SaysAnd, SaysOr
    <3>2. PICK toks \in Toks(text) : Parsed(v, rem) \in parse[toks].andExpression
      BY <3>1 DEF ReadsAnd
    <3>3. toks \in TokenLists
      BY <1>0, TokensTyped DEF Toks
    <3>4. OrReads(parse[toks].andExpression, parse, Parsed(v, rem))
      <4>1. PICK o \in parse[toks].andExpression : o = Parsed(v, rem)
        BY <3>2
      <4>2. o.rem[1].kind # "Or"
        BY <2>2, <4>1 DEF Parsed
      <4> QED
        BY <4>1, <4>2, Zenon DEF OrReads
    <3>5. Parsed(v, rem) \in parse[toks].orExpression
      BY <3>3, <3>4, ParseFields, OrElements
    <3> QED
      BY <3>2, <3>5 DEF ReadsOr
  <2>5. CASE \E a \in phrases[text].conjunction : /\ Begins(a.rest, Symbol("Or"))
                /\ \E q \in phrases[Tail(a.rest)].disjunction : Phrase(v, rest) = Phrase(a.means \cup q.means, q.rest)
    <3>1. PICK a \in phrases[text].conjunction : /\ Begins(a.rest, Symbol("Or"))
                /\ \E q \in phrases[Tail(a.rest)].disjunction : Phrase(v, rest) = Phrase(a.means \cup q.means, q.rest)
      BY <2>5
    <3>2. PICK q \in phrases[Tail(a.rest)].disjunction : Phrase(v, rest) = Phrase(a.means \cup q.means, q.rest)
      BY <3>1
    <3>3. v = a.means \cup q.means /\ rest = q.rest
      BY <3>2 DEF Phrase
    <3>4. a = Phrase(a.means, a.rest) /\ a.rest \in Text /\ Len(a.rest) < Len(text) /\ a.rest # <<>>
      BY <3>1, PhraseShape DEF Begins
    <3> DEFINE y == Tail(a.rest)
    <3>5. y \in Text /\ Len(y) < Len(text)
      <4>1. y \in Text /\ Len(y) = Len(a.rest) - 1 /\ Len(a.rest) \in Nat /\ Len(text) \in Nat
        BY <3>4, TextFirst
      <4> QED
        BY <3>4, <4>1
    <3>6. q = Phrase(q.means, q.rest) /\ q.rest \in Text
      BY <3>2, <3>5, PhraseShape
    <3>7. SaysOr(y, q.means, rem)
      BY <1>2, <2>1, <3>2, <3>3, <3>6 DEF SaysOr
    <3>8. ReadsOr(y, q.means, rem)
      BY <3>5, <3>7 DEF ReadsShorter, Reads
    <3>9. PICK more \in Toks(y) : Parsed(q.means, rem) \in parse[more].orExpression
      BY <3>8 DEF ReadsOr
    <3>10. PICK next \in tokenizeFrom[a.rest]["operand"] : next[1].kind = "Or" /\ Tail(next) = more
      <4>1. PICK z \in Text : z = a.rest
        BY <3>4
      <4>2. Begins(z, Symbol("Or")) /\ more \in Toks(Tail(z))
        BY <3>1, <3>9, <4>1
      <4>3. \E next \in tokenizeFrom[z]["operand"] : next[1].kind = "Or" /\ Tail(next) = more
        BY <1>0, <4>2, SymbolTokenMade
      <4> QED
        BY <4>1, <4>3
    <3>11. SaysAnd(text, a.means, next)
      BY <3>4, <3>10 DEF SaysAnd, Toks
    <3>12. PICK toks \in Toks(text) : Parsed(a.means, next) \in parse[toks].andExpression
      BY <3>11 DEF ReadsAnd
    <3>13. toks \in TokenLists
      BY <1>0, TokensTyped DEF Toks
    <3>14. OrReads(parse[toks].andExpression, parse, Parsed(v, rem))
      <4>1. PICK o \in parse[toks].andExpression : o = Parsed(a.means, next)
        BY <3>12
      <4>2. o.node = a.means /\ o.rem = next
        BY <4>1 DEF Parsed
      <4>3. PICK u \in parse[more].orExpression : u = Parsed(q.means, rem)
        BY <3>9
      <4>4. Parsed(v, rem) = Parsed(orNode(o.node, u.node), u.rem)
        BY <3>3, <4>2, <4>3 DEF Parsed, orNode
      <4>5. o.rem[1].kind = "Or" /\ Tail(o.rem) = more
        BY <3>10, <4>2
      <4>6. u \in parse[Tail(o.rem)].orExpression
        BY <4>3, <4>5
      <4> QED
        BY <4>4, <4>5, <4>6, Zenon DEF OrReads
    <3>15. Parsed(v, rem) \in parse[toks].orExpression
      BY <3>13, <3>14, ParseFields, OrElements
    <3> QED
      BY <3>12, <3>15 DEF ReadsOr
  <2> QED
    BY <2>3, <2>4, <2>5 DEF DisjunctionReads
<1> QED
  BY <1>1, <1>2 DEF ReadsOr

\* The same of negations.
LEMMA NotAgrees ==
    ASSUME NEW text \in Text, Begins(text, Symbol("Not")), ReadsShorter(text), NEW v, NEW rem
    PROVE  ReadsOperation(text, v, rem) <=> SaysOperation(text, v, rem)
<1> DEFINE y == Tail(text)
           said == {Phrase(Labellings \ p.means, p.rest) : p \in phrases[y].operation}
<1>1. /\ "operand" \in Expectations /\ "Not" \in Symbols /\ text # <<>> /\ text[1] = Symbol("Not")
      /\ phrases[text].operation = Operation(text, phrases)
  BY PhraseFields DEF Expectations, Symbols, Begins
<1>2. phrases[text].operation = said
  BY <1>1 DEF Operation
<1>3. y \in Text /\ Len(y) < Len(text)
  BY <1>1, TextFirst
<1>4. \A w, r : ReadsOperation(y, w, r) <=> SaysOperation(y, w, r)
  BY <1>3 DEF ReadsShorter, Reads
<1>5. ASSUME NEW toks \in Toks(text), Parsed(v, rem) \in parse[toks].operation
      PROVE  SaysOperation(text, v, rem)
  <2>1. toks \in tokenizeFrom[text]["operand"] /\ toks \in TokenLists
    BY <1>1, TokensTyped DEF Toks
  <2>2. toks[1].kind = "Not" /\ Tail(toks) \in Toks(y)
    BY <1>1, <2>1, SymbolToken
  <2>3. Tail(toks) \in TokenLists
    BY <2>1, <2>2, TokenListFirst
  <2>4. parse[toks].operation = {Parsed(notNode(p.node), p.rem) : p \in parse[Tail(toks)].operation}
    BY <2>1, <2>2, ParseFields DEF parseOperation
  <2>5. PICK p \in parse[Tail(toks)].operation : Parsed(v, rem) = Parsed(notNode(p.node), p.rem)
    BY <1>5, <2>4, Zenon
  <2>6. v = Labellings \ p.node /\ rem = p.rem /\ p = Parsed(p.node, p.rem)
    BY <2>3, <2>5, ParsedShape DEF Parsed, notNode
  <2>7. SaysOperation(y, p.node, p.rem)
    BY <1>4, <2>2, <2>5, <2>6 DEF ReadsOperation
  <2>8. PICK rest \in Text : Phrase(p.node, rest) \in phrases[y].operation /\ p.rem \in Toks(rest)
    BY <2>7 DEF SaysOperation
  <2>9. Phrase(v, rest) \in said
    <3>1. PICK u \in phrases[y].operation : u = Phrase(p.node, rest)
      BY <2>8
    <3>2. Phrase(v, rest) = Phrase(Labellings \ u.means, u.rest)
      BY <2>6, <3>1 DEF Phrase
    <3> QED
      BY <3>2, Zenon
  <2> QED
    BY <1>2, <2>6, <2>8, <2>9 DEF SaysOperation
<1>6. ASSUME NEW rest \in Text, Phrase(v, rest) \in phrases[text].operation, rem \in Toks(rest)
      PROVE  ReadsOperation(text, v, rem)
  <2>1. PICK u \in phrases[y].operation : Phrase(v, rest) = Phrase(Labellings \ u.means, u.rest)
    BY <1>2, <1>6, Zenon
  <2>2. v = Labellings \ u.means /\ rest = u.rest /\ u = Phrase(u.means, u.rest)
    BY <1>3, <2>1, PhraseShape DEF Phrase
  <2>3. SaysOperation(y, u.means, rem)
    BY <1>6, <2>1, <2>2 DEF SaysOperation
  <2>4. PICK more \in Toks(y) : Parsed(u.means, rem) \in parse[more].operation
    BY <1>4, <2>3 DEF ReadsOperation
  <2>5. PICK toks \in tokenizeFrom[text]["operand"] : toks[1].kind = "Not" /\ Tail(toks) = more
    BY <1>1, <2>4, SymbolTokenMade
  <2>6. toks \in TokenLists
    BY <1>1, TokensTyped
  <2>7. parse[toks].operation = {Parsed(notNode(p.node), p.rem) : p \in parse[more].operation}
    BY <2>5, <2>6, ParseFields DEF parseOperation
  <2>8. Parsed(v, rem) \in parse[toks].operation
    <3>1. PICK p \in parse[more].operation : p = Parsed(u.means, rem)
      BY <2>4
    <3>2. Parsed(v, rem) = Parsed(notNode(p.node), p.rem)
      BY <2>2, <3>1 DEF Parsed, notNode
    <3> QED
      BY <2>7, <3>2, Zenon
  <2> QED
    BY <2>5, <2>8 DEF ReadsOperation, Toks
<1> QED
  BY <1>5, <1>6 DEF ReadsOperation, SaysOperation

\* The same of parentheses.
LEMMA ParenthesesAgree ==
    ASSUME NEW text \in Text, Begins(text, Symbol("LParen")), ReadsShorter(text), NEW v, NEW rem
    PROVE  ReadsOperation(text, v, rem) <=> SaysOperation(text, v, rem)
<1> DEFINE y == Tail(text)
           inside == {q \in phrases[y].disjunction : Begins(q.rest, Symbol("RParen"))}
           said == {Phrase(p.means, Tail(p.rest)) : p \in inside}
<1>1. /\ "operand" \in Expectations /\ {"LParen", "RParen"} \subseteq Symbols
      /\ text # <<>> /\ text[1] = Symbol("LParen") /\ text[1] # Symbol("Not")
      /\ phrases[text].operation = Operation(text, phrases)
  BY PhraseFields DEF Expectations, Symbols, Begins, Symbol
<1>2. phrases[text].operation = said
  BY <1>1, Zenon DEF Operation
<1>3. y \in Text /\ Len(y) < Len(text)
  BY <1>1, TextFirst
<1>4. \A w, r : ReadsOr(y, w, r) <=> SaysOr(y, w, r)
  BY <1>3 DEF ReadsShorter, Reads
<1>5. ASSUME NEW toks \in TokenLists, toks[1].kind = "LParen"
      PROVE  parse[toks].operation =
                {Parsed(p.node, Tail(p.rem)) :
                    p \in {q \in parse[Tail(toks)].orExpression : q.rem[1].kind = "RParen"}}
  <2>1. parse[toks].operation = operand(toks, parse)
    BY <1>5, ParseFields DEF parseOperation
  <2> QED
    BY <1>5, <2>1 DEF operand
<1>6. ASSUME NEW toks \in Toks(text), Parsed(v, rem) \in parse[toks].operation
      PROVE  SaysOperation(text, v, rem)
  <2>1. toks \in tokenizeFrom[text]["operand"] /\ toks \in TokenLists
    BY <1>1, TokensTyped DEF Toks
  <2>2. toks[1].kind = "LParen" /\ Tail(toks) \in Toks(y)
    BY <1>1, <2>1, SymbolToken
  <2>3. Tail(toks) \in TokenLists
    BY <2>1, <2>2, TokenListFirst
  <2>4. PICK p \in parse[Tail(toks)].orExpression :
            p.rem[1].kind = "RParen" /\ Parsed(v, rem) = Parsed(p.node, Tail(p.rem))
    BY <1>5, <1>6, <2>1, <2>2, ZenonT(30)
  <2>5. v = p.node /\ rem = Tail(p.rem) /\ p = Parsed(p.node, p.rem)
    BY <2>3, <2>4, ParsedShape DEF Parsed
  <2>6. SaysOr(y, p.node, p.rem)
    BY <1>4, <2>2, <2>4, <2>5 DEF ReadsOr
  <2>7. PICK next \in Text : Phrase(p.node, next) \in phrases[y].disjunction /\ p.rem \in Toks(next)
    BY <2>6 DEF SaysOr
  <2>8. Begins(next, Symbol("RParen")) /\ Tail(next) \in Text /\ Tail(p.rem) \in Toks(Tail(next))
    <3>1. PICK r \in tokenizeFrom[next]["operand"] : r = p.rem
      BY <2>7 DEF Toks
    <3>2. Begins(next, Symbol("RParen")) /\ Tail(next) \in Text /\ Tail(r) \in Toks(Tail(next))
      BY <1>1, <2>4, <3>1, SymbolToken
    <3> QED
      BY <3>1, <3>2
  <2>9. Phrase(v, Tail(next)) \in said
    <3>1. PICK u \in phrases[y].disjunction : u = Phrase(p.node, next)
      BY <2>7
    <3>2. u.rest = next /\ Phrase(v, Tail(next)) = Phrase(u.means, Tail(u.rest))
      BY <2>5, <3>1 DEF Phrase
    <3>3. u \in inside
      BY <2>8, <3>2
    <3> HIDE DEF inside
    <3> QED
      BY <3>2, <3>3, Zenon
  <2> QED
    BY <1>2, <2>5, <2>8, <2>9 DEF SaysOperation
<1>7. ASSUME NEW rest \in Text, Phrase(v, rest) \in phrases[text].operation, rem \in Toks(rest)
      PROVE  ReadsOperation(text, v, rem)
  <2>1. PICK u \in phrases[y].disjunction :
            Begins(u.rest, Symbol("RParen")) /\ Phrase(v, rest) = Phrase(u.means, Tail(u.rest))
    BY <1>2, <1>7, Zenon
  <2>2. v = u.means /\ rest = Tail(u.rest) /\ u = Phrase(u.means, u.rest) /\ u.rest \in Text
    BY <1>3, <2>1, PhraseShape DEF Phrase
  <2>3. PICK next \in tokenizeFrom[u.rest]["operand"] : next[1].kind = "RParen" /\ Tail(next) = rem
    <3>1. PICK z \in Text : z = u.rest
      BY <2>2
    <3>2. Begins(z, Symbol("RParen")) /\ rem \in Toks(Tail(z))
      BY <1>7, <2>1, <2>2, <3>1
    <3>3. \E next \in tokenizeFrom[z]["operand"] : next[1].kind = "RParen" /\ Tail(next) = rem
      BY <1>1, <3>2, SymbolTokenMade
    <3> QED
      BY <3>1, <3>3
  <2>4. SaysOr(y, u.means, next)
    BY <2>1, <2>2, <2>3 DEF SaysOr, Toks
  <2>5. PICK more \in Toks(y) : Parsed(u.means, next) \in parse[more].orExpression
    BY <1>4, <2>4 DEF ReadsOr
  <2>6. PICK toks \in tokenizeFrom[text]["operand"] : toks[1].kind = "LParen" /\ Tail(toks) = more
    BY <1>1, <2>5, SymbolTokenMade
  <2>7. toks \in TokenLists
    BY <1>1, TokensTyped
  <2>8. Parsed(v, rem) \in parse[toks].operation
    <3>1. PICK p \in parse[more].orExpression : p = Parsed(u.means, next)
      BY <2>5
    <3>2. p.rem[1].kind = "RParen" /\ Parsed(v, rem) = Parsed(p.node, Tail(p.rem))
      BY <2>2, <2>3, <3>1 DEF Parsed
    <3>3. parse[toks].operation =
                {Parsed(q.node, Tail(q.rem)) :
                    q \in {q \in parse[more].orExpression : q.rem[1].kind = "RParen"}}
      BY <1>5, <2>6, <2>7
    <3> QED
      BY <3>2, <3>3, Zenon
  <2> QED
    BY <2>6, <2>8 DEF ReadsOperation, Toks
<1> QED
  BY <1>6, <1>7 DEF ReadsOperation, SaysOperation

\* What neither an operator nor a test begins with.
LEMMA NothingAgrees ==
    ASSUME NEW text \in Text, NEW v, NEW rem,
           text = <<>> \/ /\ text[1].form \notin {"word", "call"}
                          /\ text[1] \notin {Symbol("Not"), Symbol("LParen")}
    PROVE  ~ReadsOperation(text, v, rem) /\ ~SaysOperation(text, v, rem)
<1>1. "operand" \in Expectations /\ phrases[text].operation = Operation(text, phrases)
  BY PhraseFields DEF Expectations
<1>2. Operation(text, phrases) = {}
  <2>1. CASE text = <<>>
    BY <2>1 DEF Operation
  <2>2. CASE text # <<>>
    <3>1. Test(text, phrases) = {}
      BY <2>2 DEF Test, Call
    <3> QED
      BY <2>2, <3>1 DEF Operation
  <2> QED
    BY <2>1, <2>2
<1>3. ~SaysOperation(text, v, rem)
  BY <1>1, <1>2 DEF SaysOperation
<1>4. ASSUME NEW toks \in Toks(text) PROVE parse[toks].operation = {}
  <2>1. toks \in tokenizeFrom[text]["operand"] /\ toks \in TokenLists
    BY <1>1, TokensTyped DEF Toks
  <2>2. toks[1].kind \notin {"Has", "All", "Global", "Label", "LParen", "Not"}
    <3>1. CASE text = <<>>
      <4>1. toks[1].kind = "EOF"
        BY <1>1, <2>1, <3>1, EndOfText
      <4> QED
        BY <4>1
    <3>2. CASE text # <<>>
      <4>1. PICK r \in nextToken(text, "operand") : toks[1] = r.token
        BY <1>1, <2>1, <3>2, FirstToken
      <4>2. text[1] \in Lexeme
        BY <3>2, TextFirst
      <4>3. CASE text[1].form = "symbol"
        <5>1. r.token.kind = text[1].text /\ text[1].text \in Symbols
          BY <1>1, <3>2, <4>3, TokenOfLexeme DEF Reading, Mark, Token
        <5>2. text[1] = Symbol(text[1].text)
          BY <4>2, <4>3, LexemeShape DEF Symbol
        <5>3. text[1].text \notin {"Not", "LParen"}
          BY <3>2, <5>2
        <5> QED
          BY <4>1, <5>1, <5>3 DEF Symbols
      <4>4. CASE text[1].form = "string"
        BY <1>1, <3>2, <4>1, <4>4, TokenOfLexeme DEF Reading, Token
      <4> QED
        BY <1>1, <3>2, <4>2, <4>3, <4>4, LexemeShape, TokenOfLexeme
    <3> QED
      BY <3>1, <3>2
  <2>3. operand(toks, parse) = {}
    BY <2>2 DEF operand
  <2> QED
    BY <2>1, <2>2, <2>3, ParseFields DEF parseOperation
<1> QED
  BY <1>3, <1>4 DEF ReadsOperation

\* The same of has(label), all() and global().
LEMMA CallsAgree ==
    ASSUME NEW text \in Text, text # <<>>, text[1].form = "call", NEW v, NEW rem
    PROVE  ReadsOperation(text, v, rem) <=> SaysOperation(text, v, rem)
<1>1. /\ "operand" \in Expectations /\ text[1] \in Lexeme /\ Len(text) \in Nat
      /\ phrases[text].operation = Operation(text, phrases)
  BY TextFirst, PhraseFields DEF Expectations
<1>2. text[1].text \in Calls /\ text[1] = Call(text[1].text)
  BY <1>1, LexemeShape DEF Call
<1>3. text[1] \notin {Symbol("Not"), Symbol("LParen")}
  BY DEF Symbol
<1>4. phrases[text].operation = Test(text, phrases)
  BY <1>1, <1>3 DEF Operation
<1> DEFINE means(r) == IF r.token.kind = "Has" THEN {l \in Labellings : text[2].text \in DOMAIN l} ELSE Labellings
<1>5. ASSUME NEW r \in CallToken(text)
      PROVE  /\ r.token.kind \in {"Has", "All", "Global"} /\ r.length \in 1..Len(text)
             /\ r.token.kind = "Has" => r.token.value = text[2].text
  <2>1. r \in nextToken(text, "operand")
    BY DEF nextToken
  <2>2. r.length \in 1..Len(text) /\ r.token.kind \in {"Has", "All", "Global"}
    BY <1>1, <2>1, NextText, TokenOfLexeme
  <2> QED
    BY <2>2 DEF CallToken, Reading, Mark, Token
<1>6. Test(text, phrases) = {Phrase(means(r), From(text, r.length + 1)) : r \in CallToken(text)}
  <2>1. CASE text[1].text = "has"
    <3>1. text[1] = Call("has") /\ text[1].form # "word"
      BY <1>2, <2>1
    <3>2. Test(text, phrases) =
            IF Len(text) >= 3 /\ text[2].form = "word" /\ text[3] = Symbol("RParen")
            THEN {Phrase({l \in Labellings : text[2].text \in DOMAIN l}, From(text, 4))} ELSE {}
      BY <3>1 DEF Test, Call
    <3>3. CASE Len(text) >= 3 /\ text[2].form = "word" /\ text[3] = Symbol("RParen")
      <4> DEFINE r == Reading(Token("Has", text[2].text), 3)
      <4>1. CallToken(text) = {r}
        BY <2>1, <3>3 DEF CallToken
      <4>2. r.token.kind = "Has" /\ r.length + 1 = 4
        BY DEF Reading, Token
      <4> HIDE DEF r
      <4> QED
        BY <3>2, <3>3, <4>1, <4>2
    <3>4. CASE ~(Len(text) >= 3 /\ text[2].form = "word" /\ text[3] = Symbol("RParen"))
      BY <2>1, <3>2, <3>4 DEF CallToken
    <3> QED
      BY <3>3, <3>4
  <2>2. CASE text[1].text \in {"all", "global"}
    <3>1. text[1] \in {Call("all"), Call("global")} /\ text[1].form # "word"
      BY <1>2, <2>2
    <3>2. Test(text, phrases) =
            IF Begins(Tail(text), Symbol("RParen")) THEN {Phrase(Labellings, From(text, 3))} ELSE {}
      BY <2>2, <3>1 DEF Test, Call
    <3>3. Begins(Tail(text), Symbol("RParen")) <=> Len(text) >= 2 /\ text[2] = Symbol("RParen")
      <4>1. Tail(text) \in Text /\ Len(Tail(text)) = Len(text) - 1
        BY TextFirst
      <4>2. Tail(text) # <<>> <=> Len(text) >= 2
        <5>1. PICK z \in Text : z = Tail(text) /\ Len(z) = Len(text) - 1
          BY <4>1
        <5>2. z = <<>> <=> Len(z) = 0
          BY <5>1, TextFirst
        <5> QED
          BY <1>1, <5>1, <5>2, SMTT(30)
      <4>3. Len(text) >= 2 => Tail(text)[1] = text[2]
        BY Tails DEF Text
      <4> QED
        BY <4>2, <4>3 DEF Begins
    <3>4. CASE Len(text) >= 2 /\ text[2] = Symbol("RParen")
      <4> DEFINE r == Reading(Mark(IF text[1].text = "all" THEN "All" ELSE "Global"), 2)
      <4>1. CallToken(text) = {r}
        BY <2>2, <3>4 DEF CallToken
      <4>2. r.token.kind # "Has" /\ r.length + 1 = 3
        BY DEF Reading, Mark, Token
      <4> HIDE DEF r
      <4> QED
        BY <3>2, <3>3, <3>4, <4>1, <4>2
    <3>5. CASE ~(Len(text) >= 2 /\ text[2] = Symbol("RParen"))
      BY <2>2, <3>2, <3>3, <3>5 DEF CallToken
    <3> QED
      BY <3>4, <3>5
  <2> QED
    BY <1>2, <2>1, <2>2 DEF Calls
<1>7. ASSUME NEW toks \in TokenLists, NEW r \in CallToken(text), toks[1] = r.token
      PROVE  parse[toks].operation = {Parsed(means(r), Tail(toks))}
  <2>1. r.token.kind \in {"Has", "All", "Global"} /\ (r.token.kind = "Has" => r.token.value = text[2].text)
    BY <1>5
  <2>2. parse[toks].operation = operand(toks, parse)
    BY <1>7, <2>1, ParseFields DEF parseOperation
  <2>3. CASE r.token.kind = "Has"
    BY <1>7, <2>1, <2>2, <2>3 DEF operand, Having
  <2>4. CASE r.token.kind \in {"All", "Global"}
    BY <1>7, <2>2, <2>4 DEF operand
  <2> QED
    BY <2>1, <2>3, <2>4
<1> HIDE DEF means
<1>8. ASSUME NEW toks \in Toks(text), Parsed(v, rem) \in parse[toks].operation
      PROVE  SaysOperation(text, v, rem)
  <2>1. toks \in TokenLists
    BY <1>1, TokensTyped DEF Toks
  <2>2. PICK r \in CallToken(text) : toks[1] = r.token /\ Tail(toks) \in Toks(From(text, r.length + 1))
    BY CallTokens
  <2>3. v = means(r) /\ rem = Tail(toks)
    BY <1>7, <1>8, <2>1, <2>2 DEF Parsed
  <2>4. From(text, r.length + 1) \in Text
    BY <1>5, TextFrom
  <2>5. Phrase(v, From(text, r.length + 1)) \in phrases[text].operation
    BY <1>4, <1>6, <2>3
  <2> QED
    BY <2>2, <2>3, <2>4, <2>5 DEF SaysOperation
<1>9. ASSUME NEW rest \in Text, Phrase(v, rest) \in phrases[text].operation, rem \in Toks(rest)
      PROVE  ReadsOperation(text, v, rem)
  <2>1. PICK r \in CallToken(text) : Phrase(v, rest) = Phrase(means(r), From(text, r.length + 1))
    BY <1>4, <1>6, <1>9
  <2>2. v = means(r) /\ rest = From(text, r.length + 1)
    BY <2>1 DEF Phrase
  <2>3. PICK toks \in Toks(text) : toks[1] = r.token /\ Tail(toks) = rem
    BY <1>9, <2>2, CallTokensMade
  <2>4. toks \in TokenLists
    BY <1>1, TokensTyped DEF Toks
  <2>5. Parsed(v, rem) \in parse[toks].operation
    BY <1>7, <2>2, <2>3, <2>4
  <2> QED
    BY <2>3, <2>5 DEF ReadsOperation
<1> QED
  BY <1>8, <1>9 DEF ReadsOperation, SaysOperation

-----------------------------------------------------------------------------
(***************************************************************************)
(* A label and what is asked of it.                                        *)
(***************************************************************************)
\* The tests of a label: the operator's token, what the language calls it, and
\* how it is written.
Tests ==
    {<<"Eq", "equal", <<Symbol("Eq")>>>>, <<"Ne", "unequal", <<Symbol("Ne")>>>>,
     <<"Contains", "part", <<Word("contains")>>>>,
     <<"StartsWith", "beginning", <<Word("starts"), Word("with")>>>>,
     <<"StartsWith", "beginning", <<Word("startswith")>>>>,
     <<"EndsWith", "ending", <<Word("ends"), Word("with")>>>>,
     <<"EndsWith", "ending", <<Word("endswith")>>>>,
     <<"In", "in", <<Word("in")>>>>, <<"NotIn", "out", <<Word("not"), Word("in")>>>>,
     <<"NotIn", "out", <<Word("notin")>>>>}

ComparisonKinds == {"Eq", "Ne", "Contains", "StartsWith", "EndsWith"}
MembershipKinds == {"In", "NotIn"}

WrittenAt(text, lexemes) ==
    Len(lexemes) <= Len(text) /\ \A i \in DOMAIN lexemes : text[i] = lexemes[i]

\* The language has these tests, and no others.
LEMMA TestsOfTheLanguage ==
    /\ \A w \in Tests :
            /\ w[1] \in ComparisonKinds \cup MembershipKinds
            /\ Len(w[3]) \in {1, 2} /\ DOMAIN w[3] = 1..Len(w[3])
            /\ w[1] \in ComparisonKinds => <<w[2], w[3]>> \in Comparisons
            /\ w[1] \in MembershipKinds => <<w[2], w[3]>> \in Memberships
    /\ \A c \in Comparisons : \E w \in Tests : w[1] \in ComparisonKinds /\ w[2] = c[1] /\ w[3] = c[2]
    /\ \A c \in Memberships : \E w \in Tests : w[1] \in MembershipKinds /\ w[2] = c[1] /\ w[3] = c[2]
  BY DEF Tests, Comparisons, Memberships, ComparisonKinds, MembershipKinds

\* And so has the tokenizer.
LEMMA TestsOfTheTokenizer ==
    /\ \A w \in Tests :
            \/ w[1] \in {"Eq", "Ne"} /\ w[3] = <<Symbol(w[1])>>
            \/ \E o \in WordOperators :
                    /\ o[1] = w[1] /\ Len(o[2]) = Len(w[3]) /\ DOMAIN o[2] = 1..Len(o[2])
                    /\ \A i \in 1..Len(o[2]) : w[3][i] = Word(o[2][i])
    /\ \A o \in WordOperators :
            \E w \in Tests :
                    /\ o[1] = w[1] /\ Len(o[2]) = Len(w[3]) /\ DOMAIN o[2] = 1..Len(o[2])
                    /\ \A i \in 1..Len(o[2]) : w[3][i] = Word(o[2][i])
    /\ \A s \in {"Eq", "Ne"} : \E w \in Tests : w[1] = s /\ w[3] = <<Symbol(s)>>
<1> DEFINE Same(w, o) ==
               /\ o[1] = w[1] /\ Len(o[2]) = Len(w[3]) /\ DOMAIN o[2] = 1..Len(o[2])
               /\ \A i \in 1..Len(o[2]) : w[3][i] = Word(o[2][i])
<1>1. /\ Same(<<"Contains", "part", <<Word("contains")>>>>, <<"Contains", <<"contains">>>>)
      /\ Same(<<"StartsWith", "beginning", <<Word("starts"), Word("with")>>>>, <<"StartsWith", <<"starts", "with">>>>)
      /\ Same(<<"StartsWith", "beginning", <<Word("startswith")>>>>, <<"StartsWith", <<"startswith">>>>)
      /\ Same(<<"EndsWith", "ending", <<Word("ends"), Word("with")>>>>, <<"EndsWith", <<"ends", "with">>>>)
      /\ Same(<<"EndsWith", "ending", <<Word("endswith")>>>>, <<"EndsWith", <<"endswith">>>>)
      /\ Same(<<"In", "in", <<Word("in")>>>>, <<"In", <<"in">>>>)
      /\ Same(<<"NotIn", "out", <<Word("not"), Word("in")>>>>, <<"NotIn", <<"not", "in">>>>)
      /\ Same(<<"NotIn", "out", <<Word("notin")>>>>, <<"NotIn", <<"notin">>>>)
  OBVIOUS
<1> HIDE DEF Same
<1>2. \A w \in Tests :
            \/ w[1] \in {"Eq", "Ne"} /\ w[3] = <<Symbol(w[1])>>
            \/ \E o \in WordOperators : Same(w, o)
  BY <1>1, SMTT(30) DEF Tests, WordOperators
<1>3. \A o \in WordOperators : \E w \in Tests : Same(w, o)
  BY <1>1 DEF Tests, WordOperators
<1>4. \A s \in {"Eq", "Ne"} : \E w \in Tests : w[1] = s /\ w[3] = <<Symbol(s)>>
  BY DEF Tests
<1> QED
  BY <1>2, <1>3, <1>4 DEF Same

\* The labels of which the language says that they pass.
Comparing(m, k, x) == {l \in Labellings : m # "unequal" <=> k \in DOMAIN l /\ Passes(m, l[k], x)}
Among(m, k, set)   == {l \in Labellings : m = "in" <=> k \in DOMAIN l /\ l[k] \in set}

\* A node of a test is true on the labels of which the language says so.
LEMMA SameLabels ==
    ASSUME NEW w \in Tests, NEW k, NEW x
    PROVE  /\ w[1] \in ComparisonKinds => labelValueNode(w[1], k, x) = Comparing(w[2], k, x)
           /\ w[1] \in MembershipKinds => labelSetNode(w[1], k, x) = Among(w[2], k, x)
<1>1. /\ w[1] = "Eq" <=> w[2] = "equal"
      /\ w[1] = "Ne" <=> w[2] = "unequal"
      /\ w[1] = "Contains" <=> w[2] = "part"
      /\ w[1] = "StartsWith" <=> w[2] = "beginning"
      /\ w[1] = "EndsWith" <=> w[2] = "ending"
      /\ w[1] = "In" <=> w[2] = "in"
      /\ w[1] = "NotIn" <=> w[2] = "out"
  BY DEF Tests
<1>2. ASSUME w[1] \in ComparisonKinds
      PROVE  labelValueNode(w[1], k, x) = Comparing(w[2], k, x)
  <2>1. CASE w[1] = "Eq"
    BY <1>1, <2>1 DEF labelValueNode, Passes, Having, Comparing
  <2>2. CASE w[1] = "Ne"
    BY <1>1, <2>2 DEF labelValueNode, Passes, Having, Comparing
  <2>3. CASE w[1] = "Contains"
    BY <1>1, <2>3 DEF labelValueNode, Passes, Having, Comparing
  <2>4. CASE w[1] = "StartsWith"
    BY <1>1, <2>4 DEF labelValueNode, Passes, Having, Comparing
  <2>5. CASE w[1] = "EndsWith"
    BY <1>1, <2>5 DEF labelValueNode, Passes, Having, Comparing
  <2> QED
    BY <1>2, <2>1, <2>2, <2>3, <2>4, <2>5 DEF ComparisonKinds
<1>3. ASSUME w[1] \in MembershipKinds
      PROVE  labelSetNode(w[1], k, x) = Among(w[2], k, x)
  <2>1. CASE w[1] = "In"
    BY <1>1, <2>1 DEF labelSetNode, Having, Among
  <2>2. CASE w[1] = "NotIn"
    BY <1>1, <2>2 DEF labelSetNode, Having, Among
  <2> QED
    BY <1>3, <2>1, <2>2 DEF MembershipKinds
<1> QED
  BY <1>2, <1>3

\* A token after a label that is a test's operator is made of its lexemes.
LEMMA TestToken ==
    ASSUME NEW text \in Text, NEW toks \in AfterLabel(text),
           toks[1].kind \in ComparisonKinds \cup MembershipKinds
    PROVE  \E w \in Tests : /\ w[1] = toks[1].kind /\ WrittenAt(text, w[3])
                            /\ Tail(toks) \in Toks(From(text, Len(w[3]) + 1))
<1>1. "operator" \in Expectations /\ toks \in tokenizeFrom[text]["operator"] /\ {"Eq", "Ne"} \subseteq Symbols
  BY DEF Expectations, AfterLabel, Symbols
<1>2. CASE toks[1].kind \in {"Eq", "Ne"}
  <2> DEFINE s == toks[1].kind
  <2>1. Begins(text, Symbol(s)) /\ Tail(toks) \in Toks(Tail(text))
    BY <1>1, <1>2, SymbolToken
  <2>2. PICK w \in Tests : w[1] = s /\ w[3] = <<Symbol(s)>>
    BY <1>2, TestsOfTheTokenizer
  <2>3. Len(text) >= 1 /\ Tail(text) = From(text, 2)
    <3>1. text # <<>>
      BY <2>1 DEF Begins
    <3> QED
      BY <3>1, TextFirst, TailIsFrom DEF Text
  <2>4. Len(w[3]) = 1 /\ DOMAIN w[3] = {1} /\ w[3][1] = Symbol(s)
    BY <2>2
  <2>5. WrittenAt(text, w[3])
    BY <2>1, <2>3, <2>4 DEF WrittenAt, Begins
  <2>6. From(text, Len(w[3]) + 1) = Tail(text)
    <3>1. Len(w[3]) + 1 = 2
      BY <2>4
    <3> QED
      BY <2>3, <3>1, Zenon
  <2> QED
    BY <2>1, <2>2, <2>5, <2>6
<1>3. CASE toks[1].kind \in OperatorKinds
  <2>1. PICK o \in WordOperators : /\ Spells(text, o[2]) /\ toks[1].kind = o[1]
                                  /\ Tail(toks) \in Toks(From(text, Len(o[2]) + 1))
    BY <1>3, OperatorWordToken
  <2>2. PICK w \in Tests : /\ o[1] = w[1] /\ Len(o[2]) = Len(w[3]) /\ DOMAIN o[2] = 1..Len(o[2])
                           /\ \A i \in 1..Len(o[2]) : w[3][i] = Word(o[2][i])
    BY TestsOfTheTokenizer
  <2>3. DOMAIN w[3] = 1..Len(w[3])
    BY TestsOfTheLanguage
  <2>4. WrittenAt(text, w[3])
    BY <2>1, <2>2, <2>3 DEF WrittenAt, Spells
  <2> QED
    BY <2>1, <2>2, <2>4
<1> QED
  BY <1>2, <1>3 DEF ComparisonKinds, MembershipKinds, OperatorKinds

\* The lexemes of a test's operator, after a label, make its token.
LEMMA TestTokenMade ==
    ASSUME NEW text \in Text, NEW w \in Tests, WrittenAt(text, w[3]),
           NEW rest \in Toks(From(text, Len(w[3]) + 1))
    PROVE  \E toks \in AfterLabel(text) : toks[1].kind = w[1] /\ Tail(toks) = rest
<1>1. "operator" \in Expectations /\ {"Eq", "Ne"} \subseteq Symbols
  BY DEF Expectations, Symbols
<1>2. CASE w[1] \in {"Eq", "Ne"} /\ w[3] = <<Symbol(w[1])>>
  <2>1. Len(w[3]) = 1 /\ DOMAIN w[3] = {1} /\ w[3][1] = Symbol(w[1])
    BY <1>2
  <2>2. text # <<>> /\ text[1] = Symbol(w[1])
    <3>1. Len(text) >= 1 /\ text[1] = w[3][1]
      BY <2>1, TextFirst DEF WrittenAt
    <3> QED
      BY <2>1, <3>1
  <2>3. Tail(text) = From(text, 2)
    BY <2>2, TailIsFrom DEF Text
  <2>4. rest \in Toks(Tail(text))
    <3>1. Len(w[3]) + 1 = 2
      BY <2>1
    <3> QED
      BY <2>3, <3>1, Zenon
  <2>5. \E toks \in tokenizeFrom[text]["operator"] : toks[1].kind = w[1] /\ Tail(toks) = rest
    BY <1>1, <1>2, <2>2, <2>4, SymbolTokenMade DEF Begins
  <2> QED
    BY <2>5 DEF AfterLabel
<1>3. CASE \E o \in WordOperators :
                    /\ o[1] = w[1] /\ Len(o[2]) = Len(w[3]) /\ DOMAIN o[2] = 1..Len(o[2])
                    /\ \A i \in 1..Len(o[2]) : w[3][i] = Word(o[2][i])
  <2>1. PICK o \in WordOperators :
                    /\ o[1] = w[1] /\ Len(o[2]) = Len(w[3]) /\ DOMAIN o[2] = 1..Len(o[2])
                    /\ \A i \in 1..Len(o[2]) : w[3][i] = Word(o[2][i])
    BY <1>3
  <2>2. DOMAIN w[3] = 1..Len(w[3])
    BY TestsOfTheLanguage
  <2>3. Spells(text, o[2])
    BY <2>1, <2>2 DEF WrittenAt, Spells
  <2>4. rest \in Toks(From(text, Len(o[2]) + 1))
    BY <2>1
  <2> QED
    BY <2>1, <2>3, <2>4, OperatorWordTokenMade
<1> QED
  BY <1>2, <1>3, TestsOfTheTokenizer

\* What is after a label's operator, and after one more lexeme.
AfterTest(text, w)  == From(Tail(text), Len(w[3]) + 1)
AfterOperand(text, w) == From(text, (Len(w[3]) + 2) + 1)

\* The text after a test's operator and operand.
LEMMA AfterTheTest ==
    ASSUME NEW text \in Text, text # <<>>, NEW w \in Tests
    PROVE  /\ \A form : GoesOn(text, w[3], form) <=>
                    /\ WrittenAt(Tail(text), w[3])
                    /\ AfterTest(text, w) # <<>> /\ AfterTest(text, w)[1].form = form
           /\ WrittenAt(Tail(text), w[3]) => AfterTest(text, w) \in Text
           /\ WrittenAt(Tail(text), w[3]) /\ AfterTest(text, w) # <<>> =>
                /\ AfterTest(text, w)[1] = text[Len(w[3]) + 2]
                /\ Tail(AfterTest(text, w)) = AfterOperand(text, w)
                /\ AfterOperand(text, w) \in Text /\ Len(AfterOperand(text, w)) < Len(text)
<1> DEFINE m == Len(w[3])
           n == m + 2
           next == Tail(text)
           y == From(next, m + 1)
<1>1. m \in {1, 2} /\ DOMAIN w[3] = 1..m
  BY TestsOfTheLanguage
<1>2. /\ next \in Text /\ Len(next) = Len(text) - 1 /\ Len(text) \in Nat
      /\ \A j \in 1..(Len(text) - 1) : next[j] = text[j + 1]
      /\ next = From(text, 2) /\ text \in Seq(Lexeme)
  BY TextFirst, TailIsFrom DEF Text
<1> HIDE DEF m, next
<1>3. WrittenAt(next, w[3]) <=> /\ m <= Len(text) - 1
                                /\ \A i \in 1..m : text[i + 1] = w[3][i]
  <2>1. WrittenAt(next, w[3]) <=> m <= Len(next) /\ \A i \in 1..m : next[i] = w[3][i]
    BY <1>1 DEF WrittenAt, m
  <2>2. ASSUME m <= Len(text) - 1, NEW i \in 1..m PROVE next[i] = text[i + 1]
    <3>1. i \in 1..(Len(text) - 1)
      BY <1>1, <1>2, <2>2
    <3> QED
      BY <1>2, <3>1
  <2> QED
    BY <1>2, <2>1, <2>2
<1>4. ASSUME m <= Len(text) - 1
      PROVE  /\ y \in Text /\ Len(y) = Len(text) - 1 - m /\ y = From(text, n)
             /\ y # <<>> => y[1] = text[n] /\ Tail(y) = From(text, n + 1)
                            /\ Tail(y) \in Text /\ Len(Tail(y)) < Len(text)
  <2>1. m \in 1..Len(next) /\ Len(next) \in Nat
    BY <1>1, <1>2, <1>4
  <2>2. y \in Text /\ Len(y) = Len(text) - 1 - m /\ y = From(next, m + 1)
    BY <1>2, <2>1, TextFrom
  <2>3. y = From(text, n)
    <3>1. 2 \in 1..(Len(text) + 1) /\ m + 1 \in 1..(Len(text) - 2 + 2) /\ 2 + (m + 1) - 1 = n
      BY <1>1, <1>2, <1>4
    <3>2. From(From(text, 2), m + 1) = From(text, 2 + (m + 1) - 1)
      BY <1>2, <3>1, FromFrom
    <3> QED
      BY <1>2, <2>2, <3>1, <3>2
  <2> HIDE DEF y
  <2>4. ASSUME y # <<>>
        PROVE  y[1] = text[n] /\ Tail(y) = From(text, n + 1) /\ Tail(y) \in Text /\ Len(Tail(y)) < Len(text)
    <3>1. Len(y) # 0 /\ Len(y) \in Nat /\ Tail(y) \in Text /\ Len(Tail(y)) = Len(y) - 1
      BY <2>2, <2>4, TextFirst
    <3>2. n \in 1..(Len(text) + 1) /\ n <= Len(text) /\ n \in 1..Len(text)
      BY <1>1, <1>2, <2>2, <3>1
    <3>3. y[1] = text[n]
      BY <1>2, <2>3, <3>2, FromProperties
    <3>4. Tail(y) = From(y, 2)
      BY <2>2, <2>4, TailIsFrom DEF Text
    <3>5. From(From(text, n), 2) = From(text, n + 2 - 1) /\ n + 2 - 1 = n + 1
      <4>1. 2 \in 1..(Len(text) - n + 2) /\ n + 2 - 1 = n + 1
        BY <1>1, <1>2, <3>2
      <4> HIDE DEF n
      <4> QED
        BY <1>2, <3>2, <4>1, FromFrom
    <3>6. Len(Tail(y)) < Len(text)
      BY <1>1, <1>2, <2>2, <3>1
    <3> QED
      BY <2>3, <3>1, <3>3, <3>4, <3>5, <3>6
  <2> QED
    BY <2>2, <2>3, <2>4
<1>5. ASSUME NEW form
      PROVE  GoesOn(text, w[3], form) <=>
            /\ Len(text) >= n
            /\ \A i \in 1..m : text[i + 1] = w[3][i]
            /\ text[n].form = form
  BY <1>1 DEF GoesOn, m
<1>6. ASSUME m <= Len(text) - 1 PROVE y # <<>> <=> Len(text) >= n
  <2>1. y # <<>> <=> Len(y) # 0
    BY <1>4, <1>6, TextFirst
  <2> QED
    BY <1>1, <1>2, <1>4, <1>6, <2>1
<1>7. Len(text) >= n => m <= Len(text) - 1
  BY <1>1, <1>2
<1>8. ASSUME NEW form
      PROVE  GoesOn(text, w[3], form) <=> WrittenAt(next, w[3]) /\ y # <<>> /\ y[1].form = form
  BY <1>3, <1>4, <1>5, <1>6, <1>7
<1>9. WrittenAt(next, w[3]) => y \in Text
  BY <1>3, <1>4
<1>10. WrittenAt(next, w[3]) /\ y # <<>> =>
          y[1] = text[n] /\ Tail(y) = From(text, n + 1) /\ Tail(y) \in Text /\ Len(Tail(y)) < Len(text)
  BY <1>3, <1>4
<1>11. y = AfterTest(text, w) /\ From(text, n + 1) = AfterOperand(text, w)
  BY DEF m, next, AfterTest, AfterOperand
<1>12. next = Tail(text) /\ n = Len(w[3]) + 2
  BY DEF m, next
<1> HIDE DEF y, n
<1> QED
  BY <1>8, <1>9, <1>10, <1>11, <1>12

\* A label's operation: [kind |-> operator, what], by the three first tokens.
LEMMA LabelOperationReads ==
    ASSUME NEW toks \in TokenLists, toks[1].kind = "Label", NEW v, NEW rem
    PROVE  Parsed(v, rem) \in parse[toks].operation <=>
              \/ /\ toks[2].kind \in ComparisonKinds /\ toks[3].kind = "StringLiteral"
                 /\ v = labelValueNode(toks[2].kind, toks[1].value, toks[3].value) /\ rem = From(toks, 4)
              \/ /\ toks[2].kind \in MembershipKinds /\ toks[3].kind = "LBrace"
                 /\ \E s \in parse[From(toks, 4)].set :
                        v = labelSetNode(toks[2].kind, toks[1].value, s.set) /\ rem = s.rem
<1> DEFINE R == parse[From(toks, 4)].set
           op == toks[2].kind
           k  == toks[1].value
<1>1. parse[toks].operation = labelOperation(toks, parse)
  <2>1. parse[toks].operation = operand(toks, parse)
    BY ParseFields DEF parseOperation
  <2> QED
    BY <2>1 DEF operand
<1>2. CASE op \in ComparisonKinds /\ toks[3].kind = "StringLiteral"
  <2>1. ~(Len(toks) < 3) /\ op \notin MembershipKinds
    BY <1>2, TokenListFirst DEF ComparisonKinds, MembershipKinds
  <2>2. labelOperation(toks, parse) = {Parsed(labelValueNode(op, k, toks[3].value), From(toks, 4))}
    BY <1>2, <2>1 DEF labelOperation, ComparisonKinds
  <2> QED
    BY <1>1, <1>2, <2>1, <2>2 DEF Parsed
<1>3. CASE op \in MembershipKinds /\ toks[3].kind = "LBrace"
  <2>1. ~(Len(toks) < 3) /\ op \notin ComparisonKinds
    BY <1>3, TokenListFirst DEF ComparisonKinds, MembershipKinds
  <2>2. labelOperation(toks, parse) = {Parsed(labelSetNode(op, k, s.set), s.rem) : s \in R}
    BY <1>3, <2>1 DEF labelOperation, MembershipKinds
  <2>3. Parsed(v, rem) \in parse[toks].operation <=>
            \E s \in R : Parsed(v, rem) = Parsed(labelSetNode(op, k, s.set), s.rem)
    <3> HIDE DEF R, op, k
    <3> QED
      BY <1>1, <2>2, Zenon
  <2>4. \A s \in R : Parsed(v, rem) = Parsed(labelSetNode(op, k, s.set), s.rem)
                        <=> v = labelSetNode(op, k, s.set) /\ rem = s.rem
    BY DEF Parsed
  <2> QED
    BY <1>3, <2>1, <2>3, <2>4, Zenon
<1>4. CASE ~(op \in ComparisonKinds /\ toks[3].kind = "StringLiteral")
           /\ ~(op \in MembershipKinds /\ toks[3].kind = "LBrace")
  <2>1. labelOperation(toks, parse) = {}
    BY <1>4 DEF labelOperation, ComparisonKinds, MembershipKinds
  <2> QED
    BY <1>1, <1>4, <2>1
<1> QED
  BY <1>2, <1>3, <1>4

\* The parser reads a label's tests as the grammar does.
LEMMA LabelsAgree ==
    ASSUME NEW text \in Text, text # <<>>, text[1].form = "word", ReadsShorter(text), NEW v, NEW rem
    PROVE  ReadsOperation(text, v, rem) <=> SaysOperation(text, v, rem)
<1> DEFINE k == text[1].text
           next == Tail(text)
<1>1. /\ "operand" \in Expectations /\ "LBrace" \in Symbols
      /\ phrases[text].operation = Operation(text, phrases)
      /\ next \in Text
  BY TextFirst, PhraseFields DEF Expectations, Symbols
<1>2. phrases[text].operation = Compared(text) \cup Member(text, phrases)
  <2>1. text[1] \notin {Symbol("Not"), Symbol("LParen")} /\ text[1] \notin {Call("has"), Call("all"), Call("global")}
    BY DEF Symbol, Call
  <2>2. Test(text, phrases) = Compared(text) \cup Member(text, phrases)
    BY <2>1, Zenon DEF Test
  <2> QED
    BY <1>1, <2>1, <2>2 DEF Operation
<1>3. ASSUME NEW toks \in Toks(text)
      PROVE  /\ toks \in TokenLists /\ toks[1].kind = "Label" /\ toks[1].value = k
             /\ Tail(toks) \in AfterLabel(next) /\ Tail(toks) \in TokenLists
             /\ Tail(toks)[1] = toks[2] /\ Tail(Tail(toks)) = From(toks, 3)
             /\ toks[2].kind # "EOF" =>
                    /\ From(toks, 3)[1] = toks[3] /\ From(toks, 3) \in TokenLists
                    /\ toks[3].kind # "EOF" => Tail(From(toks, 3)) = From(toks, 4) /\ From(toks, 4) \in TokenLists
  <2>1. toks \in TokenLists
    BY <1>1, TokensTyped DEF Toks
  <2>2. toks[1].kind = "Label" /\ toks[1].value = k /\ Tail(toks) \in AfterLabel(next)
    BY LabelToken
  <2>3. toks \in Seq(Tokens) /\ Len(toks) >= 2 /\ Tail(toks) \in TokenLists
    BY <2>1, <2>2, TokenListFirst
  <2>4. Tail(toks)[1] = toks[2] /\ Tail(Tail(toks)) = From(toks, 3)
    BY <2>3, Tails
  <2>5. ASSUME toks[2].kind # "EOF"
        PROVE  /\ From(toks, 3)[1] = toks[3] /\ From(toks, 3) \in TokenLists
               /\ toks[3].kind # "EOF" => Tail(From(toks, 3)) = From(toks, 4) /\ From(toks, 4) \in TokenLists
    <3>1. Len(toks) >= 3 /\ From(toks, 3) \in TokenLists
      BY <2>1, <2>2, <2>5, TokenListFirst
    <3>2. From(toks, 3)[1] = toks[3] /\ Tail(From(toks, 3)) = From(toks, 4)
      BY <2>3, <3>1, Tails
    <3>3. toks[3].kind # "EOF" => From(toks, 4) \in TokenLists
      BY <2>1, <2>2, <2>5, TokenListFirst
    <3> QED
      BY <3>1, <3>2, <3>3
  <2> QED
    BY <2>1, <2>2, <2>3, <2>4, <2>5
<1>4. ASSUME NEW toks \in Toks(text), toks[2].kind \in ComparisonKinds \cup MembershipKinds
      PROVE  \E w \in Tests : /\ w[1] = toks[2].kind /\ WrittenAt(next, w[3])
                              /\ From(toks, 3) \in Toks(AfterTest(text, w))
  <2>1. PICK t \in AfterLabel(next) : t = Tail(toks)
    BY <1>3
  <2>2. t[1].kind = toks[2].kind /\ Tail(t) = From(toks, 3)
    BY <1>3, <2>1
  <2>3. \E w \in Tests : /\ w[1] = t[1].kind /\ WrittenAt(next, w[3])
                         /\ Tail(t) \in Toks(From(next, Len(w[3]) + 1))
    BY <1>1, <1>4, <2>2, TestToken
  <2> QED
    BY <2>2, <2>3 DEF AfterTest
<1>5. ASSUME NEW w \in Tests, WrittenAt(next, w[3])
      PROVE  /\ AfterTest(text, w) \in Text
             /\ \A form : GoesOn(text, w[3], form) <=> AfterTest(text, w) # <<>> /\ AfterTest(text, w)[1].form = form
             /\ AfterTest(text, w) # <<>> => /\ AfterTest(text, w)[1] = text[Len(w[3]) + 2] /\ Tail(AfterTest(text, w)) = AfterOperand(text, w)
                                   /\ AfterOperand(text, w) \in Text /\ Len(AfterOperand(text, w)) < Len(text)
  BY <1>1, <1>5, AfterTheTest
<1>6. ASSUME NEW w \in Tests, NEW form, GoesOn(text, w[3], form)
      PROVE  WrittenAt(next, w[3])
  BY <1>6, AfterTheTest
<1>7. ASSUME NEW toks \in Toks(text), Parsed(v, rem) \in parse[toks].operation
      PROVE  SaysOperation(text, v, rem)
  <2>1. CASE /\ toks[2].kind \in ComparisonKinds /\ toks[3].kind = "StringLiteral"
             /\ v = labelValueNode(toks[2].kind, toks[1].value, toks[3].value) /\ rem = From(toks, 4)
    <3>1. PICK w \in Tests : w[1] = toks[2].kind /\ WrittenAt(next, w[3]) /\ From(toks, 3) \in Toks(AfterTest(text, w))
      BY <1>4, <2>1
    <3>2. PICK y \in Text : y = AfterTest(text, w)
      BY <1>5, <3>1
    <3>3. PICK t \in tokenizeFrom[y]["operand"] : t = From(toks, 3)
      BY <3>1, <3>2 DEF Toks
    <3>4. t[1] = toks[3] /\ Tail(t) = From(toks, 4)
      BY <1>3, <2>1, <3>3 DEF ComparisonKinds
    <3>5. /\ y # <<>> /\ y[1].form = "string" /\ t[1].value = y[1].text /\ Tail(t) \in Toks(Tail(y))
      BY <1>1, <2>1, <3>4, StringToken
    <3>6. /\ GoesOn(text, w[3], "string") /\ y[1] = text[Len(w[3]) + 2] /\ Tail(y) = AfterOperand(text, w) /\ AfterOperand(text, w) \in Text
      BY <1>5, <3>1, <3>2, <3>5
    <3> DEFINE c == <<w[2], w[3]>>
    <3>7. c \in Comparisons
      BY <2>1, <3>1, TestsOfTheLanguage
    <3>8. v = PassingLabels(c, text)
      <4>1. v = labelValueNode(w[1], k, text[Len(w[3]) + 2].text)
        BY <1>3, <2>1, <3>1, <3>4, <3>5, <3>6
      <4>2. w[1] \in ComparisonKinds
        BY <2>1, <3>1
      <4>3. v = Comparing(w[2], k, text[Len(w[3]) + 2].text)
        BY <4>1, <4>2, SameLabels
      <4> QED
        BY <4>3 DEF PassingLabels, Comparing
    <3>9. Phrase(v, AfterOperand(text, w)) \in Compared(text)
      <4>1. c[2] = w[3]
        OBVIOUS
      <4> HIDE DEF c
      <4> QED
        BY <3>6, <3>7, <3>8, <4>1, ComparedElements DEF AfterOperand
    <3> QED
      BY <1>2, <2>1, <3>4, <3>5, <3>6, <3>9 DEF SaysOperation
  <2>2. CASE /\ toks[2].kind \in MembershipKinds /\ toks[3].kind = "LBrace"
             /\ \E s \in parse[From(toks, 4)].set :
                        v = labelSetNode(toks[2].kind, toks[1].value, s.set) /\ rem = s.rem
    <3>1. PICK w \in Tests : w[1] = toks[2].kind /\ WrittenAt(next, w[3]) /\ From(toks, 3) \in Toks(AfterTest(text, w))
      BY <1>4, <2>2
    <3>2. PICK y \in Text : y = AfterTest(text, w)
      BY <1>5, <3>1
    <3>3. PICK t \in tokenizeFrom[y]["operand"] : t = From(toks, 3)
      BY <3>1, <3>2 DEF Toks
    <3>4. t[1] = toks[3] /\ Tail(t) = From(toks, 4) /\ From(toks, 4) \in TokenLists
      BY <1>3, <2>2, <3>3 DEF MembershipKinds
    <3>5. Begins(y, Symbol("LBrace")) /\ Tail(t) \in Toks(Tail(y))
      BY <1>1, <2>2, <3>4, SymbolToken
    <3>6. y # <<>> /\ y[1] = Symbol("LBrace") /\ y[1].form = "symbol"
      BY <3>5 DEF Begins, Symbol
    <3>7. /\ GoesOn(text, w[3], "symbol") /\ y[1] = text[Len(w[3]) + 2] /\ Tail(y) = AfterOperand(text, w)
          /\ AfterOperand(text, w) \in Text /\ Len(AfterOperand(text, w)) < Len(text)
      BY <1>5, <3>1, <3>2, <3>6
    <3>8. PICK s \in parse[From(toks, 4)].set :
              v = labelSetNode(toks[2].kind, toks[1].value, s.set) /\ rem = s.rem
      BY <2>2
    <3>9. s = [set |-> s.set, rem |-> s.rem]
      BY <3>4, <3>8, ParsedShape
    <3>10. ReadsSet(AfterOperand(text, w), s.set, s.rem)
      BY <3>4, <3>5, <3>7, <3>8, <3>9 DEF ReadsSet
    <3>11. SaysSet(AfterOperand(text, w), s.set, s.rem)
      BY <3>7, <3>10 DEF ReadsShorter, Reads
    <3>12. PICK rest \in Text : Phrase(s.set, rest) \in phrases[AfterOperand(text, w)].set /\ s.rem \in Toks(rest)
      BY <3>11 DEF SaysSet
    <3>13. PICK c \in Memberships : c = <<w[2], w[3]>>
      BY <2>2, <3>1, TestsOfTheLanguage
    <3>14. v = {l \in Labellings : c[1] = "in" <=> text[1].text \in DOMAIN l /\ l[text[1].text] \in s.set}
      <4>1. w[1] \in MembershipKinds /\ c[1] = w[2] /\ v = labelSetNode(w[1], k, s.set)
        BY <1>3, <2>2, <3>1, <3>8, <3>13
      <4>2. v = Among(w[2], k, s.set)
        BY <4>1, SameLabels
      <4> QED
        BY <4>1, <4>2 DEF Among
    <3>15. MemberReads(text, phrases, c, Phrase(v, rest))
      <4>1. PICK u \in phrases[AfterOperand(text, w)].set : u = Phrase(s.set, rest)
        BY <3>12
      <4>2. u.means = s.set /\ u.rest = rest
        BY <4>1 DEF Phrase
      <4>3. c[2] = w[3]
        BY <3>13
      <4>4. text[Len(c[2]) + 2] = Symbol("LBrace") /\ GoesOn(text, c[2], "symbol")
        BY <3>6, <3>7, <4>3
      <4>5. u \in phrases[From(text, (Len(c[2]) + 2) + 1)].set
        BY <4>1, <4>3 DEF AfterOperand
      <4>6. Phrase(v, rest) = Phrase({l \in Labellings : c[1] = "in" <=> text[1].text \in DOMAIN l
                                                          /\ l[text[1].text] \in u.means}, u.rest)
        BY <3>14, <4>2
      <4> QED
        BY <4>4, <4>5, <4>6, Zenon DEF MemberReads
    <3>16. Phrase(v, rest) \in Member(text, phrases)
      BY <3>15, MemberElements
    <3> QED
      BY <1>2, <3>8, <3>12, <3>16 DEF SaysOperation
  <2> QED
    BY <1>3, <1>7, <2>1, <2>2, LabelOperationReads
<1>8. ASSUME NEW rest \in Text, Phrase(v, rest) \in phrases[text].operation, rem \in Toks(rest)
      PROVE  ReadsOperation(text, v, rem)
  <2>1. ASSUME NEW w \in Tests, WrittenAt(next, w[3]), NEW more \in Toks(AfterTest(text, w)), more[1].kind # "EOF"
        PROVE  \E toks \in Toks(text) : /\ toks[2].kind = w[1] /\ From(toks, 3) = more
                                        /\ toks[3] = more[1] /\ From(toks, 4) = Tail(more)
    <3>1. \E t \in AfterLabel(next) : t[1].kind = w[1] /\ Tail(t) = more
      BY <1>1, <2>1, TestTokenMade DEF AfterTest
    <3>2. PICK t \in AfterLabel(next) : t[1].kind = w[1] /\ Tail(t) = more
      BY <3>1
    <3>3. PICK toks \in Toks(text) : toks[1].kind = "Label" /\ toks[1].value = k /\ Tail(toks) = t
      BY <3>2, LabelTokenMade
    <3>4. w[1] # "EOF"
      BY TestsOfTheLanguage DEF ComparisonKinds, MembershipKinds
    <3>5. toks[2].kind = w[1] /\ From(toks, 3) = more
      BY <1>3, <3>2, <3>3
    <3>6. toks[3] = more[1] /\ From(toks, 4) = Tail(more)
      BY <1>3, <2>1, <3>4, <3>5
    <3> QED
      BY <3>5, <3>6
  <2>2. CASE Phrase(v, rest) \in Compared(text)
    <3>1. PICK c \in Comparisons : /\ GoesOn(text, c[2], "string")
                                  /\ Phrase(v, rest) = Phrase(PassingLabels(c, text), From(text, (Len(c[2]) + 2) + 1))
      BY <2>2, ComparedElements
    <3>2. PICK w \in Tests : w[1] \in ComparisonKinds /\ w[2] = c[1] /\ w[3] = c[2]
      BY TestsOfTheLanguage
    <3>3. v = PassingLabels(c, text) /\ rest = AfterOperand(text, w)
      BY <3>1, <3>2 DEF Phrase, AfterOperand
    <3>4. WrittenAt(next, w[3]) /\ GoesOn(text, w[3], "string")
      BY <1>6, <3>1, <3>2
    <3>5. PICK y \in Text : y = AfterTest(text, w)
      BY <1>5, <3>4
    <3>6. y # <<>> /\ y[1].form = "string" /\ y[1] = text[Len(w[3]) + 2] /\ Tail(y) = rest
      BY <1>5, <3>3, <3>4, <3>5
    <3>7. PICK more \in tokenizeFrom[y]["operand"] : more[1].kind = "StringLiteral" /\ Tail(more) = rem
      BY <1>1, <1>8, <3>6, StringTokenMade
    <3>8. more[1].value = y[1].text
      BY <1>1, <3>7, StringToken
    <3>9. more \in Toks(AfterTest(text, w)) /\ more[1].kind # "EOF"
      BY <3>5, <3>7 DEF Toks
    <3>10. PICK toks \in Toks(text) : /\ toks[2].kind = w[1] /\ From(toks, 3) = more
                                     /\ toks[3] = more[1] /\ From(toks, 4) = Tail(more)
      BY <2>1, <3>4, <3>9
    <3>11. v = labelValueNode(toks[2].kind, toks[1].value, toks[3].value)
      <4>1. toks[1].value = k /\ toks[3].value = text[Len(w[3]) + 2].text
        BY <1>3, <3>6, <3>8, <3>10
      <4>2. labelValueNode(w[1], k, text[Len(w[3]) + 2].text) =
                Comparing(w[2], k, text[Len(w[3]) + 2].text)
        BY <3>2, SameLabels
      <4> QED
        BY <3>2, <3>3, <3>10, <4>1, <4>2 DEF PassingLabels, Comparing
    <3>12. toks \in TokenLists /\ toks[1].kind = "Label"
      BY <1>3
    <3>13. toks[2].kind \in ComparisonKinds /\ toks[3].kind = "StringLiteral" /\ rem = From(toks, 4)
      BY <3>2, <3>7, <3>10
    <3>14. Parsed(v, rem) \in parse[toks].operation
      BY <3>11, <3>12, <3>13, LabelOperationReads
    <3> QED
      BY <3>14 DEF ReadsOperation
  <2>3. CASE Phrase(v, rest) \in Member(text, phrases)
    <3>1. PICK c \in Memberships : MemberReads(text, phrases, c, Phrase(v, rest))
      BY <2>3, MemberElements
    <3>2. PICK w \in Tests : w[1] \in MembershipKinds /\ w[2] = c[1] /\ w[3] = c[2]
      BY TestsOfTheLanguage
    <3>3. /\ GoesOn(text, w[3], "symbol") /\ text[Len(w[3]) + 2] = Symbol("LBrace")
          /\ \E s \in phrases[AfterOperand(text, w)].set :
                Phrase(v, rest) = Phrase({l \in Labellings : c[1] = "in" <=> text[1].text \in DOMAIN l
                                                          /\ l[text[1].text] \in s.means}, s.rest)
      BY <3>1, <3>2, Zenon DEF MemberReads, AfterOperand
    <3>4. PICK s \in phrases[AfterOperand(text, w)].set :
                Phrase(v, rest) = Phrase({l \in Labellings : c[1] = "in" <=> text[1].text \in DOMAIN l
                                                          /\ l[text[1].text] \in s.means}, s.rest)
      BY <3>3
    <3>5. /\ v = {l \in Labellings : c[1] = "in" <=> text[1].text \in DOMAIN l /\ l[text[1].text] \in s.means}
          /\ rest = s.rest
      BY <3>4 DEF Phrase
    <3>6. WrittenAt(next, w[3])
      BY <1>6, <3>3
    <3>7. PICK y \in Text : y = AfterTest(text, w)
      BY <1>5, <3>6
    <3>8. /\ y # <<>> /\ y[1] = Symbol("LBrace") /\ Tail(y) = AfterOperand(text, w)
          /\ AfterOperand(text, w) \in Text /\ Len(AfterOperand(text, w)) < Len(text)
      BY <1>5, <3>3, <3>6, <3>7
    <3>9. s = Phrase(s.means, s.rest)
      BY <3>4, <3>8, PhraseShape
    <3>10. SaysSet(AfterOperand(text, w), s.means, rem)
      BY <1>8, <3>4, <3>5, <3>9 DEF SaysSet
    <3>11. ReadsSet(AfterOperand(text, w), s.means, rem)
      BY <3>8, <3>10 DEF ReadsShorter, Reads
    <3>12. PICK inside \in Toks(AfterOperand(text, w)) : [set |-> s.means, rem |-> rem] \in parse[inside].set
      BY <3>11 DEF ReadsSet
    <3>13. Begins(y, Symbol("LBrace")) /\ inside \in Toks(Tail(y))
      BY <3>8, <3>12 DEF Begins
    <3>14. PICK more \in tokenizeFrom[y]["operand"] : more[1].kind = "LBrace" /\ Tail(more) = inside
      BY <1>1, <3>13, SymbolTokenMade
    <3>15. more \in Toks(AfterTest(text, w)) /\ more[1].kind # "EOF"
      BY <3>7, <3>14 DEF Toks
    <3>16. PICK toks \in Toks(text) : /\ toks[2].kind = w[1] /\ From(toks, 3) = more
                                     /\ toks[3] = more[1] /\ From(toks, 4) = Tail(more)
      BY <2>1, <3>6, <3>15
    <3>17. PICK z \in parse[From(toks, 4)].set : z = [set |-> s.means, rem |-> rem]
      BY <3>12, <3>14, <3>16
    <3>18. z.set = s.means /\ z.rem = rem
      BY <3>17
    <3>19. v = labelSetNode(toks[2].kind, toks[1].value, z.set)
      <4>1. toks[1].value = k
        BY <1>3
      <4>2. labelSetNode(w[1], k, s.means) = Among(w[2], k, s.means)
        BY <3>2, SameLabels
      <4> QED
        BY <3>2, <3>5, <3>16, <3>18, <4>1, <4>2 DEF Among
    <3>20. toks \in TokenLists /\ toks[1].kind = "Label"
      BY <1>3
    <3>21. toks[2].kind \in MembershipKinds /\ toks[3].kind = "LBrace"
      BY <3>2, <3>14, <3>16
    <3>22. Parsed(v, rem) \in parse[toks].operation
      BY <3>17, <3>18, <3>19, <3>20, <3>21, LabelOperationReads
    <3> QED
      BY <3>22 DEF ReadsOperation
  <2> QED
    BY <1>2, <1>8, <2>2, <2>3
<1> QED
  BY <1>7, <1>8 DEF ReadsOperation, SaysOperation

-----------------------------------------------------------------------------
(***************************************************************************)
(* The parser and the language.                                            *)
(***************************************************************************)

\* The parser reads operations as the grammar does, if it reads what is shorter so.
LEMMA OperationAgrees ==
    ASSUME NEW text \in Text, ReadsShorter(text), NEW v, NEW rem
    PROVE  ReadsOperation(text, v, rem) <=> SaysOperation(text, v, rem)
<1>1. CASE text = <<>> \/ /\ text[1].form \notin {"word", "call"}
                          /\ text[1] \notin {Symbol("Not"), Symbol("LParen")}
  BY <1>1, NothingAgrees
<1>2. CASE text # <<>> /\ text[1].form = "word"
  BY <1>2, LabelsAgree
<1>3. CASE text # <<>> /\ text[1].form = "call"
  BY <1>3, CallsAgree
<1>4. CASE text # <<>> /\ text[1] = Symbol("Not")
  BY <1>4, NotAgrees DEF Begins
<1>5. CASE text # <<>> /\ text[1] = Symbol("LParen")
  BY <1>5, ParenthesesAgree DEF Begins
<1> QED
  BY <1>1, <1>2, <1>3, <1>4, <1>5

\* What the parser makes of the tokens of a text are the phrases that it begins
\* with, by induction on its length.
LEMMA ParserReadsPhrases ==
    \A text \in Text : Reads(text)
<1>1. ASSUME NEW text \in Text, ReadsShorter(text) PROVE Reads(text)
  <2>1. \A v, rem : ReadsSet(text, v, rem) <=> SaysSet(text, v, rem)
    BY <1>1, SetAgrees
  <2>2. \A v, rem : ReadsOperation(text, v, rem) <=> SaysOperation(text, v, rem)
    BY <1>1, OperationAgrees
  <2>3. \A v, rem : ReadsAnd(text, v, rem) <=> SaysAnd(text, v, rem)
    BY <1>1, <2>2, AndAgrees
  <2>4. \A v, rem : ReadsOr(text, v, rem) <=> SaysOr(text, v, rem)
    BY <1>1, <2>3, OrAgrees
  <2> QED
    BY <2>1, <2>2, <2>3, <2>4 DEF Reads
<1> DEFINE Bad == {n \in Nat : \E x \in Text : Len(x) = n /\ ~Reads(x)}
<1> SUFFICES ASSUME Bad # {} PROVE FALSE
  BY TextFirst
<1>2. PICK n \in Bad : \A k \in Bad : n <= k
  BY Least
<1>3. PICK x \in Text : Len(x) = n /\ ~Reads(x)
  BY <1>2
<1>4. ASSUME NEW y \in Text, Len(y) < Len(x) PROVE Reads(y)
  <2>1. Len(y) \in Nat /\ Len(y) \notin Bad
    BY <1>2, <1>3, <1>4, TextFirst
  <2> QED
    BY <2>1
<1> QED
  BY <1>1, <1>3, <1>4 DEF ReadsShorter

\* A selector's tree is what the selector means, and there is no more than one.
LEMMA ParseIsMeaning ==
    ASSUME NEW text \in Text
    PROVE  Parse(text) = Meaning(text) /\ \A n, m \in Parse(text) : n = m
<1> DEFINE Trees(toks) ==
              IF toks[1].kind = "EOF" THEN {Labellings}
              ELSE {p.node : p \in {q \in parse[toks].orExpression : Len(q.rem) = 1 /\ q.rem[1].kind = "EOF"}}
<1>1. /\ "operand" \in Expectations /\ tokenize(text) = Toks(text)
      /\ \A s, t \in Toks(text) : s = t
  BY TokensTyped DEF Expectations, tokenize, Toks
<1>2. ASSUME NEW v PROVE v \in Parse(text) <=> \E toks \in Toks(text) : v \in Trees(toks)
  <2>1. Parse(text) = UNION {Trees(toks) : toks \in Toks(text)}
    BY <1>1 DEF Parse
  <2> HIDE DEF Trees
  <2> QED
    BY <2>1
<1>3. ASSUME NEW toks \in Toks(text)
      PROVE  /\ toks \in TokenLists /\ (toks[1].kind = "EOF" <=> text = <<>>)
             /\ \A n, m \in Trees(toks) : n = m
  <2>1. toks \in TokenLists /\ (toks[1].kind = "EOF" <=> text = <<>>)
    BY <1>1, EndOfText DEF Toks
  <2>2. parse[toks].orExpression \in OneOf(NodesOf(toks))
    BY <2>1, ParseEquation DEF ParseType
  <2>3. \A p, q \in parse[toks].orExpression : p = q
    BY <2>2 DEF OneOf
  <2> QED
    BY <2>1, <2>3
<1>4. ASSUME NEW n \in Parse(text), NEW m \in Parse(text) PROVE n = m
  <2>1. PICK s \in Toks(text) : n \in Trees(s)
    BY <1>2
  <2>2. PICK t \in Toks(text) : m \in Trees(t)
    BY <1>2
  <2>3. s = t
    BY <1>1
  <2> HIDE DEF Trees
  <2> QED
    BY <1>3, <2>1, <2>2, <2>3
<1>5. CASE text = <<>>
  <2>1. Toks(text) = {<<EOF>>}
    BY <1>1, <1>5, NoText DEF Toks
  <2>2. Trees(<<EOF>>) = {Labellings}
    BY DEF EOF, Mark, Token
  <2>3. \A v : v \in Parse(text) <=> v \in {Labellings}
    <3> HIDE DEF Trees
    <3> QED
      BY <1>2, <2>1, <2>2
  <2>4. Meaning(text) = {Labellings}
    BY <1>5 DEF Meaning
  <2>5. Parse(text) = Meaning(text)
    BY <2>3, <2>4
  <2> QED
    BY <1>4, <2>5
<1>6. CASE text # <<>>
  <2>1. \A v, rem : ReadsOr(text, v, rem) <=> SaysOr(text, v, rem)
    BY ParserReadsPhrases DEF Reads
  <2>2. ASSUME NEW v \in Parse(text) PROVE v \in Meaning(text)
    <3>1. PICK toks \in Toks(text) : v \in Trees(toks)
      BY <1>2
    <3>2. PICK p \in parse[toks].orExpression : p.node = v /\ Len(p.rem) = 1 /\ p.rem[1].kind = "EOF"
      BY <1>3, <1>6, <3>1
    <3>3. p = Parsed(p.node, p.rem)
      BY <1>3, <3>2, ParsedShape
    <3>4. SaysOr(text, v, p.rem)
      BY <2>1, <3>2, <3>3 DEF ReadsOr
    <3>5. PICK rest \in Text : Phrase(v, rest) \in phrases[text].disjunction /\ p.rem \in Toks(rest)
      BY <3>4 DEF SaysOr
    <3>6. rest = <<>>
      BY <1>1, <3>2, <3>5, EndOfText DEF Toks
    <3>7. PICK u \in phrases[text].disjunction : u = Phrase(v, rest)
      BY <3>5
    <3>8. u.means = v /\ u.rest = <<>>
      BY <3>6, <3>7 DEF Phrase
    <3> QED
      BY <1>6, <3>7, <3>8, Zenon DEF Meaning
  <2>3. ASSUME NEW v \in Meaning(text) PROVE v \in Parse(text)
    <3>1. PICK u \in phrases[text].disjunction : u.rest = <<>> /\ v = u.means
      BY <1>6, Zenon DEF Meaning
    <3>2. u = Phrase(v, <<>>)
      BY <3>1, PhraseShape
    <3>3. <<EOF>> \in Toks(<<>>) /\ <<>> \in Text
      BY <1>1, NoText DEF Toks
    <3>4. SaysOr(text, v, <<EOF>>)
      BY <3>1, <3>2, <3>3 DEF SaysOr, EOF, Mark, Token
    <3>5. PICK toks \in Toks(text) : Parsed(v, <<EOF>>) \in parse[toks].orExpression
      BY <2>1, <3>4 DEF ReadsOr
    <3>6. PICK p \in parse[toks].orExpression : p = Parsed(v, <<EOF>>)
      BY <3>5
    <3>7. p.node = v /\ Len(p.rem) = 1 /\ p.rem[1].kind = "EOF"
      BY <3>6 DEF Parsed, EOF, Mark, Token
    <3>8. v \in Trees(toks)
      BY <1>3, <1>6, <3>7, Zenon
    <3> QED
      BY <1>2, <3>8
  <2>4. Parse(text) = Meaning(text)
    BY <2>2, <2>3
  <2> QED
    BY <1>4, <2>4
<1> QED
  BY <1>5, <1>6

\* Calico's parser selects by any text the labels that the language's grammar says
\* it selects, whatever the text and the labels: no text has two meanings, what is
\* no selector selects nothing (calicoselector.go:76-622).
THEOREM SelectorMeans ==
    ASSUME NEW text \in Seq(Lexeme), NEW labels
    PROVE  evaluates(text, labels) <=> Selects(text, labels)
<1>1. Parse(text) = Meaning(text) /\ \A n, m \in Parse(text) : n = m
  BY ParseIsMeaning DEF Text
<1>2. ASSUME NEW node \in Parse(text) PROVE Meaning(text) = {node}
  BY <1>1
<1> QED
  BY <1>1, <1>2 DEF evaluates, Selects

\* Every selector that is asked about selects what it says (SelectsAsWritten).
THEOREM SelectorsSelectAsWritten ==
    MatchingSpec => []SelectsAsWritten
<1> DEFINE Inv == question \in Questions /\ SelectsAsWritten
<1>1. MatchingInit => Inv
  BY DEF MatchingInit, SelectsAsWritten, Answered
<1>2. ASSUME Inv, [MatchingNext]_<<question, answer>> PROVE Inv'
  <2>1. CASE EvaluateSelector
    <3>1. question' = question /\ question.about = "selector" /\ question \in Questions
      BY <1>2, <2>1 DEF EvaluateSelector, Asked
    <3>2. question.text \in Seq(Lexeme)
      BY <3>1, MatchingAssumption DEF Questions
    <3>3. \A l \in Labellings : evaluates(question.text, l) <=> Selects(question.text, l)
      BY <3>2, SelectorMeans
    <3>4. answer' = {l \in Labellings : Selects(question.text, l)}
      BY <2>1, <3>3 DEF EvaluateSelector
    <3> QED
      BY <3>1, <3>4 DEF SelectsAsWritten
  <2>2. CASE CheckCertificate
    BY <1>2, <2>2 DEF CheckCertificate, Asked, SelectsAsWritten, Answered
  <2>3. CASE CompareDocuments
    BY <1>2, <2>3 DEF CompareDocuments, Asked, SelectsAsWritten, Answered
  <2>4. CASE UNCHANGED <<question, answer>>
    BY <1>2, <2>4 DEF SelectsAsWritten, Answered
  <2> QED
    BY <1>2, <2>1, <2>2, <2>3, <2>4 DEF MatchingNext
<1>3. Inv => SelectsAsWritten
  OBVIOUS
<1> QED
  BY <1>1, <1>2, <1>3, PTL DEF MatchingSpec

-----------------------------------------------------------------------------
(***************************************************************************)
(* Documents.  The members of a finite set, in an order of them.           *)
(***************************************************************************)

\* An order of a set's members, of which each two are in one way: a strict order
\* of all of them.
Orders(R, S) ==
    /\ \A x, y, z \in S : <<x, y>> \in R /\ <<y, z>> \in R => <<x, z>> \in R
    /\ \A x, y \in S : x # y => <<x, y>> \in R \/ <<y, x>> \in R
    /\ \A x \in S : <<x, x>> \notin R

\* What is in one place of a function each has as many members as places.
LEMMA SameSize ==
    ASSUME NEW S, NEW T, NEW f \in [S -> T], IsFiniteSet(S),
           \A x, y \in S : f[x] = f[y] => x = y,
           \A y \in T : \E x \in S : f[x] = y
    PROVE  IsFiniteSet(T) /\ Cardinality(T) = Cardinality(S)
<1>1. f \in Bijection(S, T)
  BY DEF Bijection, Injection, Surjection, IsInjective
<1> QED
  BY <1>1, FS_Bijection DEF ExistsBijection

\* A finite set that is not empty has a last member.
LEMMA LastMember ==
    ASSUME NEW R, NEW S, Orders(R, S), IsFiniteSet(S), S # {}
    PROVE  \E x \in S : \A y \in S \ {x} : <<y, x>> \in R
<1> DEFINE Without == {n \in Nat : \E T \in SUBSET S : /\ T # {} /\ Cardinality(T) = n
                                                    /\ \A x \in T : \E y \in T \ {x} : <<y, x>> \notin R}
<1> SUFFICES ASSUME ~\E x \in S : \A y \in S \ {x} : <<y, x>> \in R
             PROVE  FALSE
  OBVIOUS
<1>1. \A T \in SUBSET S : IsFiniteSet(T) /\ Cardinality(T) \in Nat
  BY FS_Subset, FS_CardinalityType
<1>2. Cardinality(S) \in Without
  BY <1>1
<1>3. PICK n \in Without : \A m \in Without : n <= m
  BY <1>2, Least, ZenonT(30)
<1>4. PICK T \in SUBSET S : /\ T # {} /\ Cardinality(T) = n
                           /\ \A x \in T : \E y \in T \ {x} : <<y, x>> \notin R
  BY <1>3
<1>5. PICK t \in T : TRUE
  BY <1>4
<1> DEFINE U == T \ {t}
<1>6. Cardinality(U) = n - 1 /\ IsFiniteSet(U) /\ U \in SUBSET S
  BY <1>1, <1>4, FS_RemoveElement
<1>7. U # {}
  BY <1>4, <1>5
<1>8. n - 1 \in Nat /\ n - 1 < n /\ n \in Nat
  BY <1>1, <1>6, <1>3
<1>9. n - 1 \notin Without
  BY <1>3, <1>8
<1>10. PICK x \in U : \A y \in U \ {x} : <<y, x>> \in R
  BY <1>6, <1>7, <1>8, <1>9
<1>11. CASE <<t, x>> \in R
  BY <1>4, <1>10, <1>11
<1>12. CASE <<t, x>> \notin R
  <2>1. <<x, t>> \in R
    BY <1>12, <1>10, <1>5, <1>4 DEF Orders
  <2>2. \A y \in U : <<y, t>> \in R
    BY <2>1, <1>10, <1>5, <1>4 DEF Orders
  <2> QED BY <2>2, <1>4, <1>5
<1> QED BY <1>11, <1>12

\* InOrder lists a finite set in an order of it: every member is in one place.
LEMMA InOrderLists ==
    ASSUME NEW R, NEW S, Orders(R, S), IsFiniteSet(S)
    PROVE  LET s == InOrder(S, R) IN
           /\ s \in [1..Cardinality(S) -> S]
           /\ \A i, j \in 1..Cardinality(S) : i < j => <<s[i], s[j]>> \in R
           /\ \A x \in S : \E i \in 1..Cardinality(S) : s[i] = x
           /\ \A i, j \in 1..Cardinality(S) : s[i] = s[j] => i = j
<1> DEFINE IsList(T, s) == /\ s \in [1..Cardinality(T) -> T]
                           /\ \A i, j \in 1..Cardinality(T) : i < j => <<s[i], s[j]>> \in R
           Without == {n \in Nat : \E T \in SUBSET S : Cardinality(T) = n /\ ~\E s : IsList(T, s)}
<1>1. \A T \in SUBSET S : IsFiniteSet(T) /\ Cardinality(T) \in Nat
  BY FS_Subset, FS_CardinalityType
<1>2. Without = {}
  <2> SUFFICES ASSUME Without # {} PROVE FALSE
    OBVIOUS
  <2>1. PICK n \in Without : \A m \in Without : n <= m
    BY Least
  <2>2. PICK T \in SUBSET S : Cardinality(T) = n /\ ~\E s : IsList(T, s)
    BY <2>1
  <2>3. CASE T = {}
    <3>1. Cardinality(T) = 0
      BY <2>3, FS_EmptySet
    <3>2. IsList(T, [i \in 1..0 |-> 0])
      BY <3>1, <2>3
    <3> QED BY <3>2, <2>2
  <2>4. CASE T # {}
    <3>1. IsFiniteSet(T) /\ Orders(R, T)
      BY <1>1 DEF Orders
    <3>2. PICK x \in T : \A y \in T \ {x} : <<y, x>> \in R
      BY <3>1, <2>4, LastMember
    <3> DEFINE U == T \ {x}
    <3>3. Cardinality(U) = n - 1 /\ U \in SUBSET S /\ n - 1 \in Nat /\ n \in Nat
      <4>1. U \in SUBSET S /\ n \in Nat
        BY <2>1
      <4>2. Cardinality(U) = n - 1
        BY <2>2, <3>1, <3>2, FS_RemoveElement
      <4> QED BY <4>1, <4>2, <1>1
    <3>4. n - 1 \notin Without
      BY <3>3, <2>1
    <3>5. PICK s : IsList(U, s)
      BY <3>3, <3>4
    <3> DEFINE l == [i \in 1..n |-> IF i = n THEN x ELSE s[i]]
    <3>6. s \in [1..(n - 1) -> U] /\ \A i, j \in 1..(n - 1) : i < j => <<s[i], s[j]>> \in R
      BY <3>3, <3>5
    <3> HIDE DEF U
    <3>7. l \in [1..n -> T]
      <4>1. ASSUME NEW i \in 1..n PROVE l[i] \in T
        BY <3>6, <3>3 DEF U
      <4> QED BY <4>1
    <3>8. ASSUME NEW i \in 1..n, NEW j \in 1..n, i < j PROVE <<l[i], l[j]>> \in R
      <4>1. i \in 1..(n - 1) /\ l[i] = s[i] /\ s[i] \in T \ {x}
        BY <3>8, <3>6, <3>3 DEF U
      <4>2. CASE j = n
        BY <4>1, <4>2, <3>2
      <4>3. CASE j # n
        BY <4>1, <4>3, <3>6, <3>3, <3>8
      <4> QED BY <4>2, <4>3
    <3>9. IsList(T, l)
      <4> HIDE DEF l
      <4> QED BY <3>7, <3>8, <2>2
    <3> QED BY <3>9, <2>2
  <2> QED BY <2>3, <2>4
<1>3. \E s : IsList(S, s)
  BY <1>1, <1>2
<1> DEFINE s == InOrder(S, R)
           n == Cardinality(S)
<1>4. IsList(S, s)
  <2>1. \A r \in [1..n -> S] : DOMAIN r = 1..n
    OBVIOUS
  <2>2. s = CHOOSE r \in [1..n -> S] : \A i, j \in DOMAIN r : i < j => <<r[i], r[j]>> \in R
    BY DEF InOrder
  <2>3. \E r \in [1..n -> S] : \A i, j \in DOMAIN r : i < j => <<r[i], r[j]>> \in R
    BY <1>3, <2>1
  <2> HIDE DEF s
  <2>4. s \in [1..n -> S] /\ \A i, j \in DOMAIN s : i < j => <<s[i], s[j]>> \in R
    BY <2>2, <2>3
  <2> QED BY <2>4, <2>1
<1> HIDE DEF s
<1>5. \A i, j \in 1..n : s[i] = s[j] => i = j
  <2> SUFFICES ASSUME NEW i \in 1..n, NEW j \in 1..n, s[i] = s[j], i < j PROVE FALSE
    <3>1. n \in Nat
      BY <1>1
    <3> QED BY <3>1
  <2> QED BY <1>4 DEF Orders
<1>6. \A x \in S : \E i \in 1..n : s[i] = x
  <2>1. IsFiniteSet(1..n) /\ Cardinality(1..n) = n
    BY <1>1, FS_Interval
  <2>2. s \in Injection(1..n, S)
    BY <1>4, <1>5 DEF Injection, IsInjective
  <2>3. s \in Surjection(1..n, S)
    BY <2>1, <2>2, FS_Injection
  <2> QED BY <2>3 DEF Surjection
<1> QED
  BY <1>4, <1>5, <1>6 DEF s

-----------------------------------------------------------------------------
(***************************************************************************)
(* The order of paths.                                                     *)
(***************************************************************************)

PathSet == Seq(KeyParts) \ {<<>>}

LEMMA SegmentType ==
    ASSUME NEW p \in PathSet, NEW i \in DOMAIN p
    PROVE  Segment(p, i) \in Segments /\ i \in 1..Len(p) /\ Len(p) \in Nat \ {0}
<1>1. p \in Seq(KeyParts) /\ Len(p) \in Nat /\ p # <<>> /\ DOMAIN p = 1..Len(p)
  BY DEF PathSet
<1>2. Len(p) # 0
  BY <1>1, EmptySeq
<1>3. p[i] \in KeyParts
  BY <1>1
<1> QED
  BY <1>1, <1>2, <1>3 DEF Segment, Segments

\* The order of paths as strings is a strict order of all of them.
LEMMA PathsAreOrdered ==
    ASSUME NEW P \in SUBSET PathSet
    PROVE  Orders({pq \in P \X P : PathBefore(pq[1], pq[2])}, P)
<1> USE OrderAssumption
<1> DEFINE R == {pq \in P \X P : PathBefore(pq[1], pq[2])}
<1>1. \A p, q \in P : <<p, q>> \in R <=> PathBefore(p, q)
  OBVIOUS
<1>2. \A p \in P : DOMAIN p = 1..Len(p) /\ Len(p) \in Nat \ {0}
  BY DEF PathSet
<1>3. ASSUME NEW p \in P PROVE ~PathBefore(p, p)
  BY SegmentType DEF PathBefore
<1>4. ASSUME NEW p \in P, NEW q \in P, NEW r \in P, PathBefore(p, q), PathBefore(q, r)
      PROVE  PathBefore(p, r)
  <2>1. PICK i \in DOMAIN p \cap DOMAIN q :
            Before(Segment(p, i), Segment(q, i)) /\ \A k \in 1..(i - 1) : Segment(p, k) = Segment(q, k)
    BY <1>4 DEF PathBefore
  <2>2. PICK j \in DOMAIN q \cap DOMAIN r :
            Before(Segment(q, j), Segment(r, j)) /\ \A k \in 1..(j - 1) : Segment(q, k) = Segment(r, k)
    BY <1>4 DEF PathBefore
  <2>3. i \in Nat \ {0} /\ j \in Nat \ {0}
    BY <2>1, <2>2, <1>2
  <2>4. CASE i < j
    <3>1. i \in DOMAIN p \cap DOMAIN r /\ Segment(q, i) = Segment(r, i)
      BY <2>1, <2>2, <2>3, <2>4, <1>2
    <3>2. \A k \in 1..(i - 1) : Segment(p, k) = Segment(r, k)
      BY <2>1, <2>2, <2>3, <2>4
    <3> QED BY <3>1, <3>2, <2>1 DEF PathBefore
  <2>5. CASE j < i
    <3>1. j \in DOMAIN p \cap DOMAIN r /\ Segment(p, j) = Segment(q, j)
      BY <2>1, <2>2, <2>3, <2>5, <1>2
    <3>2. \A k \in 1..(j - 1) : Segment(p, k) = Segment(r, k)
      BY <2>1, <2>2, <2>3, <2>5
    <3> QED BY <3>1, <3>2, <2>2 DEF PathBefore
  <2>6. CASE i = j
    <3>1. i \in DOMAIN p \cap DOMAIN r
      BY <2>1, <2>2, <2>6
    <3>2. Before(Segment(p, i), Segment(r, i))
      BY <2>1, <2>2, <2>6, SegmentType
    <3>3. \A k \in 1..(i - 1) : Segment(p, k) = Segment(r, k)
      BY <2>1, <2>2, <2>6
    <3> QED BY <3>1, <3>2, <3>3 DEF PathBefore
  <2> QED BY <2>3, <2>4, <2>5, <2>6
<1>5. ASSUME NEW p \in P, NEW q \in P, p # q
      PROVE  PathBefore(p, q) \/ PathBefore(q, p)
  <2> DEFINE D == {i \in Nat : i \in DOMAIN p \cap DOMAIN q /\ Segment(p, i) # Segment(q, i)}
  <2>1. D # {}
    <3> SUFFICES ASSUME D = {} PROVE FALSE
      OBVIOUS
    <3>1. \A i \in DOMAIN p \cap DOMAIN q : p[i] = q[i] /\ (i = Len(p) <=> i = Len(q))
      <4> SUFFICES ASSUME NEW i \in DOMAIN p \cap DOMAIN q PROVE p[i] = q[i] /\ (i = Len(p) <=> i = Len(q))
        OBVIOUS
      <4>1. i \in Nat
        BY <1>2
      <4>2. Segment(p, i) = Segment(q, i)
        BY <4>1
      <4> QED BY <4>2 DEF Segment
    <3>2. Len(p) = Len(q)
      <4>1. CASE Len(p) <= Len(q)
        BY <4>1, <3>1, <1>2
      <4>2. CASE Len(q) <= Len(p)
        BY <4>2, <3>1, <1>2
      <4> QED BY <4>1, <4>2, <1>2
    <3> QED BY <1>2, <3>1, <3>2, <1>5, SeqEqual DEF PathSet
  <2>2. PICK i \in D : \A k \in D : i <= k
    BY <2>1, Least
  <2>3. \A k \in 1..(i - 1) : Segment(p, k) = Segment(q, k)
    BY <2>2, <1>2
  <2>4. Before(Segment(p, i), Segment(q, i)) \/ Before(Segment(q, i), Segment(p, i))
    BY <2>2, SegmentType
  <2> QED BY <2>2, <2>3, <2>4 DEF PathBefore
<1> HIDE DEF R
<1> QED
  BY <1>1, <1>3, <1>4, <1>5 DEF Orders, R

-----------------------------------------------------------------------------
(***************************************************************************)
(* What the recursive definitions say of a value: each is its own step,    *)
(* of what it is for the values inside.                                    *)
(***************************************************************************)

LEMMA DepthType == Depth \in [Contents -> Nat]
  BY ContentsAssumption

\* What a value holds is a value, less deep.
LEMMA Inside ==
    ASSUME NEW v \in Contents, ~IsScalar(v), NEW k \in DOMAIN v.val
    PROVE  /\ v.val[k] \in Contents
           /\ Depth[v] \in Nat /\ Depth[v.val[k]] \in Nat
           /\ Depth[v.val[k]] < Depth[v]
<1>1. v.type \in {"map", "list"}
  BY DEF IsScalar
<1>2. v.val[k] \in Contents
  <2>1. CASE v.type = "map"
    BY <2>1, ContentsAssumption
  <2>2. CASE v.type = "list"
    BY <2>2, ContentsAssumption
  <2> QED BY <1>1, <2>1, <2>2
<1>3. Depth[v.val[k]] < Depth[v]
  BY ContentsAssumption
<1>4. Depth \in [Contents -> Nat]
  BY ContentsAssumption
<1> QED
  BY <1>2, <1>3, <1>4

-----------------------------------------------------------------------------
NumbersStep(v, f) ==
    IF v.type = "number" THEN {v.val}
    ELSE IF IsScalar(v) THEN {}
    ELSE UNION {f[v.val[k]] : k \in DOMAIN v.val}

LEMMA NumbersDefined ==
    \A v \in Contents : Numbers[v] = NumbersStep(v, Numbers)
<1> DEFINE S == Contents
           U == SUBSET Nat
           T == [v \in S |-> U]
           G == Typed(S, U, T)
           F == [x \in S |-> [g \in G |-> NumbersStep(x, g)]]
<1>1. G = [S -> U]
  BY DEF Typed
<1>2. ASSUME NEW x \in S, NEW g \in G PROVE NumbersStep(x, g) \in U
  <2>1. CASE x.type = "number"
    BY <2>1, ContentsAssumption DEF NumbersStep
  <2>2. CASE x.type # "number" /\ IsScalar(x)
    BY <2>2 DEF NumbersStep
  <2>3. CASE x.type # "number" /\ ~IsScalar(x)
    <3>1. \A k \in DOMAIN x.val : g[x.val[k]] \in SUBSET Nat
      BY <1>1, <2>3, Inside
    <3> QED BY <2>3, <3>1 DEF NumbersStep
  <2> QED BY <2>1, <2>2, <2>3
<1>3. ASSUME NEW x \in S, NEW g \in G, NEW h \in G, \A y \in S : Depth[y] < Depth[x] => g[y] = h[y]
      PROVE  NumbersStep(x, g) = NumbersStep(x, h)
  <2>1. CASE IsScalar(x)
    BY <2>1 DEF NumbersStep
  <2>2. CASE ~IsScalar(x)
    <3>1. \A k \in DOMAIN x.val : g[x.val[k]] = h[x.val[k]]
      BY <1>3, <2>2, Inside
    <3>2. {g[x.val[k]] : k \in DOMAIN x.val} = {h[x.val[k]] : k \in DOMAIN x.val}
      BY <3>1
    <3> QED BY <2>2, <3>2 DEF NumbersStep
  <2> QED BY <2>1, <2>2
<1>4. Depth \in [S -> Nat]
  BY ContentsAssumption
<1>5. RecursiveStep(S, U, T, Depth, F)
  <2>1. T \in [S -> SUBSET U] /\ \A x \in S : T[x] # {}
    OBVIOUS
  <2>2. F \in [S -> [G -> U]] /\ \A x \in S, g \in G : F[x][g] = NumbersStep(x, g) /\ F[x][g] \in T[x]
    BY <1>2
  <2> HIDE DEF F, T, G
  <2> QED
    BY <1>3, <1>4, <2>1, <2>2 DEF RecursiveStep, G
<1>6. \E f : f = [v \in S |-> NumbersStep(v, f)]
  <2>1. PICK f \in G : \A x \in S : f[x] = F[x][f]
    <3> HIDE DEF S, U, T, F
    <3> QED BY <1>5, RecursiveFunction
  <2>2. f = [v \in S |-> NumbersStep(v, f)]
    BY <2>1, <1>1
  <2> QED BY <2>2
<1>7. Numbers = CHOOSE f : f = [v \in S |-> NumbersStep(v, f)]
  BY DEF Numbers, NumbersStep
<1>8. Numbers = [v \in S |-> NumbersStep(v, Numbers)]
  BY <1>6, <1>7
<1> QED
  BY <1>8, Zenon

-----------------------------------------------------------------------------
LEMMA EqualDefined ==
    \A ab \in Contents \X Contents : valuesEqual[ab] = SameValue(ab[1], ab[2], valuesEqual)
<1> DEFINE S == Contents \X Contents
           U == BOOLEAN
           T == [v \in S |-> U]
           m == [v \in S |-> Depth[v[1]]]
           G == Typed(S, U, T)
           F == [x \in S |-> [g \in G |-> SameValue(x[1], x[2], g)]]
<1>1. G = [S -> U]
  BY DEF Typed
<1>2. ASSUME NEW x \in S, NEW g \in G PROVE SameValue(x[1], x[2], g) \in U
  BY DEF SameValue
<1>3. ASSUME NEW x \in S, NEW g \in G, NEW h \in G, \A y \in S : m[y] < m[x] => g[y] = h[y]
      PROVE  SameValue(x[1], x[2], g) = SameValue(x[1], x[2], h)
  <2> DEFINE a == x[1]  b == x[2]
  <2>0. a \in Contents /\ b \in Contents
    OBVIOUS
  <2>1. ASSUME NEW c \in Contents, NEW d \in Contents, Depth[c] < Depth[a]
        PROVE  g[<<c, d>>] = h[<<c, d>>]
    <3>1. <<c, d>> \in S /\ m[<<c, d>>] < m[x]
      BY <2>1
    <3> QED BY <3>1, <1>3, Zenon
  <2>2. CASE a.type = "map" /\ b.type = "map" /\ DOMAIN a.val = DOMAIN b.val
    <3>1. ~IsScalar(a) /\ ~IsScalar(b)
      BY <2>2 DEF IsScalar
    <3>2. ASSUME NEW k \in DOMAIN a.val
          PROVE  g[<<a.val[k], b.val[k]>>] = h[<<a.val[k], b.val[k]>>]
      <4>1. a.val[k] \in Contents /\ Depth[a.val[k]] < Depth[a]
        BY <2>0, <3>1, Inside
      <4>2. b.val[k] \in Contents
        BY <2>0, <2>2, <3>1, Inside
      <4> QED BY <4>1, <4>2, <2>1
    <3> HIDE DEF a, b
    <3> QED BY <2>2, <3>2 DEF SameValue, a, b
  <2>3. CASE a.type = "list" /\ b.type = "list" /\ Len(a.val) = Len(b.val)
    <3>1. ~IsScalar(a) /\ ~IsScalar(b)
      BY <2>3 DEF IsScalar
    <3>2. DOMAIN a.val = DOMAIN b.val
      BY <2>0, <2>3, ContentsAssumption
    <3>3. ASSUME NEW k \in DOMAIN a.val
          PROVE  g[<<a.val[k], b.val[k]>>] = h[<<a.val[k], b.val[k]>>]
      <4>1. a.val[k] \in Contents /\ Depth[a.val[k]] < Depth[a]
        BY <2>0, <3>1, Inside
      <4>2. b.val[k] \in Contents
        BY <2>0, <3>2, <3>1, Inside
      <4> QED BY <4>1, <4>2, <2>1
    <3> HIDE DEF a, b
    <3>4. listsEqual(a.val, b.val, g) = listsEqual(a.val, b.val, h)
      BY <3>3 DEF listsEqual
    <3> QED BY <2>3, <3>4 DEF SameValue, a, b
  <2>4. CASE a.type = "list" /\ b.type = "list" /\ Len(a.val) # Len(b.val)
    <3>1. listsEqual(a.val, b.val, g) = listsEqual(a.val, b.val, h)
      BY <2>4 DEF listsEqual
    <3> QED BY <2>4, <3>1 DEF SameValue
  <2>5. CASE ~(a.type \in {"map", "list"} /\ a.type = b.type)
             \/ (a.type = "map" /\ DOMAIN a.val # DOMAIN b.val)
    BY <2>5 DEF SameValue
  <2> QED BY <2>2, <2>3, <2>4, <2>5
<1>4. m \in [S -> Nat]
  BY ContentsAssumption
<1>5. RecursiveStep(S, U, T, m, F)
  <2>1. T \in [S -> SUBSET U] /\ \A x \in S : T[x] # {}
    OBVIOUS
  <2>2. F \in [S -> [G -> U]] /\ \A x \in S, g \in G : F[x][g] = SameValue(x[1], x[2], g) /\ F[x][g] \in T[x]
    BY <1>2
  <2> HIDE DEF F, T, G, m, S, U
  <2> QED
    BY <1>3, <1>4, <2>1, <2>2 DEF RecursiveStep, G
<1>6. \E f : f = [ab \in S |-> SameValue(ab[1], ab[2], f)]
  <2>1. PICK f \in G : \A x \in S : f[x] = F[x][f]
    <3> HIDE DEF S, U, T, m, F
    <3> QED BY <1>5, RecursiveFunction
  <2>2. \A x \in S : f[x] = SameValue(x[1], x[2], f)
    BY <2>1
  <2> HIDE DEF F, S
  <2>3. f = [ab \in S |-> SameValue(ab[1], ab[2], f)]
    BY <2>2, <1>1
  <2> QED BY <2>3
<1>7. valuesEqual = CHOOSE f : f = [ab \in S |-> SameValue(ab[1], ab[2], f)]
  BY DEF valuesEqual
<1>8. valuesEqual = [ab \in S |-> SameValue(ab[1], ab[2], valuesEqual)]
  BY <1>6, <1>7
<1> QED
  BY <1>8, Zenon

-----------------------------------------------------------------------------
DenotesStep(v, f) ==
    CASE v.type = "map"  -> Denotation("map", [k \in DOMAIN v.val |-> f[v.val[k]]])
      [] v.type = "list" -> ListDenotation(v.val, [i \in DOMAIN v.val |-> f[v.val[i]]])
      [] OTHER           -> Denotation("scalar", v)

LEMMA DenotesStepLocal ==
    ASSUME NEW x \in Contents, NEW g, NEW h,
           \A y \in Contents : Depth[y] < Depth[x] => g[y] = h[y]
    PROVE  DenotesStep(x, g) = DenotesStep(x, h)
<1>1. CASE IsScalar(x)
  BY <1>1 DEF DenotesStep, IsScalar
<1>2. CASE ~IsScalar(x)
  <2>1. \A k \in DOMAIN x.val : g[x.val[k]] = h[x.val[k]]
    BY <1>2, Inside
  <2> DEFINE G == [k \in DOMAIN x.val |-> g[x.val[k]]]
             H == [k \in DOMAIN x.val |-> h[x.val[k]]]
  <2>2. G = H
    BY <2>1
  <2>3. /\ DenotesStep(x, g) = IF x.type = "map" THEN Denotation("map", G) ELSE ListDenotation(x.val, G)
        /\ DenotesStep(x, h) = IF x.type = "map" THEN Denotation("map", H) ELSE ListDenotation(x.val, H)
    BY <1>2 DEF DenotesStep, IsScalar
  <2> HIDE DEF G, H
  <2> QED BY <2>2, <2>3
<1> QED BY <1>1, <1>2

\* Denotes has no set that all of its values are known to be in: what makes each
\* of the values below a bound of those below it is one function, whatever it is
\* elsewhere, and there is one for every bound.
LEMMA DenotesDefined ==
    \A v \in Contents : Denotes[v] = DenotesStep(v, Denotes)
<1> USE DepthType
<1> DEFINE Approx(g, n) == \A x \in Contents : Depth[x] < n => g[x] = DenotesStep(x, g)
           Bad == {n \in Nat : ~\E g : Approx(g, n)}
<1>1. Bad = {}
  <2> SUFFICES ASSUME Bad # {} PROVE FALSE
    OBVIOUS
  <2>1. PICK n \in Bad : \A k \in Bad : n <= k
    BY Least
  <2>2. CASE n = 0
    <3>1. Approx(<<>>, 0)
      OBVIOUS
    <3> QED BY <2>1, <2>2, <3>1
  <2>3. CASE n # 0
    <3>1. n - 1 \in Nat /\ n - 1 \notin Bad
      BY <2>1, <2>3
    <3>2. PICK g : Approx(g, n - 1)
      BY <3>1
    <3> DEFINE h == [x \in Contents |-> IF Depth[x] = n - 1 THEN DenotesStep(x, g) ELSE g[x]]
    <3>4. ASSUME NEW x \in Contents, Depth[x] < n PROVE h[x] = DenotesStep(x, h)
      <4>1. \A y \in Contents : Depth[y] < Depth[x] => g[y] = h[y]
        BY <3>1, <3>4
      <4>3. h[x] = IF Depth[x] = n - 1 THEN DenotesStep(x, g) ELSE g[x]
        OBVIOUS
      <4> HIDE DEF h
      <4>2. DenotesStep(x, g) = DenotesStep(x, h)
        BY <4>1, DenotesStepLocal
      <4>4. CASE Depth[x] # n - 1
        <5>1. Depth[x] < n - 1
          BY <4>4, <3>4, <3>1
        <5>2. g[x] = DenotesStep(x, g)
          BY <5>1, <3>2
        <5> QED BY <4>2, <4>3, <4>4, <5>2
      <4> QED BY <4>2, <4>3, <4>4
    <3>5. Approx(h, n)
      <4> HIDE DEF h
      <4> QED BY <3>4
    <3> QED BY <3>5, <2>1
  <2> QED BY <2>2, <2>3
<1>2. \A n \in Nat : \E g : Approx(g, n)
  <2> SUFFICES ASSUME NEW n \in Nat, ~\E g : Approx(g, n) PROVE FALSE
    OBVIOUS
  <2>1. n \in Bad
    OBVIOUS
  <2> HIDE DEF Bad
  <2> QED BY <1>1, <2>1
<1> HIDE DEF Approx
<1>3. ASSUME NEW g, NEW h, NEW n \in Nat, Approx(g, n), Approx(h, n)
      PROVE  \A x \in Contents : Depth[x] < n => g[x] = h[x]
  <2> DEFINE Differ == {k \in Nat : \E x \in Contents : Depth[x] = k /\ k < n /\ g[x] # h[x]}
  <2> SUFFICES ASSUME Differ # {} PROVE FALSE
    OBVIOUS
  <2>1. PICK k \in Differ : \A l \in Differ : k <= l
    BY Least
  <2>2. PICK x \in Contents : Depth[x] = k /\ Depth[x] < n /\ g[x] # h[x]
    BY <2>1
  <2>3. ASSUME NEW y \in Contents, Depth[y] < Depth[x] PROVE g[y] = h[y]
    <3>1. Depth[y] \in Nat /\ Depth[y] \notin Differ /\ Depth[y] < n
      BY <2>1, <2>2, <2>3
    <3> QED BY <3>1
  <2>4. g[x] = DenotesStep(x, g) /\ h[x] = DenotesStep(x, h)
    BY <1>3, <2>2 DEF Approx
  <2>5. DenotesStep(x, g) = DenotesStep(x, h)
    BY <2>3, DenotesStepLocal
  <2> QED BY <2>2, <2>4, <2>5
<1> DEFINE A(n) == CHOOSE g : Approx(g, n)
           f == [x \in Contents |-> A(Depth[x] + 1)[x]]
<1>4. \A n \in Nat : Approx(A(n), n)
  BY <1>2
<1> HIDE DEF A
<1>5. ASSUME NEW x \in Contents PROVE f[x] = DenotesStep(x, f)
  <2> DEFINE g == A(Depth[x] + 1)
  <2>1. Approx(g, Depth[x] + 1)
    BY <1>4
  <2>2. ASSUME NEW y \in Contents, Depth[y] < Depth[x] PROVE g[y] = f[y]
    <3> DEFINE h == A(Depth[y] + 1)
    <3>1. Approx(h, Depth[y] + 1)
      BY <1>4
    <3>2. Approx(g, Depth[y] + 1)
      BY <2>1, <2>2 DEF Approx
    <3>3. f[y] = h[y]
      OBVIOUS
    <3>4. Depth[y] + 1 \in Nat /\ Depth[y] < Depth[y] + 1
      OBVIOUS
    <3> HIDE DEF g, h, f
    <3> QED BY <1>3, <3>1, <3>2, <3>3, <3>4
  <2>3. g[x] = DenotesStep(x, g)
    BY <2>1 DEF Approx
  <2>4. f[x] = g[x]
    OBVIOUS
  <2> HIDE DEF f, g
  <2>5. DenotesStep(x, g) = DenotesStep(x, f)
    BY <2>2, DenotesStepLocal
  <2> QED BY <2>3, <2>4, <2>5
<1>6. f = [v \in Contents |-> DenotesStep(v, f)]
  <2>1. f = [v \in Contents |-> f[v]]
    OBVIOUS
  <2> HIDE DEF f
  <2> QED BY <1>5, <2>1
<1>7. Denotes = CHOOSE g : g = [v \in Contents |-> DenotesStep(v, g)]
  BY DEF Denotes, DenotesStep
<1> HIDE DEF f
<1>8. Denotes = [v \in Contents |-> DenotesStep(v, Denotes)]
  BY <1>6, <1>7
<1> QED
  BY <1>8, Zenon

-----------------------------------------------------------------------------
(***************************************************************************)
(* Equality: what is taken to be the same means the same.                  *)
(***************************************************************************)

LEMMA DenotationsDiffer ==
    ASSUME NEW k, NEW l, NEW x, NEW y
    PROVE  /\ Denotation(k, x) = Denotation(l, y) <=> k = l /\ x = y
           /\ Denotation(k, x).kind = k
<1>1. Denotation(k, x).kind = k /\ Denotation(k, x).is = x
  BY DEF Denotation
<1>2. Denotation(l, y).kind = l /\ Denotation(l, y).is = y
  BY DEF Denotation
<1> QED
  BY <1>1, <1>2

\* What an exact value holds is exact.
LEMMA ExactInside ==
    ASSUME NEW v \in Contents, ~IsScalar(v), NEW k \in DOMAIN v.val, Exact(v)
    PROVE  Exact(v.val[k])
<1>1. Numbers[v] = UNION {Numbers[v.val[i]] : i \in DOMAIN v.val}
  BY NumbersDefined DEF NumbersStep, IsScalar
<1>2. Numbers[v.val[k]] \subseteq Numbers[v]
  BY <1>1
<1> QED
  BY <1>2 DEF Exact

\* Of exact scalars neither the key nor the meaning is another one's.
LEMMA ScalarsAreExact ==
    ASSUME NEW v \in Contents, IsScalar(v), Exact(v)
    PROVE  scalarSetKey(v) = v /\ Denotes[v] = Denotation("scalar", v)
<1>1. Denotes[v] = Denotation("scalar", v)
  BY DenotesDefined DEF DenotesStep, IsScalar
<1>2. CASE v.type = "number"
  <2>1. Numbers[v] = {v.val}
    BY <1>2, NumbersDefined DEF NumbersStep
  <2>2. asFloat64(v.val) = v.val
    BY <2>1 DEF Exact, asFloat64
  <2>3. v = [type |-> v.type, val |-> v.val]
    BY ContentsAssumption
  <2> QED BY <1>1, <1>2, <2>2, <2>3 DEF scalarSetKey, Numeric
<1>3. CASE v.type # "number"
  BY <1>1, <1>3 DEF scalarSetKey
<1> QED BY <1>2, <1>3

LEMMA KindsOfMeaning ==
    ASSUME NEW v \in Contents
    PROVE  /\ v.type = "map" => Denotes[v].kind = "map"
           /\ v.type = "list" => Denotes[v].kind \in {"set", "sequence"}
           /\ IsScalar(v) => Denotes[v].kind = "scalar"
<1>1. Denotes[v] = DenotesStep(v, Denotes)
  BY DenotesDefined
<1> DEFINE A == [k \in DOMAIN v.val |-> Denotes[v.val[k]]]
<1>2. CASE v.type = "map"
  <2>1. Denotes[v] = Denotation("map", A)
    BY <1>1, <1>2 DEF DenotesStep
  <2> HIDE DEF A
  <2> QED BY <1>2, <2>1, DenotationsDiffer DEF IsScalar
<1>3. CASE v.type = "list"
  <2>1. Denotes[v] = ListDenotation(v.val, A)
    BY <1>1, <1>3 DEF DenotesStep
  <2> HIDE DEF A
  <2>2. Denotes[v] = Denotation("set", ToSet(A)) \/ Denotes[v] = Denotation("sequence", A)
    BY <2>1 DEF ListDenotation
  <2> QED BY <1>3, <2>2, DenotationsDiffer DEF IsScalar
<1>4. CASE v.type \notin {"map", "list"}
  <2>1. Denotes[v] = Denotation("scalar", v)
    BY <1>1, <1>4 DEF DenotesStep
  <2> QED BY <1>4, <2>1, DenotationsDiffer
<1> QED BY <1>2, <1>3, <1>4

LEMMA ScalarMeaning ==
    ASSUME NEW v \in Contents
    PROVE  IsScalar(v) <=> Denotes[v].kind = "scalar"
  BY KindsOfMeaning DEF IsScalar

Items(s) == [i \in DOMAIN s |-> Denotes[s[i]]]

\* A list is taken as a set if and only if it means one.
LEMMA SetIsMeant ==
    ASSUME NEW s \in Seq(Contents), \A i \in DOMAIN s : Exact(s[i])
    PROVE  isScalarListNoDuplicates(s) <=> IsInjective(Items(s)) /\ \A i \in DOMAIN s : IsScalar(s[i])
<1>1. \A i \in DOMAIN s : s[i] \in Contents
  OBVIOUS
<1>2. CASE \A i \in DOMAIN s : IsScalar(s[i])
  <2>1. \A i \in DOMAIN s : scalarSetKey(s[i]) = s[i] /\ Denotes[s[i]] = Denotation("scalar", s[i])
    BY <1>1, <1>2, ScalarsAreExact
  <2>2. \A i, j \in DOMAIN s : Denotes[s[i]] = Denotes[s[j]] <=> s[i] = s[j]
    BY <2>1, DenotationsDiffer
  <2>3. IsInjective(Items(s)) <=> \A i, j \in DOMAIN s : Denotes[s[i]] = Denotes[s[j]] => i = j
    BY DEF IsInjective, Items
  <2> QED
    BY <2>1, <2>2, <2>3, <1>2 DEF isScalarListNoDuplicates
<1>3. CASE ~\A i \in DOMAIN s : IsScalar(s[i])
  BY <1>3 DEF isScalarListNoDuplicates
<1> QED BY <1>2, <1>3

LEMMA UpTo ==
    ASSUME NEW n \in Nat
    PROVE  IsFiniteSet(1..n) /\ Cardinality(1..n) = n
  BY FS_Interval

\* Lists without a duplicate have as many items as places.
LEMMA ItemsOfSet ==
    ASSUME NEW s \in Seq(Contents), IsInjective(Items(s))
    PROVE  IsFiniteSet(ToSet(Items(s))) /\ Cardinality(ToSet(Items(s))) = Len(s)
<1> DEFINE S == Items(s)  T == ToSet(S)
<1>1. DOMAIN s = 1..Len(s) /\ Len(s) \in Nat /\ DOMAIN S = DOMAIN s
  BY DEF Items
<1>2. S \in [1..Len(s) -> T]
  BY <1>1 DEF Items, ToSet
<1>3. \A y \in T : \E i \in 1..Len(s) : S[i] = y
  BY <1>1 DEF ToSet
<1>4. \A i, j \in 1..Len(s) : S[i] = S[j] => i = j
  BY <1>1 DEF IsInjective
<1>5. IsFiniteSet(1..Len(s)) /\ Cardinality(1..Len(s)) = Len(s)
  BY <1>1, UpTo
<1> HIDE DEF S, T
<1>6. IsFiniteSet(T) /\ Cardinality(T) = Cardinality(1..Len(s))
  BY <1>2, <1>3, <1>4, <1>5, SameSize
<1> QED
  BY <1>5, <1>6 DEF S, T

\* Sets of scalars are equal if and only if they mean the same.
LEMMA ScalarSetsEqual ==
    ASSUME NEW s \in Seq(Contents), NEW t \in Seq(Contents),
           \A i \in DOMAIN s : Exact(s[i]) /\ IsScalar(s[i]), IsInjective(Items(s)),
           \A i \in DOMAIN t : Exact(t[i]) /\ IsScalar(t[i]), IsInjective(Items(t))
    PROVE  scalarSetsEqual(s, t) <=> ToSet(Items(s)) = ToSet(Items(t))
<1> DEFINE S == ToSet(Items(s))  T == ToSet(Items(t))
<1>1. /\ \A i \in DOMAIN s : s[i] \in Contents
      /\ \A i \in DOMAIN t : t[i] \in Contents
  OBVIOUS
<1>2. /\ \A i \in DOMAIN s : scalarSetKey(s[i]) = s[i] /\ Denotes[s[i]] = Denotation("scalar", s[i])
      /\ \A i \in DOMAIN t : scalarSetKey(t[i]) = t[i] /\ Denotes[t[i]] = Denotation("scalar", t[i])
  BY <1>1, ScalarsAreExact
<1>3. \A i \in DOMAIN s, j \in DOMAIN t : scalarSetKey(s[i]) = scalarSetKey(t[j]) <=> Denotes[s[i]] = Denotes[t[j]]
  BY <1>2, DenotationsDiffer
<1>4. S = {Denotes[s[i]] : i \in DOMAIN s} /\ T = {Denotes[t[i]] : i \in DOMAIN t}
  BY DEF ToSet, Items
<1>5. S \subseteq T <=> \A i \in DOMAIN s : \E j \in DOMAIN t : scalarSetKey(s[i]) = scalarSetKey(t[j])
  <2> HIDE DEF S, T
  <2>1. ASSUME S \subseteq T, NEW i \in DOMAIN s
        PROVE  \E j \in DOMAIN t : scalarSetKey(s[i]) = scalarSetKey(t[j])
    <3>1. Denotes[s[i]] \in T
      BY <1>4, <2>1
    <3>2. PICK j \in DOMAIN t : Denotes[t[j]] = Denotes[s[i]]
      BY <1>4, <3>1
    <3> QED BY <1>3, <3>2
  <2>2. ASSUME \A i \in DOMAIN s : \E j \in DOMAIN t : scalarSetKey(s[i]) = scalarSetKey(t[j]),
               NEW x \in S
        PROVE  x \in T
    <3>1. PICK i \in DOMAIN s : x = Denotes[s[i]]
      BY <1>4
    <3>2. PICK j \in DOMAIN t : scalarSetKey(s[i]) = scalarSetKey(t[j])
      BY <2>2
    <3>3. Denotes[t[j]] = x
      BY <1>3, <3>1, <3>2
    <3> QED BY <1>4, <3>3
  <2> QED BY <2>1, <2>2
<1>6. /\ IsFiniteSet(S) /\ Cardinality(S) = Len(s)
      /\ IsFiniteSet(T) /\ Cardinality(T) = Len(t)
  BY ItemsOfSet
<1> HIDE DEF S, T
<1>7. S \subseteq T /\ Cardinality(S) = Cardinality(T) => S = T
  BY <1>6, FS_Subset
<1>8. scalarSetsEqual(s, t) <=> Len(s) = Len(t) /\ S \subseteq T
  BY <1>5 DEF scalarSetsEqual
<1> QED
  BY <1>6, <1>7, <1>8 DEF S, T

\* Lists are equal if and only if they mean the same, where their items are.
LEMMA ListsEqual ==
    ASSUME NEW s \in Seq(Contents), NEW t \in Seq(Contents), NEW equal,
           \A i \in DOMAIN s : Exact(s[i]), \A i \in DOMAIN t : Exact(t[i]),
           \A i \in DOMAIN s, j \in DOMAIN t : equal[<<s[i], t[j]>>] <=> Denotes[s[i]] = Denotes[t[j]]
    PROVE  listsEqual(s, t, equal) <=> ListDenotation(s, Items(s)) = ListDenotation(t, Items(t))
<1> DEFINE IsSet(r) == IsInjective(Items(r)) /\ \A i \in DOMAIN r : IsScalar(r[i])
           Positions == Len(s) = Len(t) /\ \A i \in DOMAIN s : equal[<<s[i], t[i]>>]
<1>1. /\ isScalarListNoDuplicates(s) <=> IsSet(s)
      /\ isScalarListNoDuplicates(t) <=> IsSet(t)
  BY SetIsMeant
<1>2. /\ DOMAIN s = 1..Len(s) /\ Len(s) \in Nat
      /\ DOMAIN t = 1..Len(t) /\ Len(t) \in Nat
  OBVIOUS
<1>3. Positions <=> Items(s) = Items(t)
  <2>1. ASSUME Positions PROVE Items(s) = Items(t)
    <3>1. DOMAIN s = DOMAIN t /\ \A i \in DOMAIN s : Denotes[s[i]] = Denotes[t[i]]
      BY <2>1, <1>2
    <3> QED BY <3>1 DEF Items
  <2>2. ASSUME Items(s) = Items(t) PROVE Positions
    <3>1. DOMAIN s = DOMAIN Items(s) /\ DOMAIN t = DOMAIN Items(t)
      BY DEF Items
    <3>2. DOMAIN s = DOMAIN t /\ Len(s) = Len(t)
      BY <2>2, <3>1, <1>2
    <3>3. ASSUME NEW i \in DOMAIN s PROVE Denotes[s[i]] = Denotes[t[i]]
      <4>1. Items(s)[i] = Denotes[s[i]] /\ Items(t)[i] = Denotes[t[i]]
        BY <3>2 DEF Items
      <4> QED BY <4>1, <2>2
    <3> QED BY <3>2, <3>3
  <2> QED BY <2>1, <2>2
<1>4. Items(s) = Items(t) => (IsSet(s) <=> IsSet(t))
  <2> SUFFICES ASSUME Items(s) = Items(t) PROVE IsSet(s) <=> IsSet(t)
    OBVIOUS
  <2>1. Positions
    BY <1>3
  <2>2. DOMAIN s = DOMAIN t /\ \A i \in DOMAIN s : Denotes[s[i]] = Denotes[t[i]]
    BY <2>1, <1>2
  <2>3. \A i \in DOMAIN s : IsScalar(s[i]) <=> IsScalar(t[i])
    BY <2>2, ScalarMeaning
  <2> QED BY <2>2, <2>3
<1>5. /\ ListDenotation(s, Items(s)) = IF IsSet(s) THEN Denotation("set", ToSet(Items(s)))
                                       ELSE Denotation("sequence", Items(s))
      /\ ListDenotation(t, Items(t)) = IF IsSet(t) THEN Denotation("set", ToSet(Items(t)))
                                       ELSE Denotation("sequence", Items(t))
  BY DEF ListDenotation
<1>6. listsEqual(s, t, equal) <=> IF IsSet(s) /\ IsSet(t) THEN scalarSetsEqual(s, t) ELSE Positions
  BY <1>1 DEF listsEqual
<1>7. CASE IsSet(s) /\ IsSet(t)
  <2>1. scalarSetsEqual(s, t) <=> ToSet(Items(s)) = ToSet(Items(t))
    BY <1>7, ScalarSetsEqual
  <2> HIDE DEF IsSet, Positions
  <2> QED BY <1>5, <1>6, <1>7, <2>1, DenotationsDiffer
<1>8. CASE ~(IsSet(s) /\ IsSet(t))
  <2> HIDE DEF IsSet, Positions
  <2> QED BY <1>3, <1>4, <1>5, <1>6, <1>8, DenotationsDiffer
<1> QED BY <1>7, <1>8

\* Values are taken to be the same if and only if they mean the same: where numbers
\* have the precision of a float, for any two values (valuesEqual).
THEOREM EqualityIsMeaning ==
    \A a, b \in Contents :
        Exact(a) /\ Exact(b) => (valuesEqual[<<a, b>>] <=> Denotes[a] = Denotes[b])
<1> USE DepthType
<1> DEFINE Right(a, b) == valuesEqual[<<a, b>>] <=> Denotes[a] = Denotes[b]
           Wrong == {n \in Nat : \E a, b \in Contents :
                                    Depth[a] = n /\ Exact(a) /\ Exact(b) /\ ~Right(a, b)}
<1> SUFFICES Wrong = {}
  OBVIOUS
<1> SUFFICES ASSUME Wrong # {} PROVE FALSE
  OBVIOUS
<1>1. PICK n \in Wrong : \A m \in Wrong : n <= m
  BY Least
<1>2. PICK a \in Contents, b \in Contents : Depth[a] = n /\ Exact(a) /\ Exact(b) /\ ~Right(a, b)
  BY <1>1
<1>3. ASSUME NEW c \in Contents, NEW d \in Contents, Depth[c] < Depth[a], Exact(c), Exact(d)
      PROVE  Right(c, d)
  <2>1. Depth[c] \in Nat /\ n \in Nat /\ Depth[c] < n
    BY <1>1, <1>2, <1>3
  <2>2. Depth[c] \notin Wrong
    <3> HIDE DEF Wrong
    <3> QED BY <1>1, <2>1
  <2> QED BY <2>1, <2>2, <1>3
<1>4. /\ valuesEqual[<<a, b>>] = SameValue(a, b, valuesEqual)
      /\ Denotes[a] = DenotesStep(a, Denotes) /\ Denotes[b] = DenotesStep(b, Denotes)
  <2>1. <<a, b>> \in Contents \X Contents
    OBVIOUS
  <2>2. <<a, b>>[1] = a /\ <<a, b>>[2] = b
    OBVIOUS
  <2> QED BY <2>1, <2>2, EqualDefined, DenotesDefined
<1> HIDE DEF Wrong
<1>5. CASE a.type = "map" /\ b.type = "map"
  <2>1. ~IsScalar(a) /\ ~IsScalar(b)
    BY <1>5 DEF IsScalar
  <2> DEFINE A == [k \in DOMAIN a.val |-> Denotes[a.val[k]]]
             B == [k \in DOMAIN b.val |-> Denotes[b.val[k]]]
  <2>2. Denotes[a] = Denotation("map", A) /\ Denotes[b] = Denotation("map", B)
    BY <1>4, <1>5 DEF DenotesStep
  <2>3. valuesEqual[<<a, b>>] <=>
            DOMAIN a.val = DOMAIN b.val /\ \A k \in DOMAIN a.val : valuesEqual[<<a.val[k], b.val[k]>>]
    BY <1>4, <1>5 DEF SameValue
  <2>4. ASSUME NEW k \in DOMAIN a.val \cap DOMAIN b.val PROVE Right(a.val[k], b.val[k])
    <3>1. /\ a.val[k] \in Contents /\ Depth[a.val[k]] < Depth[a] /\ Exact(a.val[k])
          /\ b.val[k] \in Contents /\ Exact(b.val[k])
      BY <2>1, <1>2, Inside, ExactInside
    <3> HIDE DEF Right
    <3> QED BY <3>1, <1>3
  <2>5. A = B <=> DOMAIN a.val = DOMAIN b.val /\ \A k \in DOMAIN a.val : Denotes[a.val[k]] = Denotes[b.val[k]]
    <3>1. DOMAIN A = DOMAIN a.val /\ DOMAIN B = DOMAIN b.val
      OBVIOUS
    <3>2. /\ \A k \in DOMAIN a.val : A[k] = Denotes[a.val[k]]
          /\ \A k \in DOMAIN b.val : B[k] = Denotes[b.val[k]]
      OBVIOUS
    <3>3. A = [k \in DOMAIN A |-> A[k]] /\ B = [k \in DOMAIN B |-> B[k]]
      OBVIOUS
    <3> HIDE DEF A, B
    <3> QED BY <3>1, <3>2, <3>3
  <2>6. valuesEqual[<<a, b>>] <=> A = B
    BY <2>3, <2>4, <2>5
  <2> HIDE DEF A, B
  <2> QED BY <1>2, <2>2, <2>6, DenotationsDiffer
<1>6. CASE a.type = "list" /\ b.type = "list"
  <2>1. ~IsScalar(a) /\ ~IsScalar(b) /\ a.val \in Seq(Contents) /\ b.val \in Seq(Contents)
    BY <1>6, ContentsAssumption DEF IsScalar
  <2>2. Denotes[a] = ListDenotation(a.val, Items(a.val)) /\ Denotes[b] = ListDenotation(b.val, Items(b.val))
    BY <1>4, <1>6 DEF DenotesStep, Items
  <2>3. valuesEqual[<<a, b>>] <=> listsEqual(a.val, b.val, valuesEqual)
    BY <1>4, <1>6 DEF SameValue
  <2>4. (\A i \in DOMAIN a.val : Exact(a.val[i])) /\ (\A i \in DOMAIN b.val : Exact(b.val[i]))
    BY <2>1, <1>2, ExactInside
  <2>5. ASSUME NEW i \in DOMAIN a.val, NEW j \in DOMAIN b.val PROVE Right(a.val[i], b.val[j])
    <3>1. /\ a.val[i] \in Contents /\ Depth[a.val[i]] < Depth[a] /\ Exact(a.val[i])
          /\ b.val[j] \in Contents /\ Exact(b.val[j])
      BY <2>1, <2>4, Inside
    <3> HIDE DEF Right
    <3> QED BY <3>1, <1>3
  <2>6. listsEqual(a.val, b.val, valuesEqual)
            <=> ListDenotation(a.val, Items(a.val)) = ListDenotation(b.val, Items(b.val))
    BY <2>1, <2>4, <2>5, ListsEqual
  <2> QED BY <1>2, <2>2, <2>3, <2>6
<1>7. CASE IsScalar(a) /\ IsScalar(b)
  <2>1. scalarSetKey(a) = a /\ scalarSetKey(b) = b
    BY <1>7, <1>2, ScalarsAreExact
  <2>2. Denotes[a] = Denotes[b] <=> a = b
    BY <1>7, <1>2, ScalarsAreExact, DenotationsDiffer
  <2>3. a = [type |-> a.type, val |-> a.val] /\ b = [type |-> b.type, val |-> b.val]
    BY ContentsAssumption
  <2>4. a.type = "number" => Numeric(asFloat64(a.val)) = a
    BY <2>1 DEF scalarSetKey
  <2>5. b.type = "number" => Numeric(asFloat64(b.val)) = b
    BY <2>1 DEF scalarSetKey
  <2>6. a.type = "number" /\ b.type = "number" =>
            asFloat64(a.val) = a.val /\ asFloat64(b.val) = b.val
    BY <2>3, <2>4, <2>5 DEF Numeric
  <2>7. valuesEqual[<<a, b>>] <=> a.type = b.type /\ a.val = b.val
    BY <1>4, <1>7, <2>6 DEF SameValue, IsScalar
  <2> QED BY <1>2, <2>2, <2>3, <2>7
<1>8. CASE a.type # b.type /\ ~(IsScalar(a) /\ IsScalar(b))
  <2>1. ~valuesEqual[<<a, b>>]
    BY <1>4, <1>8 DEF SameValue
  <2>2. Denotes[a].kind # Denotes[b].kind
    BY <1>8, KindsOfMeaning DEF IsScalar
  <2> QED BY <1>2, <2>1, <2>2
<1> QED BY <1>5, <1>6, <1>7, <1>8 DEF IsScalar

-----------------------------------------------------------------------------
(***************************************************************************)
(* The walk of a document lists its leaves, each once.                     *)
(***************************************************************************)

\* The items of lists are in one place each, of all the lists.
Distinct(seqs) ==
    \A i, k \in DOMAIN seqs : \A j \in DOMAIN seqs[i], l \in DOMAIN seqs[k] :
        seqs[i][j] = seqs[k][l] => i = k /\ j = l

\* What one after the other of lists holds: the items of all of the lists, and each
\* in one place if it was in one.
LEMMA Flattened ==
    ASSUME NEW S, NEW seqs \in Seq(Seq(S))
    PROVE  LET F == FlattenSeq(seqs) IN
           /\ F \in Seq(S)
           /\ \A m \in DOMAIN F : \E i \in DOMAIN seqs : \E j \in DOMAIN seqs[i] : F[m] = seqs[i][j]
           /\ \A i \in DOMAIN seqs : \A j \in DOMAIN seqs[i] : \E m \in DOMAIN F : F[m] = seqs[i][j]
           /\ Distinct(seqs) => \A l, m \in DOMAIN F : F[l] = F[m] => l = m
<1> DEFINE n == Len(seqs)
           Step(i, f) == IF i = 1 THEN seqs[i] ELSE f[i-1] \o seqs[i]
           f == CHOOSE g : g = [i \in 1..n |-> Step(i, g)]
           P(i, s) == /\ s \in Seq(S)
                      /\ \A m \in DOMAIN s : \E k \in 1..i : \E j \in DOMAIN seqs[k] : s[m] = seqs[k][j]
                      /\ \A k \in 1..i : \A j \in DOMAIN seqs[k] : \E m \in DOMAIN s : s[m] = seqs[k][j]
                      /\ Distinct(seqs) => \A l, m \in DOMAIN s : s[l] = s[m] => l = m
<1>1. n \in Nat /\ DOMAIN seqs = 1..n /\ \A i \in 1..n : seqs[i] \in Seq(S)
  OBVIOUS
<1>2. FlattenSeq(seqs) = IF n = 0 THEN seqs ELSE f[n]
  BY DEF FlattenSeq
<1>5. Distinct(seqs) => \A k \in 1..n : \A l, m \in DOMAIN seqs[k] : seqs[k][l] = seqs[k][m] => l = m
  BY <1>1 DEF Distinct
<1>3. CASE n = 0
  <2>1. FlattenSeq(seqs) = seqs /\ seqs = <<>> /\ <<>> \in Seq(S)
    BY <1>2, <1>3, EmptySeq
  <2>2. DOMAIN seqs = {}
    BY <1>1, <1>3
  <2> QED BY <2>1, <2>2
<1>4. CASE n # 0
  <2>1. \E g : g = [i \in 1..n |-> Step(i, g)]
    <3> DEFINE I == 1..n
               U == Seq(S)
               T == [i \in I |-> U]
               m == [i \in I |-> i]
               G == Typed(I, U, T)
               H == [i \in I |-> [g \in G |-> Step(i, g)]]
    <3>1. G = [I -> U]
      BY DEF Typed
    <3>2. ASSUME NEW i \in I, NEW g \in G PROVE Step(i, g) \in U
      <4>1. CASE i = 1
        BY <4>1, <1>1
      <4>2. CASE i # 1
        <5>1. i - 1 \in I
          BY <4>2, <1>1
        <5>2. g[i-1] \in Seq(S) /\ seqs[i] \in Seq(S)
          BY <5>1, <3>1, <1>1
        <5> QED BY <4>2, <5>2, ConcatProperties
      <4> QED BY <4>1, <4>2
    <3>3. ASSUME NEW i \in I, NEW g \in G, NEW h \in G, \A y \in I : m[y] < m[i] => g[y] = h[y]
          PROVE  Step(i, g) = Step(i, h)
      <4>1. i # 1 => i - 1 \in I /\ m[i - 1] < m[i]
        BY <1>1
      <4> QED BY <4>1, <3>3
    <3>4. m \in [I -> Nat]
      OBVIOUS
    <3>5. RecursiveStep(I, U, T, m, H)
      <4>1. T \in [I -> SUBSET U] /\ \A x \in I : T[x] # {}
        BY EmptySeq
      <4>2. H \in [I -> [G -> U]] /\ \A i \in I, g \in G : H[i][g] = Step(i, g) /\ H[i][g] \in T[i]
        BY <3>2
      <4> HIDE DEF H, T, G, m, U, I
      <4> QED BY <3>3, <3>4, <4>1, <4>2 DEF RecursiveStep, G
    <3>6. PICK g \in G : \A i \in I : g[i] = H[i][g]
      <4> HIDE DEF H, T, m, U, I
      <4> QED BY <3>5, RecursiveFunction
    <3>7. \A i \in I : g[i] = Step(i, g)
      BY <3>6
    <3> HIDE DEF H, Step
    <3> QED BY <3>1, <3>7
  <2>2. f = [i \in 1..n |-> Step(i, f)]
    BY <2>1
  <2> HIDE DEF f
  <2>3. \A i \in 1..n : f[i] = Step(i, f)
    BY <2>2
  <2> DEFINE Bad == {i \in Nat : i \in 1..n /\ ~P(i, f[i])}
  <2>4. Bad = {}
    <3> SUFFICES ASSUME Bad # {} PROVE FALSE
      OBVIOUS
    <3>1. PICK i \in Bad : \A k \in Bad : i <= k
      BY Least
    <3>2. i \in 1..n /\ ~P(i, f[i]) /\ i \in Nat
      BY <3>1
    <3>3. CASE i = 1
      <4>1. f[1] = seqs[1] /\ seqs[1] \in Seq(S)
        BY <2>3, <3>2, <3>3, <1>1
      <4>2. 1..1 = {1}
        OBVIOUS
      <4>3. P(1, seqs[1])
        <5>1. Distinct(seqs) => \A l, m \in DOMAIN seqs[1] : seqs[1][l] = seqs[1][m] => l = m
          BY <1>5, <3>2, <3>3
        <5> QED BY <4>1, <4>2, <5>1
      <4>4. f[i] = seqs[1] /\ i = 1
        BY <4>1, <3>3
      <4> HIDE DEF P, Bad
      <4> QED BY <4>3, <4>4, <3>2
    <3>4. CASE i # 1
      <4>0. i - 1 \in 1..n /\ i - 1 \in Nat /\ i - 1 < i
        BY <3>2, <3>4, <1>1
      <4>1. i - 1 \in 1..n /\ i - 1 \notin Bad /\ i - 1 \in Nat
        <5> HIDE DEF Bad
        <5> QED BY <3>1, <3>2, <4>0
      <4> DEFINE s == f[i - 1]  t == seqs[i]
      <4>2. P(i - 1, s)
        BY <4>1
      <4>3. f[i] = s \o t /\ s \in Seq(S) /\ t \in Seq(S)
        BY <2>3, <3>2, <3>4, <4>2, <1>1
      <4> HIDE DEF Bad, s, P
      <4> DEFINE c == s \o t
      <4>4. /\ c \in Seq(S) /\ Len(c) = Len(s) + Len(t)
            /\ \A m \in 1..(Len(s) + Len(t)) : c[m] = IF m <= Len(s) THEN s[m] ELSE t[m - Len(s)]
            /\ DOMAIN c = 1..(Len(s) + Len(t)) /\ DOMAIN s = 1..Len(s) /\ DOMAIN t = 1..Len(t)
            /\ Len(s) \in Nat /\ Len(t) \in Nat
        BY <4>3, ConcatProperties
      <4> HIDE DEF c
      <4>5. /\ \A m \in DOMAIN s : m \in DOMAIN c /\ c[m] = s[m]
            /\ \A m \in DOMAIN t : m + Len(s) \in DOMAIN c /\ c[m + Len(s)] = t[m]
        BY <4>4, SMTT(30)
      <4>6. \A m \in DOMAIN c : \/ (m \in DOMAIN s /\ c[m] = s[m])
                               \/ (m - Len(s) \in DOMAIN t /\ c[m] = t[m - Len(s)])
        BY <4>4
      <4>7. i \in 1..i /\ \A k \in 1..i : k = i \/ k \in 1..(i - 1)
        BY <3>2
      <4>8. \A k \in 1..(i - 1) : k \in 1..i
        BY <3>2
      <4>9. ASSUME NEW m \in DOMAIN c PROVE \E k \in 1..i : \E j \in DOMAIN seqs[k] : c[m] = seqs[k][j]
        <5>1. CASE m \in DOMAIN s /\ c[m] = s[m]
          <6>1. PICK k \in 1..(i - 1) : \E j \in DOMAIN seqs[k] : s[m] = seqs[k][j]
            BY <4>2, <5>1 DEF P
          <6> QED BY <6>1, <5>1, <4>8
        <5>2. CASE m - Len(s) \in DOMAIN t /\ c[m] = t[m - Len(s)]
          BY <5>2, <4>7
        <5> QED BY <5>1, <5>2, <4>6
      <4>10. ASSUME NEW k \in 1..i, NEW j \in DOMAIN seqs[k] PROVE \E m \in DOMAIN c : c[m] = seqs[k][j]
        <5>1. CASE k \in 1..(i - 1)
          <6>1. PICK m \in DOMAIN s : s[m] = seqs[k][j]
            BY <4>2, <5>1 DEF P
          <6> QED BY <6>1, <4>5
        <5>2. CASE k = i
          BY <5>2, <4>5
        <5> QED BY <5>1, <5>2, <4>7
      <4>11. ASSUME Distinct(seqs), NEW l \in DOMAIN c, NEW m \in DOMAIN c, c[l] = c[m] PROVE l = m
        <5>1. ASSUME NEW x \in DOMAIN s, NEW y \in DOMAIN t PROVE s[x] # t[y]
          <6>1. PICK k \in 1..(i - 1) : \E j \in DOMAIN seqs[k] : s[x] = seqs[k][j]
            BY <4>2 DEF P
          <6>2. PICK j \in DOMAIN seqs[k] : s[x] = seqs[k][j]
            BY <6>1
          <6>3. k \in DOMAIN seqs /\ i \in DOMAIN seqs /\ k # i
            BY <1>1, <3>2
          <6> QED BY <4>11, <6>2, <6>3 DEF Distinct
        <5>2. CASE l \in DOMAIN s /\ c[l] = s[l] /\ m \in DOMAIN s /\ c[m] = s[m]
          BY <5>2, <4>11, <4>2 DEF P
        <5>3. CASE /\ l - Len(s) \in DOMAIN t /\ c[l] = t[l - Len(s)]
                   /\ m - Len(s) \in DOMAIN t /\ c[m] = t[m - Len(s)]
          <6>1. l - Len(s) = m - Len(s)
            BY <5>3, <4>11, <3>2, <1>5
          <6>2. l \in Int /\ m \in Int
            BY <4>4
          <6> QED BY <6>1, <6>2, <4>4
        <5> QED BY <5>1, <5>2, <5>3, <4>6, <4>11
      <4>12. P(i, c)
        BY <4>4, <4>9, <4>10, <4>11 DEF P
      <4> QED BY <4>3, <4>12, <3>2 DEF c
    <3> QED BY <3>3, <3>4
  <2>5. n \in Nat /\ n \in 1..n
    BY <1>1, <1>4
  <2>6. P(n, f[n])
    <3> HIDE DEF P
    <3> QED BY <2>4, <2>5
  <2> DEFINE F == FlattenSeq(seqs)
  <2>7. P(n, F) /\ DOMAIN seqs = 1..n
    BY <2>6, <1>1, <1>2, <1>4
  <2> HIDE DEF F
  <2>8. /\ F \in Seq(S)
        /\ \A m \in DOMAIN F : \E i \in DOMAIN seqs : \E j \in DOMAIN seqs[i] : F[m] = seqs[i][j]
        /\ \A i \in DOMAIN seqs : \A j \in DOMAIN seqs[i] : \E m \in DOMAIN F : F[m] = seqs[i][j]
        /\ Distinct(seqs) => \A l, m \in DOMAIN F : F[l] = F[m] => l = m
    <3> HIDE DEF n
    <3> QED BY <2>7
  <2> QED BY <2>8 DEF F
<1> QED BY <1>3, <1>4

-----------------------------------------------------------------------------
LeafType  == [path : Seq(KeyParts), value : Contents]
KeyedType == [keys : Seq(PathSet), value : Contents]

\* What has leaves below it is a map with keys.
LEMMA Branch ==
    ASSUME NEW v \in Contents, ~IsLeaf(v)
    PROVE  /\ ~IsScalar(v) /\ v.type = "map" /\ DOMAIN v.val # {}
           /\ IsFiniteSet(DOMAIN v.val) /\ DOMAIN v.val \in SUBSET PathSet
           /\ \A k \in DOMAIN v.val : k \in PathSet /\ v.val[k] \in Contents /\ Depth[v.val[k]] < Depth[v]
<1>1. v.type = "map" /\ DOMAIN v.val # {} /\ ~IsScalar(v)
  BY DEF IsLeaf, IsScalar
<1>2. IsFiniteSet(DOMAIN v.val) /\ DOMAIN v.val \subseteq Seq(KeyParts) \ {<<>>}
  BY <1>1, ContentsAssumption
<1> QED
  BY <1>1, <1>2, Inside DEF PathSet

LEMMA SortedKeys ==
    ASSUME NEW v \in Contents, ~IsLeaf(v)
    PROVE  LET keys == Sorted(DOMAIN v.val)
           IN  /\ keys \in Seq(PathSet)
               /\ \A i \in DOMAIN keys : keys[i] \in DOMAIN v.val
               /\ \A k \in DOMAIN v.val : \E i \in DOMAIN keys : keys[i] = k
               /\ \A i, j \in DOMAIN keys : keys[i] = keys[j] => i = j
<1> DEFINE P == DOMAIN v.val
           R == {pq \in P \X P : PathBefore(pq[1], pq[2])}
           keys == InOrder(P, R)
           n == Cardinality(P)
<1>1. IsFiniteSet(P) /\ P \in SUBSET PathSet /\ n \in Nat
  BY Branch, FS_CardinalityType
<1>2. Orders(R, P)
  BY <1>1, PathsAreOrdered
<1>3. Sorted(P) = keys
  BY DEF Sorted
<1> HIDE DEF R, P
<1>4. /\ keys \in [1..n -> P]
      /\ \A k \in P : \E i \in 1..n : keys[i] = k
      /\ \A i, j \in 1..n : keys[i] = keys[j] => i = j
  BY <1>1, <1>2, InOrderLists
<1> HIDE DEF keys, n
<1>5. keys \in Seq(PathSet) /\ DOMAIN keys = 1..n
  BY <1>1, <1>4
<1> QED
  BY <1>3, <1>4, <1>5 DEF P

-----------------------------------------------------------------------------
WalkStep(v, f) ==
    IF IsLeaf(v) THEN <<[path |-> <<>>, value |-> v]>>
    ELSE LeavesUnder(v, Sorted(DOMAIN v.val), f)

LEMMA Prefixed ==
    ASSUME NEW key \in Seq(KeyParts), NEW leaves \in Seq(LeafType)
    PROVE  /\ WithPrefix(key, leaves) \in Seq(LeafType)
           /\ DOMAIN WithPrefix(key, leaves) = DOMAIN leaves
           /\ \A n \in DOMAIN leaves :
                /\ WithPrefix(key, leaves)[n].path = key \o leaves[n].path
                /\ WithPrefix(key, leaves)[n].value = leaves[n].value
<1>1. DOMAIN leaves = 1..Len(leaves) /\ Len(leaves) \in Nat
  OBVIOUS
<1>2. ASSUME NEW n \in DOMAIN leaves
      PROVE  /\ leaves[n].path \in Seq(KeyParts) /\ leaves[n].value \in Contents
             /\ key \o leaves[n].path \in Seq(KeyParts)
  <2>1. leaves[n] \in LeafType
    OBVIOUS
  <2>2. leaves[n].path \in Seq(KeyParts) /\ leaves[n].value \in Contents
    BY <2>1 DEF LeafType
  <2> QED BY <2>2, ConcatProperties
<1>3. \A n \in DOMAIN leaves : [path |-> key \o leaves[n].path, value |-> leaves[n].value] \in LeafType
  BY <1>2 DEF LeafType
<1>4. WithPrefix(key, leaves) \in [1..Len(leaves) -> LeafType]
  BY <1>1, <1>3 DEF WithPrefix
<1> QED
  BY <1>1, <1>4 DEF WithPrefix

\* The lists of leaves that are put one after the other.
Branches(v, f) ==
    LET keys == Sorted(DOMAIN v.val)
    IN  [i \in DOMAIN keys |-> WithPrefix(keys[i], f[v.val[keys[i]]])]

LEMMA BranchesTyped ==
    ASSUME NEW v \in Contents, ~IsLeaf(v), NEW f,
           \A y \in Contents : Depth[y] < Depth[v] => f[y] \in Seq(LeafType)
    PROVE  /\ Branches(v, f) \in Seq(Seq(LeafType))
           /\ WalkStep(v, f) = FlattenSeq(Branches(v, f))
<1> DEFINE keys == Sorted(DOMAIN v.val)
<1>1. keys \in Seq(PathSet) /\ \A i \in DOMAIN keys : keys[i] \in DOMAIN v.val
  BY SortedKeys
<1>2. WalkStep(v, f) = FlattenSeq(Branches(v, f))
  BY DEF WalkStep, LeavesUnder, Branches
<1> HIDE DEF keys
<1>3. DOMAIN keys = 1..Len(keys) /\ Len(keys) \in Nat
  BY <1>1
<1>4. ASSUME NEW i \in DOMAIN keys PROVE WithPrefix(keys[i], f[v.val[keys[i]]]) \in Seq(LeafType)
  <2>1. keys[i] \in DOMAIN v.val /\ keys[i] \in Seq(KeyParts)
    BY <1>1, Branch DEF PathSet
  <2>2. f[v.val[keys[i]]] \in Seq(LeafType)
    BY <2>1, Branch
  <2> QED BY <2>1, <2>2, Prefixed
<1>5. Branches(v, f) = [i \in 1..Len(keys) |-> WithPrefix(keys[i], f[v.val[keys[i]]])]
  BY <1>3 DEF Branches, keys
<1> QED
  BY <1>2, <1>3, <1>4, <1>5

LEMMA WalkStepTyped ==
    ASSUME NEW v \in Contents, NEW f,
           \A y \in Contents : Depth[y] < Depth[v] => f[y] \in Seq(LeafType)
    PROVE  WalkStep(v, f) \in Seq(LeafType)
<1>1. CASE IsLeaf(v)
  <2>1. <<>> \in Seq(KeyParts)
    BY EmptySeq
  <2>2. [path |-> <<>>, value |-> v] \in LeafType
    BY <2>1 DEF LeafType
  <2> QED BY <1>1, <2>2 DEF WalkStep
<1>2. CASE ~IsLeaf(v)
  BY <1>2, BranchesTyped, Flattened
<1> QED BY <1>1, <1>2

LEMMA WalkStepLocal ==
    ASSUME NEW v \in Contents, NEW g, NEW h,
           \A y \in Contents : Depth[y] < Depth[v] => g[y] = h[y]
    PROVE  WalkStep(v, g) = WalkStep(v, h)
<1>1. CASE IsLeaf(v)
  BY <1>1 DEF WalkStep
<1>2. CASE ~IsLeaf(v)
  <2> DEFINE keys == Sorted(DOMAIN v.val)
  <2>1. \A i \in DOMAIN keys : g[v.val[keys[i]]] = h[v.val[keys[i]]]
    <3>1. \A i \in DOMAIN keys : keys[i] \in DOMAIN v.val
      BY <1>2, SortedKeys
    <3> HIDE DEF keys
    <3> QED BY <1>2, <3>1, Branch
  <2>2. [i \in DOMAIN keys |-> WithPrefix(keys[i], g[v.val[keys[i]]])]
            = [i \in DOMAIN keys |-> WithPrefix(keys[i], h[v.val[keys[i]]])]
    <3> HIDE DEF keys
    <3> QED BY <2>1
  <2>3. LeavesUnder(v, keys, g) = LeavesUnder(v, keys, h)
    BY <2>2 DEF LeavesUnder
  <2> QED BY <1>2, <2>3 DEF WalkStep
<1> QED BY <1>1, <1>2

\* walkLeaves is what its definition says, and lists leaves.
LEMMA WalkDefined ==
    \A v \in Contents : walkLeaves[v] = WalkStep(v, walkLeaves) /\ walkLeaves[v] \in Seq(LeafType)
<1> USE DepthType
<1> DEFINE S == Contents
           U == Seq(LeafType)
           T == [v \in S |-> U]
           G == Typed(S, U, T)
           F == [x \in S |-> [g \in G |-> WalkStep(x, g)]]
<1>1. G = [S -> U]
  BY DEF Typed
<1>2. ASSUME NEW x \in S, NEW g \in G PROVE WalkStep(x, g) \in U
  BY <1>1, WalkStepTyped
<1>3. ASSUME NEW x \in S, NEW g \in G, NEW h \in G, \A y \in S : Depth[y] < Depth[x] => g[y] = h[y]
      PROVE  WalkStep(x, g) = WalkStep(x, h)
  BY <1>3, WalkStepLocal
<1>5. RecursiveStep(S, U, T, Depth, F)
  <2>1. T \in [S -> SUBSET U] /\ \A x \in S : T[x] # {}
    BY EmptySeq
  <2>2. F \in [S -> [G -> U]] /\ \A x \in S, g \in G : F[x][g] = WalkStep(x, g) /\ F[x][g] \in T[x]
    BY <1>2
  <2> HIDE DEF F, T, G, U
  <2> QED
    BY <1>3, <2>1, <2>2 DEF RecursiveStep, G
<1>6. \E f : f = [v \in S |-> WalkStep(v, f)]
  <2>1. PICK f \in G : \A x \in S : f[x] = F[x][f]
    <3> HIDE DEF S, U, T, F
    <3> QED BY <1>5, RecursiveFunction
  <2>2. f = [v \in S |-> WalkStep(v, f)]
    BY <2>1, <1>1
  <2> QED BY <2>2
<1>7. walkLeaves = CHOOSE f : f = [v \in S |-> WalkStep(v, f)]
  BY DEF walkLeaves, WalkStep
<1>8. walkLeaves = [v \in S |-> WalkStep(v, walkLeaves)]
  BY <1>6, <1>7
<1>9. \A v \in Contents : walkLeaves[v] = WalkStep(v, walkLeaves)
  BY <1>8, Zenon
<1> DEFINE Bad == {n \in Nat : \E v \in Contents : Depth[v] = n /\ walkLeaves[v] \notin Seq(LeafType)}
<1>10. Bad = {}
  <2> SUFFICES ASSUME Bad # {} PROVE FALSE
    OBVIOUS
  <2>1. PICK n \in Bad : \A k \in Bad : n <= k
    BY Least
  <2>2. PICK v \in Contents : Depth[v] = n /\ walkLeaves[v] \notin Seq(LeafType)
    BY <2>1
  <2>3. ASSUME NEW y \in Contents, Depth[y] < Depth[v] PROVE walkLeaves[y] \in Seq(LeafType)
    <3>1. Depth[y] \in Nat /\ n \in Nat /\ Depth[y] < n
      BY <2>1, <2>2, <2>3
    <3>2. Depth[y] \notin Bad
      <4> HIDE DEF Bad
      <4> QED BY <2>1, <3>1
    <3> QED BY <3>1, <3>2
  <2> QED BY <1>9, <2>2, <2>3, WalkStepTyped
<1> QED
  BY <1>9, <1>10

-----------------------------------------------------------------------------
KeyedStep(v, f) ==
    IF IsLeaf(v) THEN {[keys |-> <<>>, value |-> v]}
    ELSE UNION {BelowKey(k, f[v.val[k]]) : k \in DOMAIN v.val}

LEMMA KeyedStepTyped ==
    ASSUME NEW v \in Contents, NEW f,
           \A y \in Contents : Depth[y] < Depth[v] => f[y] \in SUBSET KeyedType /\ f[y] # {}
    PROVE  KeyedStep(v, f) \in SUBSET KeyedType /\ KeyedStep(v, f) # {}
<1>1. CASE IsLeaf(v)
  <2>1. <<>> \in Seq(PathSet)
    BY EmptySeq
  <2>2. [keys |-> <<>>, value |-> v] \in KeyedType
    BY <2>1 DEF KeyedType
  <2> QED BY <1>1, <2>2 DEF KeyedStep
<1>2. CASE ~IsLeaf(v)
  <2>1. ASSUME NEW k \in DOMAIN v.val
        PROVE  f[v.val[k]] \in SUBSET KeyedType /\ f[v.val[k]] # {} /\ <<k>> \in Seq(PathSet)
    BY <1>2, Branch
  <2>2. ASSUME NEW k \in DOMAIN v.val, NEW l \in f[v.val[k]]
        PROVE  [keys |-> <<k>> \o l.keys, value |-> l.value] \in KeyedType
    <3>1. l.keys \in Seq(PathSet) /\ l.value \in Contents
      BY <2>1 DEF KeyedType
    <3>2. <<k>> \o l.keys \in Seq(PathSet)
      BY <2>1, <3>1, ConcatProperties
    <3> QED BY <3>1, <3>2 DEF KeyedType
  <2>3. PICK k \in DOMAIN v.val : TRUE
    BY <1>2, Branch
  <2>4. KeyedStep(v, f) = UNION {BelowKey(k0, f[v.val[k0]]) : k0 \in DOMAIN v.val}
    BY <1>2 DEF KeyedStep
  <2>5. KeyedStep(v, f) \in SUBSET KeyedType
    <3>1. ASSUME NEW k0 \in DOMAIN v.val PROVE BelowKey(k0, f[v.val[k0]]) \subseteq KeyedType
      BY <2>2 DEF BelowKey
    <3> QED BY <2>4, <3>1
  <2>6. PICK l \in f[v.val[k]] : TRUE
    BY <2>1
  <2>7. [keys |-> <<k>> \o l.keys, value |-> l.value] \in BelowKey(k, f[v.val[k]])
    BY DEF BelowKey
  <2> DEFINE r == [keys |-> <<k>> \o l.keys, value |-> l.value]
  <2> HIDE DEF r
  <2>8. r \in KeyedStep(v, f)
    BY <2>4, <2>7 DEF r
  <2> QED BY <2>5, <2>8
<1> QED BY <1>1, <1>2

\* KeyedLeaves is what its definition says, and holds leaves with their keys.
LEMMA KeyedDefined ==
    \A v \in Contents : /\ KeyedLeaves[v] = KeyedStep(v, KeyedLeaves)
                        /\ KeyedLeaves[v] \in SUBSET KeyedType /\ KeyedLeaves[v] # {}
<1> USE DepthType
<1> DEFINE S == Contents
           U == SUBSET KeyedType
           T == [v \in S |-> U \ {{}}]
           G == Typed(S, U, T)
           F == [x \in S |-> [g \in G |-> KeyedStep(x, g)]]
<1>1. \A g \in G : g \in [S -> U] /\ \A x \in S : g[x] # {}
  BY DEF Typed
<1>2. ASSUME NEW x \in S, NEW g \in G PROVE KeyedStep(x, g) \in U \ {{}}
  BY <1>1, KeyedStepTyped
<1>3. ASSUME NEW x \in S, NEW g \in G, NEW h \in G, \A y \in S : Depth[y] < Depth[x] => g[y] = h[y]
      PROVE  KeyedStep(x, g) = KeyedStep(x, h)
  <2>1. ~IsLeaf(x) => \A k \in DOMAIN x.val : g[x.val[k]] = h[x.val[k]]
    BY <1>3, Branch
  <2>2. ~IsLeaf(x) => {BelowKey(k, g[x.val[k]]) : k \in DOMAIN x.val}
                           = {BelowKey(k, h[x.val[k]]) : k \in DOMAIN x.val}
    BY <2>1
  <2> QED BY <2>2 DEF KeyedStep
<1>5. RecursiveStep(S, U, T, Depth, F)
  <2>1. T \in [S -> SUBSET U]
    OBVIOUS
  <2>2. ASSUME NEW x \in S PROVE T[x] # {}
    <3>1. [keys |-> <<>>, value |-> x] \in KeyedType
      BY EmptySeq DEF KeyedType
    <3>2. {[keys |-> <<>>, value |-> x]} \in T[x]
      BY <3>1
    <3> QED BY <3>2
  <2>3. F \in [S -> [G -> U]] /\ \A x \in S, g \in G : F[x][g] = KeyedStep(x, g) /\ F[x][g] \in T[x]
    BY <1>2
  <2> HIDE DEF F, T, G, U
  <2> QED
    BY <1>3, <2>1, <2>2, <2>3 DEF RecursiveStep, G
<1>6. \E f : f = [v \in S |-> KeyedStep(v, f)]
  <2>1. PICK f \in G : \A x \in S : f[x] = F[x][f]
    <3> HIDE DEF S, U, T, F
    <3> QED BY <1>5, RecursiveFunction
  <2>2. f = [v \in S |-> KeyedStep(v, f)]
    BY <2>1, <1>1
  <2> QED BY <2>2
<1>7. KeyedLeaves = CHOOSE f : f = [v \in S |-> KeyedStep(v, f)]
  BY DEF KeyedLeaves, KeyedStep
<1>8. KeyedLeaves = [v \in S |-> KeyedStep(v, KeyedLeaves)]
  BY <1>6, <1>7
<1>9. \A v \in Contents : KeyedLeaves[v] = KeyedStep(v, KeyedLeaves)
  BY <1>8, Zenon
<1> DEFINE Fine(v) == KeyedLeaves[v] \in SUBSET KeyedType /\ KeyedLeaves[v] # {}
           Bad == {n \in Nat : \E v \in Contents : Depth[v] = n /\ ~Fine(v)}
<1>10. Bad = {}
  <2> SUFFICES ASSUME Bad # {} PROVE FALSE
    OBVIOUS
  <2>1. PICK n \in Bad : \A k \in Bad : n <= k
    BY Least
  <2>2. PICK v \in Contents : Depth[v] = n /\ ~Fine(v)
    BY <2>1
  <2>3. ASSUME NEW y \in Contents, Depth[y] < Depth[v] PROVE Fine(y)
    <3>1. Depth[y] \in Nat /\ n \in Nat /\ Depth[y] < n
      BY <2>1, <2>2, <2>3
    <3>2. Depth[y] \notin Bad
      <4> HIDE DEF Bad
      <4> QED BY <2>1, <3>1
    <3> QED BY <3>1, <3>2
  <2> QED BY <1>9, <2>2, <2>3, KeyedStepTyped
<1>11. \A v \in Contents : Fine(v)
  BY <1>10
<1> QED
  BY <1>9, <1>11

-----------------------------------------------------------------------------
\* The keys of every leaf below a branch begin with one of the branch's keys.
LEMMA LeavesBelow ==
    ASSUME NEW v \in Contents, ~IsLeaf(v)
    PROVE  \A r : r \in KeyedLeaves[v] <=>
                    \E k \in DOMAIN v.val : \E l \in KeyedLeaves[v.val[k]] :
                        r = [keys |-> <<k>> \o l.keys, value |-> l.value]
<1>1. KeyedLeaves[v] = UNION {BelowKey(k, KeyedLeaves[v.val[k]]) : k \in DOMAIN v.val}
  BY KeyedDefined DEF KeyedStep
<1> SUFFICES ASSUME NEW r
             PROVE  r \in KeyedLeaves[v] <=>
                        \E k \in DOMAIN v.val : \E l \in KeyedLeaves[v.val[k]] :
                            r = [keys |-> <<k>> \o l.keys, value |-> l.value]
  OBVIOUS
<1>2. r \in KeyedLeaves[v] <=> \E k \in DOMAIN v.val : r \in BelowKey(k, KeyedLeaves[v.val[k]])
  BY <1>1
<1>3. \A k : r \in BelowKey(k, KeyedLeaves[v.val[k]]) <=>
            \E l \in KeyedLeaves[v.val[k]] : r = [keys |-> <<k>> \o l.keys, value |-> l.value]
  BY DEF BelowKey
<1> QED
  BY <1>2, <1>3

\* The values at the leaves of an exact document are exact.
LEMMA LeavesAreExact ==
    \A v \in Contents : Exact(v) => \A f \in KeyedLeaves[v] : f.value \in Contents /\ Exact(f.value)
<1> USE DepthType
<1> DEFINE Right(v) == Exact(v) => \A f \in KeyedLeaves[v] : f.value \in Contents /\ Exact(f.value)
           Bad == {n \in Nat : \E v \in Contents : Depth[v] = n /\ ~Right(v)}
<1> SUFFICES ASSUME Bad # {} PROVE FALSE
  OBVIOUS
<1>1. PICK n \in Bad : \A k \in Bad : n <= k
  BY Least
<1>2. PICK v \in Contents : Depth[v] = n /\ ~Right(v)
  BY <1>1
<1>3. ASSUME NEW y \in Contents, Depth[y] < Depth[v] PROVE Right(y)
  <2>1. Depth[y] \in Nat /\ n \in Nat /\ Depth[y] < n
    BY <1>1, <1>2, <1>3
  <2>2. Depth[y] \notin Bad
    <3> HIDE DEF Bad
    <3> QED BY <1>1, <2>1
  <2> QED BY <2>1, <2>2
<1> HIDE DEF Bad
<1>4. CASE IsLeaf(v)
  <2>1. KeyedLeaves[v] = {[keys |-> <<>>, value |-> v]}
    BY <1>4, KeyedDefined DEF KeyedStep
  <2> QED BY <2>1, <1>2
<1>5. CASE ~IsLeaf(v)
  <2>0. \A r : r \in KeyedLeaves[v] <=>
                \E k \in DOMAIN v.val : \E l \in KeyedLeaves[v.val[k]] :
                    r = [keys |-> <<k>> \o l.keys, value |-> l.value]
    BY <1>5, LeavesBelow
  <2>1. ASSUME Exact(v), NEW f \in KeyedLeaves[v] PROVE f.value \in Contents /\ Exact(f.value)
    <3>0. PICK k \in DOMAIN v.val :
            \E l \in KeyedLeaves[v.val[k]] : f = [keys |-> <<k>> \o l.keys, value |-> l.value]
      BY <2>0
    <3>1. PICK l \in KeyedLeaves[v.val[k]] : f = [keys |-> <<k>> \o l.keys, value |-> l.value]
      BY <3>0
    <3>2. v.val[k] \in Contents /\ Depth[v.val[k]] < Depth[v] /\ Exact(v.val[k])
      BY <1>5, <2>1, Branch, ExactInside
    <3>3. f.value = l.value
      BY <3>1
    <3> QED BY <1>3, <3>2, <3>3
  <2> QED BY <2>1, <1>2
<1> QED BY <1>4, <1>5

-----------------------------------------------------------------------------
\* Keys without dots, and the paths of them.
Undotted == {keys \in Seq(PathSet) : \A i \in DOMAIN keys : Len(keys[i]) = 1}

LEMMA PathOfType ==
    ASSUME NEW keys \in Undotted
    PROVE  PathOf(keys) \in Seq(KeyParts) /\ Len(PathOf(keys)) = Len(keys)
<1>1. keys \in Seq(PathSet) /\ DOMAIN keys = 1..Len(keys) /\ Len(keys) \in Nat
  BY DEF Undotted
<1>2. \A i \in 1..Len(keys) : keys[i] \in Seq(KeyParts) /\ Len(keys[i]) = 1
  BY <1>1, SMTT(30) DEF Undotted, PathSet
<1>3. \A i \in 1..Len(keys) : keys[i][1] \in KeyParts
  BY <1>2
<1> QED
  BY <1>1, <1>3 DEF PathOf

LEMMA PathsOfUndotted ==
    ASSUME NEW keys \in Undotted, NEW other \in Undotted, PathOf(keys) = PathOf(other)
    PROVE  keys = other
<1>1. /\ keys \in Seq(PathSet) /\ DOMAIN keys = 1..Len(keys) /\ Len(keys) \in Nat
      /\ other \in Seq(PathSet) /\ DOMAIN other = 1..Len(other) /\ Len(other) \in Nat
  BY DEF Undotted
<1>2. Len(keys) = Len(other)
  BY PathOfType
<1>3. ASSUME NEW i \in 1..Len(keys) PROVE keys[i] = other[i]
  <2>1. /\ keys[i] \in Seq(KeyParts) /\ Len(keys[i]) = 1
        /\ other[i] \in Seq(KeyParts) /\ Len(other[i]) = 1
    BY <1>1, <1>2 DEF Undotted, PathSet
  <2>2. PathOf(keys)[i] = keys[i][1] /\ PathOf(other)[i] = other[i][1]
    BY <1>1, <1>2 DEF PathOf
  <2> QED BY <2>1, <2>2, SeqEqual
<1> QED
  BY <1>1, <1>2, <1>3, SeqEqual

LEMMA FirstPart ==
    ASSUME NEW S, NEW k \in Seq(S), Len(k) = 1, NEW p \in Seq(S)
    PROVE  /\ k \o p \in Seq(S) /\ Len(k \o p) = 1 + Len(p) /\ Len(p) \in Nat
           /\ \A i \in 1..(1 + Len(p)) : (k \o p)[i] = IF i <= 1 THEN k[i] ELSE p[i - 1]
<1>1. /\ k \o p \in Seq(S) /\ Len(k \o p) = Len(k) + Len(p)
      /\ \A i \in 1..(Len(k) + Len(p)) : (k \o p)[i] = IF i <= Len(k) THEN k[i] ELSE p[i - Len(k)]
  BY ConcatProperties
<1>2. Len(p) \in Nat
  OBVIOUS
<1> DEFINE c == k \o p
           n == Len(k)
<1>3. n = 1
  OBVIOUS
<1>4. /\ c \in Seq(S) /\ Len(c) = n + Len(p)
      /\ \A i \in 1..(n + Len(p)) : c[i] = IF i <= n THEN k[i] ELSE p[i - n]
  BY <1>1
<1> HIDE DEF c, n
<1>5. /\ c \in Seq(S) /\ Len(c) = 1 + Len(p)
      /\ \A i \in 1..(1 + Len(p)) : c[i] = IF i <= 1 THEN k[i] ELSE p[i - 1]
  BY <1>3, <1>4
<1> QED
  BY <1>2, <1>5 DEF c

LEMMA FirstKey ==
    ASSUME NEW k \in PathSet, Len(k) = 1, NEW keys \in Undotted
    PROVE  /\ <<k>> \o keys \in Undotted
           /\ PathOf(<<k>> \o keys) = k \o PathOf(keys)
<1>1. keys \in Seq(PathSet) /\ DOMAIN keys = 1..Len(keys) /\ Len(keys) \in Nat
  BY DEF Undotted
<1> DEFINE c == <<k>> \o keys
<1>2. /\ c \in Seq(PathSet) /\ Len(c) = 1 + Len(keys) /\ DOMAIN c = 1..(1 + Len(keys))
      /\ \A i \in 1..(1 + Len(keys)) : c[i] = IF i <= 1 THEN k ELSE keys[i - 1]
  <2>1. <<k>> \in Seq(PathSet) /\ Len(<<k>>) = 1 /\ <<k>>[1] = k
    OBVIOUS
  <2> HIDE DEF c
  <2>2. /\ c \in Seq(PathSet) /\ Len(c) = 1 + Len(keys)
        /\ \A i \in 1..(1 + Len(keys)) : c[i] = IF i <= 1 THEN <<k>>[i] ELSE keys[i - 1]
    BY <1>1, <2>1, ConcatProperties DEF c
  <2>3. \A i \in 1..(1 + Len(keys)) : i <= 1 => i = 1
    BY <1>1
  <2> QED BY <2>1, <2>2, <2>3
<1> HIDE DEF c
<1>3. c \in Undotted
  BY <1>1, <1>2 DEF Undotted
<1>4. k \in Seq(KeyParts) /\ PathOf(keys) \in Seq(KeyParts) /\ Len(PathOf(keys)) = Len(keys)
  BY PathOfType DEF PathSet
<1> DEFINE p == k \o PathOf(keys)
<1>5. /\ p \in Seq(KeyParts) /\ Len(p) = 1 + Len(keys)
      /\ \A i \in 1..(1 + Len(keys)) : p[i] = IF i <= 1 THEN k[i] ELSE PathOf(keys)[i - 1]
  BY <1>4, FirstPart
<1>6. PathOf(c) \in Seq(KeyParts) /\ Len(PathOf(c)) = 1 + Len(keys)
  BY <1>2, <1>3, PathOfType
<1> HIDE DEF p
<1>7. ASSUME NEW i \in 1..(1 + Len(keys)) PROVE PathOf(c)[i] = p[i]
  <2>1. PathOf(c)[i] = c[i][1]
    BY <1>2 DEF PathOf
  <2>2. CASE i = 1
    BY <2>1, <2>2, <1>2, <1>5
  <2>3. CASE i # 1
    <3>1. i - 1 \in DOMAIN keys /\ ~(i <= 1)
      BY <1>1, <2>3
    <3>2. PathOf(keys)[i - 1] = keys[i - 1][1]
      BY <3>1 DEF PathOf
    <3> QED BY <2>1, <3>1, <3>2, <1>2, <1>5
  <2> QED BY <2>2, <2>3
<1>8. PathOf(c) = p
  BY <1>5, <1>6, <1>7, SeqEqual
<1> QED
  BY <1>3, <1>8 DEF c, p

LEMMA FirstParts ==
    ASSUME NEW k \in PathSet, NEW l \in PathSet, Len(k) = 1, Len(l) = 1,
           NEW p \in Seq(KeyParts), NEW q \in Seq(KeyParts), k \o p = l \o q
    PROVE  k = l /\ p = q
<1>1. k \in Seq(KeyParts) /\ l \in Seq(KeyParts)
  BY DEF PathSet
<1>2. /\ Len(k \o p) = 1 + Len(p) /\ Len(l \o q) = 1 + Len(q) /\ Len(p) \in Nat /\ Len(q) \in Nat
      /\ \A i \in 1..(1 + Len(p)) : (k \o p)[i] = IF i <= 1 THEN k[i] ELSE p[i - 1]
      /\ \A i \in 1..(1 + Len(q)) : (l \o q)[i] = IF i <= 1 THEN l[i] ELSE q[i - 1]
  BY <1>1, FirstPart
<1> DEFINE c == k \o p
<1>3. /\ 1 + Len(p) = 1 + Len(q)
      /\ \A i \in 1..(1 + Len(p)) : c[i] = IF i <= 1 THEN k[i] ELSE p[i - 1]
      /\ \A i \in 1..(1 + Len(p)) : c[i] = IF i <= 1 THEN l[i] ELSE q[i - 1]
  BY <1>2
<1> HIDE DEF c
<1>4. Len(p) = Len(q)
  BY <1>2, <1>3
<1>5. k[1] = l[1]
  <2>1. 1 \in 1..(1 + Len(p)) /\ 1 <= 1
    BY <1>2
  <2> QED BY <1>3, <2>1
<1>6. ASSUME NEW i \in 1..Len(p) PROVE p[i] = q[i]
  <2>1. i + 1 \in 1..(1 + Len(p)) /\ ~(i + 1 <= 1) /\ (i + 1) - 1 = i
    BY <1>2
  <2> QED BY <1>3, <2>1
<1>7. k = l
  BY <1>1, <1>5, SeqEqual
<1>8. p = q
  BY <1>4, <1>6, SeqEqual
<1> QED BY <1>7, <1>8

-----------------------------------------------------------------------------
LEMMA FirstPartsOfAll ==
    \A k, l \in PathSet, p, q \in Seq(KeyParts) :
        Len(k) = 1 /\ Len(l) = 1 /\ k \o p = l \o q => k = l /\ p = q
  BY FirstParts, ZenonT(30)

UndottedLeaves(K) == \A f \in K : f.keys \in Undotted

LEMMA DotlessLeaves ==
    ASSUME NEW v \in Contents, Dotless(v)
    PROVE  UndottedLeaves(KeyedLeaves[v])
<1>1. KeyedLeaves[v] \in SUBSET KeyedType
  BY KeyedDefined
<1> QED
  BY <1>1 DEF UndottedLeaves, Undotted, KeyedType, Dotless

\* What is below a branch has no dots if the branch has none.
LEMMA DotlessInside ==
    ASSUME NEW v \in Contents, ~IsLeaf(v), Dotless(v), NEW k \in DOMAIN v.val
    PROVE  Len(k) = 1 /\ Dotless(v.val[k])
<1>1. k \in PathSet /\ v.val[k] \in Contents
  BY Branch
<1>2. KeyedLeaves[v.val[k]] \in SUBSET KeyedType /\ KeyedLeaves[v.val[k]] # {}
  BY <1>1, KeyedDefined
<1>3. ASSUME NEW l \in KeyedLeaves[v.val[k]]
      PROVE  Len(k) = 1 /\ \A i \in DOMAIN l.keys : Len(l.keys[i]) = 1
  <2> DEFINE c == <<k>> \o l.keys
  <2>1. l.keys \in Seq(PathSet)
    BY <1>2 DEF KeyedType
  <2>2. /\ c \in Seq(PathSet) /\ Len(c) = 1 + Len(l.keys) /\ Len(l.keys) \in Nat
        /\ \A i \in 1..(1 + Len(l.keys)) : c[i] = IF i <= 1 THEN <<k>>[i] ELSE l.keys[i - 1]
    <3>1. <<k>> \in Seq(PathSet) /\ Len(<<k>>) = 1
      BY <1>1
    <3> QED BY <2>1, <3>1, FirstPart
  <2>3. [keys |-> c, value |-> l.value] \in KeyedLeaves[v]
    BY LeavesBelow
  <2>4. \A i \in DOMAIN c : Len(c[i]) = 1
    BY <2>3 DEF Dotless
  <2> HIDE DEF c
  <2>5. \A i \in 1..(1 + Len(l.keys)) : Len(c[i]) = 1
    BY <2>2, <2>4
  <2>6. Len(k) = 1
    <3>1. 1 \in 1..(1 + Len(l.keys)) /\ 1 <= 1 /\ <<k>>[1] = k
      BY <2>2
    <3>2. c[1] = k
      BY <2>2, <3>1
    <3> QED BY <2>5, <3>1, <3>2
  <2>7. ASSUME NEW i \in DOMAIN l.keys PROVE Len(l.keys[i]) = 1
    <3>1. i + 1 \in 1..(1 + Len(l.keys)) /\ ~(i + 1 <= 1) /\ (i + 1) - 1 = i
      BY <2>1
    <3>2. c[i + 1] = l.keys[i]
      BY <2>2, <3>1
    <3> QED BY <2>5, <3>1, <3>2
  <2> QED BY <2>6, <2>7
<1> QED
  BY <1>2, <1>3 DEF Dotless

-----------------------------------------------------------------------------
AsWalked(f) == [path |-> PathOf(f.keys), value |-> f.value]

\* A list of leaves is one of the keyed leaves K: each once, by its path.
Corresponds(W, K) ==
    /\ \A n \in DOMAIN W : \E f \in K : W[n] = AsWalked(f)
    /\ \A f \in K : \E n \in DOMAIN W : W[n] = AsWalked(f)
    /\ \A m, n \in DOMAIN W : W[m].path = W[n].path => m = n

LEMMA LeafCorresponds ==
    ASSUME NEW v \in Contents, IsLeaf(v)
    PROVE  Corresponds(walkLeaves[v], KeyedLeaves[v])
<1>1. walkLeaves[v] = <<[path |-> <<>>, value |-> v]>>
  BY WalkDefined DEF WalkStep
<1>2. KeyedLeaves[v] = {[keys |-> <<>>, value |-> v]}
  BY KeyedDefined DEF KeyedStep
<1> DEFINE f == [keys |-> <<>>, value |-> v]
           e == [path |-> <<>>, value |-> v]
<1>3. PathOf(<<>>) = <<>>
  <2>1. <<>> \in Undotted
    BY EmptySeq DEF Undotted
  <2>2. PathOf(<<>>) \in Seq(KeyParts) /\ Len(PathOf(<<>>)) = 0
    BY <2>1, PathOfType, EmptySeq
  <2> QED BY <2>2, EmptySeq
<1>4. AsWalked(f) = e
  BY <1>3 DEF AsWalked
<1>5. walkLeaves[v] = <<e>> /\ KeyedLeaves[v] = {f}
  BY <1>1, <1>2
<1> HIDE DEF e, f
<1>6. DOMAIN <<e>> = {1} /\ <<e>>[1] = e
  OBVIOUS
<1> QED
  BY <1>4, <1>5, <1>6 DEF Corresponds

LEMMA BranchCorresponds ==
    ASSUME NEW v \in Contents, ~IsLeaf(v), Dotless(v),
           \A y \in Contents : Depth[y] < Depth[v] /\ Dotless(y) => Corresponds(walkLeaves[y], KeyedLeaves[y])
    PROVE  Corresponds(walkLeaves[v], KeyedLeaves[v])
<1> DEFINE keys == Sorted(DOMAIN v.val)
           In(i) == v.val[keys[i]]
           B == Branches(v, walkLeaves)
           W == walkLeaves[v]
<1>0. \A r : r \in KeyedLeaves[v] <=>
                \E k \in DOMAIN v.val : \E l \in KeyedLeaves[v.val[k]] :
                    r = [keys |-> <<k>> \o l.keys, value |-> l.value]
  BY LeavesBelow
<1>1. /\ keys \in Seq(PathSet)
      /\ \A i \in DOMAIN keys : keys[i] \in DOMAIN v.val
      /\ \A k \in DOMAIN v.val : \E i \in DOMAIN keys : keys[i] = k
      /\ \A i, j \in DOMAIN keys : keys[i] = keys[j] => i = j
  BY SortedKeys
<1>2. B \in Seq(Seq(LeafType)) /\ W = FlattenSeq(B)
  BY BranchesTyped, WalkDefined
<1>3. DOMAIN B = DOMAIN keys /\ \A i \in DOMAIN keys : B[i] = WithPrefix(keys[i], walkLeaves[In(i)])
  BY SMTT(30) DEF Branches
<1> HIDE DEF keys, B
<1>4. ASSUME NEW i \in DOMAIN keys
      PROVE  /\ In(i) \in Contents /\ Corresponds(walkLeaves[In(i)], KeyedLeaves[In(i)])
             /\ UndottedLeaves(KeyedLeaves[In(i)])
             /\ keys[i] \in PathSet /\ Len(keys[i]) = 1
             /\ DOMAIN B[i] = DOMAIN walkLeaves[In(i)]
             /\ \A j \in DOMAIN B[i] :
                    /\ walkLeaves[In(i)][j].path \in Seq(KeyParts)
                    /\ B[i][j] \in LeafType
                    /\ B[i][j].path = keys[i] \o walkLeaves[In(i)][j].path
                    /\ B[i][j].value = walkLeaves[In(i)][j].value
  <2>1. keys[i] \in DOMAIN v.val
    BY <1>1
  <2>2. In(i) \in Contents /\ Depth[In(i)] < Depth[v] /\ keys[i] \in PathSet /\ keys[i] \in Seq(KeyParts)
    BY <2>1, Branch DEF PathSet
  <2>3. Len(keys[i]) = 1 /\ Dotless(In(i))
    BY <2>1, DotlessInside
  <2>4. walkLeaves[In(i)] \in Seq(LeafType)
    BY <2>2, WalkDefined
  <2>5. \A j \in DOMAIN walkLeaves[In(i)] : walkLeaves[In(i)][j].path \in Seq(KeyParts)
    <3>1. \A j \in DOMAIN walkLeaves[In(i)] : walkLeaves[In(i)][j] \in LeafType
      BY <2>4
    <3> QED BY <3>1 DEF LeafType
  <2>6. B[i] \in Seq(LeafType)
    BY <1>2, <1>3
  <2>7. \A j \in DOMAIN B[i] : B[i][j] \in LeafType
    BY <2>6
  <2>8. Corresponds(walkLeaves[In(i)], KeyedLeaves[In(i)]) /\ UndottedLeaves(KeyedLeaves[In(i)])
    BY <2>2, <2>3, DotlessLeaves, SMTT(30)
  <2>9. /\ DOMAIN B[i] = DOMAIN walkLeaves[In(i)]
        /\ \A j \in DOMAIN walkLeaves[In(i)] :
                /\ B[i][j].path = keys[i] \o walkLeaves[In(i)][j].path
                /\ B[i][j].value = walkLeaves[In(i)][j].value
    <3> DEFINE leaves == walkLeaves[In(i)]
               key == keys[i]
    <3>1. B[i] = WithPrefix(key, leaves)
      BY <1>3
    <3>2. key \in Seq(KeyParts) /\ leaves \in Seq(LeafType)
      BY <2>2, <2>4
    <3> HIDE DEF leaves, key
    <3>3. /\ DOMAIN WithPrefix(key, leaves) = DOMAIN leaves
          /\ \A n \in DOMAIN leaves :
                /\ WithPrefix(key, leaves)[n].path = key \o leaves[n].path
                /\ WithPrefix(key, leaves)[n].value = leaves[n].value
      BY <3>2, Prefixed
    <3> QED BY <3>1, <3>3 DEF leaves, key
  <2> QED
    BY <2>2, <2>3, <2>5, <2>7, <2>8, <2>9
<1> HIDE DEF In
<1>5. ASSUME NEW i \in DOMAIN keys, NEW j \in DOMAIN B[i], NEW l \in KeyedLeaves[In(i)],
             walkLeaves[In(i)][j] = AsWalked(l)
      PROVE  B[i][j] = AsWalked([keys |-> <<keys[i]>> \o l.keys, value |-> l.value])
  <2> DEFINE c == <<keys[i]>> \o l.keys
  <2>1. l.keys \in Undotted
    BY <1>4 DEF UndottedLeaves
  <2>2. PathOf(c) = keys[i] \o PathOf(l.keys)
    BY <1>4, <2>1, FirstKey
  <2> HIDE DEF c
  <2>3. AsWalked([keys |-> c, value |-> l.value]) = [path |-> PathOf(c), value |-> l.value]
    BY DEF AsWalked
  <2>4. B[i][j].path = PathOf(c) /\ B[i][j].value = l.value
    BY <1>4, <1>5, <2>2 DEF AsWalked
  <2>5. B[i][j] \in LeafType
    BY <1>4
  <2>6. B[i][j] = [path |-> PathOf(c), value |-> l.value]
    BY <2>4, <2>5 DEF LeafType
  <2> QED BY <2>3, <2>6 DEF c
<1>6. ASSUME NEW i \in DOMAIN keys, NEW j \in DOMAIN B[i], NEW m \in DOMAIN keys, NEW n \in DOMAIN B[m],
             B[i][j].path = B[m][n].path
      PROVE  i = m /\ j = n
  <2>1. keys[i] \o walkLeaves[In(i)][j].path = keys[m] \o walkLeaves[In(m)][n].path
    BY <1>4, <1>6
  <2>2. keys[i] = keys[m] /\ walkLeaves[In(i)][j].path = walkLeaves[In(m)][n].path
    <3>1. /\ keys[i] \in PathSet /\ Len(keys[i]) = 1 /\ walkLeaves[In(i)][j].path \in Seq(KeyParts)
          /\ keys[m] \in PathSet /\ Len(keys[m]) = 1 /\ walkLeaves[In(m)][n].path \in Seq(KeyParts)
      BY <1>4
    <3> DEFINE k == keys[i]
               l == keys[m]
               p == walkLeaves[In(i)][j].path
               q == walkLeaves[In(m)][n].path
    <3>2. /\ k \in PathSet /\ Len(k) = 1 /\ p \in Seq(KeyParts)
          /\ l \in PathSet /\ Len(l) = 1 /\ q \in Seq(KeyParts)
          /\ k \o p = l \o q
      BY <2>1, <3>1
    <3> HIDE DEF k, l, p, q
    <3>3. k = l /\ p = q
      BY <3>2, FirstPartsOfAll
    <3> QED BY <3>3 DEF k, l, p, q
  <2>3. i = m
    BY <1>1, <2>2
  <2>4. j = n
    BY <2>2, <2>3, <1>4 DEF Corresponds
  <2> QED BY <2>3, <2>4
<1>7. Distinct(B)
  BY <1>3, <1>6 DEF Distinct
<1>8. /\ W \in Seq(LeafType)
      /\ \A m \in DOMAIN W : \E i \in DOMAIN B : \E j \in DOMAIN B[i] : W[m] = B[i][j]
      /\ \A i \in DOMAIN B : \A j \in DOMAIN B[i] : \E m \in DOMAIN W : W[m] = B[i][j]
      /\ \A l, m \in DOMAIN W : W[l] = W[m] => l = m
  BY <1>2, <1>7, Flattened
<1> HIDE DEF W
<1>9. ASSUME NEW n \in DOMAIN W PROVE \E f \in KeyedLeaves[v] : W[n] = AsWalked(f)
  <2>1. PICK i \in DOMAIN keys : \E j \in DOMAIN B[i] : W[n] = B[i][j]
    BY <1>3, <1>8
  <2>2. PICK j \in DOMAIN B[i] : W[n] = B[i][j]
    BY <2>1
  <2>3. PICK l \in KeyedLeaves[In(i)] : walkLeaves[In(i)][j] = AsWalked(l)
    BY <1>4 DEF Corresponds
  <2>4. [keys |-> <<keys[i]>> \o l.keys, value |-> l.value] \in KeyedLeaves[v]
    <3>1. keys[i] \in DOMAIN v.val /\ l \in KeyedLeaves[v.val[keys[i]]]
      BY <1>1 DEF In
    <3> QED BY <1>0, <3>1
  <2> QED BY <2>2, <2>3, <2>4, <1>5
<1>10. ASSUME NEW f \in KeyedLeaves[v] PROVE \E n \in DOMAIN W : W[n] = AsWalked(f)
  <2>1. PICK k \in DOMAIN v.val : \E l \in KeyedLeaves[v.val[k]] :
            f = [keys |-> <<k>> \o l.keys, value |-> l.value]
    BY <1>0
  <2>2. PICK i \in DOMAIN keys : keys[i] = k
    BY <1>1
  <2>3. PICK l \in KeyedLeaves[In(i)] : f = [keys |-> <<keys[i]>> \o l.keys, value |-> l.value]
    BY <2>1, <2>2 DEF In
  <2>4. PICK j \in DOMAIN B[i] : walkLeaves[In(i)][j] = AsWalked(l)
    BY <1>4 DEF Corresponds
  <2>5. B[i][j] = AsWalked(f)
    BY <1>5, <2>3, <2>4
  <2> QED BY <1>3, <1>8, <2>5
<1>11. ASSUME NEW l \in DOMAIN W, NEW m \in DOMAIN W, W[l].path = W[m].path PROVE l = m
  <2>1. PICK i \in DOMAIN keys : \E j \in DOMAIN B[i] : W[l] = B[i][j]
    BY <1>3, <1>8
  <2>2. PICK j \in DOMAIN B[i] : W[l] = B[i][j]
    BY <2>1
  <2>3. PICK p \in DOMAIN keys : \E q \in DOMAIN B[p] : W[m] = B[p][q]
    BY <1>3, <1>8
  <2>4. PICK q \in DOMAIN B[p] : W[m] = B[p][q]
    BY <2>3
  <2>5. i = p /\ j = q
    BY <2>2, <2>4, <1>6, <1>11
  <2> QED BY <2>2, <2>4, <2>5, <1>8
<1> QED
  BY <1>9, <1>10, <1>11 DEF Corresponds, W

\* The walk lists each leaf of a document once, at its path.
LEMMA WalkCorresponds ==
    \A v \in Contents : Dotless(v) => Corresponds(walkLeaves[v], KeyedLeaves[v])
<1> USE DepthType
<1> DEFINE Right(v) == Dotless(v) => Corresponds(walkLeaves[v], KeyedLeaves[v])
           Bad == {n \in Nat : \E v \in Contents : Depth[v] = n /\ ~Right(v)}
<1> SUFFICES ASSUME Bad # {} PROVE FALSE
  OBVIOUS
<1>1. PICK n \in Bad : \A k \in Bad : n <= k
  BY Least
<1>2. PICK v \in Contents : Depth[v] = n /\ ~Right(v)
  BY <1>1
<1>3. ASSUME NEW y \in Contents, Depth[y] < Depth[v] PROVE Right(y)
  <2>1. Depth[y] \in Nat /\ n \in Nat /\ Depth[y] < n
    BY <1>1, <1>2, <1>3
  <2>2. Depth[y] \notin Bad
    <3> HIDE DEF Bad
    <3> QED BY <1>1, <2>1
  <2> QED BY <2>1, <2>2
<1>4. \A y \in Contents : Depth[y] < Depth[v] /\ Dotless(y) => Corresponds(walkLeaves[y], KeyedLeaves[y])
  BY <1>3
<1> QED
  BY <1>2, <1>4, LeafCorresponds, BranchCorresponds

-----------------------------------------------------------------------------
(***************************************************************************)
(* The comparison: what it counts and lists, by the keys of the leaves.    *)
(***************************************************************************)

\* The keys of a list of leaves: each leaf of K at one place.
KeysAt(kf, W, K) ==
    /\ kf \in [DOMAIN W -> {f.keys : f \in K}]
    /\ \A m, n \in DOMAIN W : kf[m] = kf[n] => m = n
    /\ \A f \in K : \E n \in DOMAIN W : kf[n] = f.keys
    /\ \A n \in DOMAIN W : kf[n] \in Undotted /\ W[n].path = PathOf(kf[n])
    /\ \A n \in DOMAIN W : \E f \in K : f.keys = kf[n] /\ f.value = W[n].value
    /\ \A n \in DOMAIN W : \A f \in K : f.keys = kf[n] => f.value = W[n].value

LEMMA KeysOfLeaves ==
    ASSUME NEW W, NEW K, Corresponds(W, K), UndottedLeaves(K)
    PROVE  \E kf : KeysAt(kf, W, K)
<1> DEFINE leaf(n) == CHOOSE f \in K : W[n] = AsWalked(f)
           kf == [n \in DOMAIN W |-> leaf(n).keys]
<1>0. \A n \in DOMAIN W : leaf(n) \in K /\ W[n] = AsWalked(leaf(n))
  BY DEF Corresponds
<1> HIDE DEF leaf
<1>1. ASSUME NEW n \in DOMAIN W
      PROVE  /\ leaf(n) \in K /\ leaf(n).keys \in Undotted
             /\ W[n].path = PathOf(leaf(n).keys) /\ W[n].value = leaf(n).value
  BY <1>0 DEF AsWalked, UndottedLeaves
<1>2. \A f \in K : f.keys \in Undotted /\ \E n \in DOMAIN W : W[n].path = PathOf(f.keys) /\ W[n].value = f.value
  BY DEF Corresponds, AsWalked, UndottedLeaves
<1>3. \A m, n \in DOMAIN W : W[m].path = W[n].path => m = n
  BY DEF Corresponds
<1>4. \A f \in K, n \in DOMAIN W : PathOf(f.keys) = W[n].path => f.keys = kf[n]
  BY <1>1, <1>2, PathsOfUndotted
<1>5. \A n \in DOMAIN W : kf[n] = leaf(n).keys
  OBVIOUS
<1>6. kf \in [DOMAIN W -> {f.keys : f \in K}]
  BY <1>1
<1> HIDE DEF kf
<1>7. \A m, n \in DOMAIN W : kf[m] = kf[n] => m = n
  BY <1>1, <1>3, <1>5
<1>8. \A f \in K : \E n \in DOMAIN W : kf[n] = f.keys
  BY <1>2, <1>4
<1>9. \A n \in DOMAIN W : \A f \in K : f.keys = kf[n] => f.value = W[n].value
  BY <1>1, <1>2, <1>3, <1>5
<1>10. \A n \in DOMAIN W : kf[n] \in Undotted /\ W[n].path = PathOf(kf[n])
  BY <1>1, <1>5
<1>11. \A n \in DOMAIN W : \E f \in K : f.keys = kf[n] /\ f.value = W[n].value
  BY <1>1, <1>5
<1>12. KeysAt(kf, W, K)
  BY <1>6, <1>7, <1>8, <1>9, <1>10, <1>11 DEF KeysAt
<1> QED BY <1>12

\* What is observed at a path is the value of the one leaf that has it.
LEMMA ByPathIs ==
    ASSUME NEW V \in Seq(LeafType), \A m, n \in DOMAIN V : V[m].path = V[n].path => m = n
    PROVE  /\ DOMAIN ByPath(V) = {V[m].path : m \in DOMAIN V}
           /\ \A m \in DOMAIN V : ByPath(V)[V[m].path] = V[m].value
<1>1. DOMAIN ByPath(V) = {V[m].path : m \in DOMAIN V}
  BY DEF ByPath
<1>2. ASSUME NEW m \in DOMAIN V PROVE ByPath(V)[V[m].path] = V[m].value
  <2> DEFINE At(i, p) == V[i].path = p /\ \A j \in DOMAIN V : V[j].path = p => j <= i
             c == CHOOSE i \in DOMAIN V : At(i, V[m].path)
  <2>1. DOMAIN V = 1..Len(V) /\ Len(V) \in Nat
    OBVIOUS
  <2>2. At(m, V[m].path)
    BY <2>1
  <2>3. c \in DOMAIN V /\ At(c, V[m].path)
    BY <2>2
  <2>4. c = m
    BY <2>3
  <2>5. ByPath(V)[V[m].path] = V[c].value
    BY DEF ByPath
  <2> QED BY <2>4, <2>5
<1> QED BY <1>1, <1>2

-----------------------------------------------------------------------------
\* The places that the comparison counts, of the leaves W with what is observed.
InSync(W, observed) ==
    {n \in DOMAIN W : W[n].path \in DOMAIN observed /\ valuesEqual[<<W[n].value, observed[W[n].path]>>]}
NotObserved(W, observed) == {n \in DOMAIN W : W[n].path \notin DOMAIN observed}
Drifted(W, observed) ==
    {n \in DOMAIN W : W[n].path \in DOMAIN observed /\ ~valuesEqual[<<W[n].value, observed[W[n].path]>>]}
Earlier(W, S) ==
    {nm \in S \X S : \/ PathBefore(W[nm[1]].path, W[nm[2]].path)
                     \/ W[nm[1]].path = W[nm[2]].path /\ nm[1] < nm[2]}
Shown(n) == IF n > MaxDriftEntries THEN MaxDriftEntries ELSE n

PathsAt(W, places) == {W[n].path : n \in places}
Listing(W, observed, drifted) ==
    LET order == InOrder(drifted, Earlier(W, drifted))
    IN  [i \in 1..Shown(Cardinality(drifted)) |->
            redactEntry(W[order[i]].path, W[order[i]].value, observed[W[order[i]].path])]

LEMMA DiffIs ==
    ASSUME NEW fp, NEW ap
    PROVE  LET W == walkLeaves[fp]
               observed == ByPath(walkLeaves[ap])
               drifted  == Drifted(W, observed)
               r        == Diff(fp, ap)
           IN  /\ r.total = Len(W)
               /\ r.inSync = Cardinality(InSync(W, observed))
               /\ r.notObserved = Cardinality(NotObserved(W, observed))
               /\ r.drift = Listing(W, observed, drifted)
               /\ r.more = Cardinality(drifted) - Shown(Cardinality(drifted))
               /\ r.observedOnly = Cardinality(DOMAIN observed \ PathsAt(W, DOMAIN W))
  BY DEF Diff, InSync, NotObserved, Drifted, Earlier, Shown, Listing, PathsAt

\* The places are those in sync, those of nothing observed and the drifted ones.
LEMMA PlacesAreCounted ==
    ASSUME NEW W \in Seq(LeafType), NEW observed
    PROVE  LET S == InSync(W, observed)
               N == NotObserved(W, observed)
               D == Drifted(W, observed)
           IN  /\ IsFiniteSet(S) /\ IsFiniteSet(N) /\ IsFiniteSet(D)
               /\ Cardinality(S) \in Nat /\ Cardinality(N) \in Nat /\ Cardinality(D) \in Nat
               /\ Len(W) = Cardinality(S) + Cardinality(N) + Cardinality(D)
<1> DEFINE S == InSync(W, observed)
           N == NotObserved(W, observed)
           D == Drifted(W, observed)
<1>1. DOMAIN W = 1..Len(W) /\ Len(W) \in Nat
  OBVIOUS
<1>2. IsFiniteSet(DOMAIN W) /\ Cardinality(DOMAIN W) = Len(W)
  BY <1>1, FS_Interval
<1>3. /\ S \subseteq DOMAIN W /\ N \subseteq DOMAIN W /\ D \subseteq DOMAIN W
      /\ DOMAIN W = (S \cup N) \cup D /\ S \cap N = {} /\ (S \cup N) \cap D = {}
  BY DEF InSync, NotObserved, Drifted
<1> HIDE DEF S, N, D
<1>4. IsFiniteSet(S) /\ IsFiniteSet(N) /\ IsFiniteSet(D)
  BY <1>2, <1>3, FS_Subset
<1>5. Cardinality(S) \in Nat /\ Cardinality(N) \in Nat /\ Cardinality(D) \in Nat
  BY <1>4, FS_CardinalityType
<1>6. Cardinality({}) = 0
  BY FS_EmptySet
<1>7. IsFiniteSet(S \cup N) /\ Cardinality(S \cup N) = Cardinality(S) + Cardinality(N) - Cardinality(S \cap N)
  BY <1>4, FS_Union
<1>8. Cardinality((S \cup N) \cup D)
        = Cardinality(S \cup N) + Cardinality(D) - Cardinality((S \cup N) \cap D)
  BY <1>4, <1>7, FS_Union
<1>9. Cardinality(S \cap N) = 0 /\ Cardinality((S \cup N) \cap D) = 0
  BY <1>3, <1>6
<1>10. Cardinality(DOMAIN W) = Cardinality((S \cup N) \cup D)
  BY <1>3
<1>11. Len(W) = Cardinality(S) + Cardinality(N) + Cardinality(D)
  <2> DEFINE s == Cardinality(S)
             n == Cardinality(N)
             d == Cardinality(D)
             both == Cardinality(S \cup N)
  <2>1. both = s + n - 0 /\ Len(W) = both + d - 0 /\ s \in Nat /\ n \in Nat /\ d \in Nat
    BY <1>2, <1>5, <1>7, <1>8, <1>9, <1>10
  <2> HIDE DEF s, n, d, both
  <2>2. Len(W) = s + n + d
    BY <2>1
  <2> QED BY <2>2 DEF s, n, d
<1> QED
  BY <1>4, <1>5, <1>11 DEF S, N, D

-----------------------------------------------------------------------------
\* What the property is about.
Comparable(fp, ap) ==
    /\ fp \in Documents /\ ap \in Documents /\ Eligible(fp, ap)
    /\ Dotless(fp) /\ Dotless(ap) /\ Exact(fp) /\ Exact(ap)

LEMMA DocumentsBranch ==
    ASSUME NEW v \in Documents, DOMAIN v.val # {}
    PROVE  v \in Contents /\ ~IsLeaf(v)
  BY DEF Documents, IsLeaf

\* The walk of a document: its leaves, by the keys at each place, all below the root.
LEMMA WalkOfDocument ==
    ASSUME NEW v \in Documents, DOMAIN v.val # {}, Dotless(v)
    PROVE  /\ walkLeaves[v] \in Seq(LeafType)
           /\ \A m, n \in DOMAIN walkLeaves[v] : walkLeaves[v][m].path = walkLeaves[v][n].path => m = n
           /\ \A n \in DOMAIN walkLeaves[v] : walkLeaves[v][n].path \in PathSet
           /\ \E kf : KeysAt(kf, walkLeaves[v], KeyedLeaves[v])
<1>1. v \in Contents /\ ~IsLeaf(v)
  BY DocumentsBranch
<1>2. Corresponds(walkLeaves[v], KeyedLeaves[v]) /\ UndottedLeaves(KeyedLeaves[v])
  BY <1>1, WalkCorresponds, DotlessLeaves
<1>3. walkLeaves[v] \in Seq(LeafType) /\ KeyedLeaves[v] \in SUBSET KeyedType
  BY <1>1, WalkDefined, KeyedDefined
<1>4. \A m, n \in DOMAIN walkLeaves[v] : walkLeaves[v][m].path = walkLeaves[v][n].path => m = n
  BY <1>2 DEF Corresponds
<1>0. \A r : r \in KeyedLeaves[v] <=>
                \E k \in DOMAIN v.val : \E l \in KeyedLeaves[v.val[k]] :
                    r = [keys |-> <<k>> \o l.keys, value |-> l.value]
  BY <1>1, LeavesBelow
<1>5. ASSUME NEW n \in DOMAIN walkLeaves[v] PROVE walkLeaves[v][n].path \in PathSet
  <2>1. PICK f \in KeyedLeaves[v] : walkLeaves[v][n] = AsWalked(f)
    BY <1>2 DEF Corresponds
  <2>3. PICK k \in DOMAIN v.val : \E l \in KeyedLeaves[v.val[k]] : f = [keys |-> <<k>> \o l.keys, value |-> l.value]
    BY <1>0
  <2>4. PICK l \in KeyedLeaves[v.val[k]] : f = [keys |-> <<k>> \o l.keys, value |-> l.value]
    BY <2>3
  <2>5. k \in PathSet /\ v.val[k] \in Contents
    BY <1>1, Branch
  <2>6. l.keys \in Seq(PathSet)
    BY <2>5, KeyedDefined DEF KeyedType
  <2>7. f.keys = <<k>> \o l.keys
    BY <2>4
  <2>8. Len(f.keys) = 1 + Len(l.keys) /\ Len(l.keys) \in Nat
    <3>1. <<k>> \in Seq(PathSet) /\ Len(<<k>>) = 1
      BY <2>5
    <3> QED BY <2>6, <2>7, <3>1, FirstPart
  <2>9. PathOf(f.keys) \in Seq(KeyParts) /\ Len(PathOf(f.keys)) = Len(f.keys)
    BY <1>2, PathOfType DEF UndottedLeaves
  <2>10. PathOf(f.keys) # <<>>
    BY <2>8, <2>9, EmptySeq
  <2> QED BY <2>1, <2>9, <2>10 DEF AsWalked, PathSet
<1>6. \E kf : KeysAt(kf, walkLeaves[v], KeyedLeaves[v])
  BY <1>2, KeysOfLeaves
<1> QED BY <1>3, <1>4, <1>5, <1>6

-----------------------------------------------------------------------------
\* The places counted, by their keys.
LEMMA PlacesByKeys ==
    ASSUME NEW fp, NEW ap, Comparable(fp, ap),
           NEW kf, KeysAt(kf, walkLeaves[fp], KeyedLeaves[fp]),
           NEW n \in DOMAIN walkLeaves[fp]
    PROVE  LET W == walkLeaves[fp]
               observed == ByPath(walkLeaves[ap])
           IN  /\ W[n].path \in DOMAIN observed <=> kf[n] \in LeavesOf(ap)
               /\ n \in Drifted(W, observed) <=> kf[n] \in Differing(fp, ap)
<1> DEFINE W == walkLeaves[fp]
           V == walkLeaves[ap]
           K == KeyedLeaves[fp]
           L == KeyedLeaves[ap]
           observed == ByPath(V)
<1>1. /\ fp \in Documents /\ DOMAIN fp.val # {} /\ Dotless(fp) /\ fp \in Contents /\ Exact(fp)
      /\ ap \in Documents /\ DOMAIN ap.val # {} /\ Dotless(ap) /\ ap \in Contents /\ Exact(ap)
  BY DEF Comparable, Eligible, Documents
<1>2. /\ V \in Seq(LeafType)
      /\ \A l, m \in DOMAIN V : V[l].path = V[m].path => l = m
  BY <1>1, WalkOfDocument
<1>3. PICK kg : KeysAt(kg, V, L)
  BY <1>1, WalkOfDocument
<1>4. /\ \A f \in K : f.value \in Contents /\ Exact(f.value)
      /\ \A g \in L : g.value \in Contents /\ Exact(g.value)
  BY <1>1, LeavesAreExact
<1>5. KeysAt(kf, W, K) /\ n \in DOMAIN W
  OBVIOUS
<1>6. LeavesOf(ap) = {g.keys : g \in L} /\ LeavesOf(fp) = {f.keys : f \in K}
  BY DEF LeavesOf
<1>7. DOMAIN observed = {V[m].path : m \in DOMAIN V} /\ \A m \in DOMAIN V : observed[V[m].path] = V[m].value
  BY <1>2, ByPathIs
<1>8. Differing(fp, ap) = {keys \in LeavesOf(fp) : \E f \in K, g \in L :
                                /\ f.keys = keys /\ g.keys = keys
                                /\ Denotes[f.value] # Denotes[g.value]}
  BY DEF Differing
<1> HIDE DEF W, V, K, L, observed
<1>9. kf[n] \in Undotted /\ W[n].path = PathOf(kf[n]) /\ kf[n] \in LeavesOf(fp)
  BY <1>5, <1>6 DEF KeysAt
<1>10. \A m \in DOMAIN V : kg[m] \in Undotted /\ V[m].path = PathOf(kg[m])
  BY <1>3 DEF KeysAt
<1>11. \A m \in DOMAIN V : W[n].path = V[m].path <=> kf[n] = kg[m]
  BY <1>9, <1>10, PathsOfUndotted
<1>12. \A m \in DOMAIN V : kg[m] \in LeavesOf(ap)
  BY <1>3, <1>6 DEF KeysAt
<1>13. \A g \in L : \E m \in DOMAIN V : kg[m] = g.keys
  BY <1>3 DEF KeysAt
<1>14. W[n].path \in DOMAIN observed <=> kf[n] \in LeavesOf(ap)
  <2>1. W[n].path \in DOMAIN observed <=> \E m \in DOMAIN V : W[n].path = V[m].path
    BY <1>7
  <2>2. kf[n] \in LeavesOf(ap) <=> \E m \in DOMAIN V : kf[n] = kg[m]
    BY <1>6, <1>12, <1>13
  <2> QED BY <2>1, <2>2, <1>11
<1>15. ASSUME NEW m \in DOMAIN V, kf[n] = kg[m]
       PROVE  n \in Drifted(W, observed) <=> kf[n] \in Differing(fp, ap)
  <2>1. observed[W[n].path] = V[m].value /\ W[n].path \in DOMAIN observed
    BY <1>7, <1>11, <1>15
  <2>2. PICK f \in K : f.keys = kf[n] /\ f.value = W[n].value
    BY <1>5 DEF KeysAt
  <2>3. PICK g \in L : g.keys = kg[m] /\ g.value = V[m].value
    BY <1>3 DEF KeysAt
  <2>4. \A f0 \in K : f0.keys = kf[n] => f0.value = W[n].value
    BY <1>5 DEF KeysAt
  <2>5. \A g0 \in L : g0.keys = kf[n] => g0.value = V[m].value
    BY <1>3, <1>15 DEF KeysAt
  <2>6. valuesEqual[<<W[n].value, V[m].value>>] <=> Denotes[W[n].value] = Denotes[V[m].value]
    <3>1. /\ W[n].value \in Contents /\ Exact(W[n].value)
          /\ V[m].value \in Contents /\ Exact(V[m].value)
      BY <1>4, <2>2, <2>3
    <3> QED BY <3>1, EqualityIsMeaning
  <2>7. n \in Drifted(W, observed) <=> Denotes[W[n].value] # Denotes[V[m].value]
    BY <1>5, <2>1, <2>6 DEF Drifted
  <2>8. kf[n] \in Differing(fp, ap) <=> Denotes[W[n].value] # Denotes[V[m].value]
    BY <1>8, <1>9, <1>15, <2>2, <2>3, <2>4, <2>5
  <2> QED BY <2>7, <2>8
<1>16. CASE ~\E m \in DOMAIN V : kf[n] = kg[m]
  <2>1. n \notin Drifted(W, observed)
    BY <1>7, <1>11, <1>16 DEF Drifted
  <2>2. kf[n] \notin Differing(fp, ap)
    BY <1>8, <1>13, <1>16
  <2> QED BY <2>1, <2>2, <1>14 DEF W, observed, V
<1>17. n \in Drifted(W, observed) <=> kf[n] \in Differing(fp, ap)
  BY <1>15, <1>16 DEF W, observed, V
<1> QED BY <1>14, <1>17 DEF W, observed, V

-----------------------------------------------------------------------------
\* As many places as keys: a part of the places and the keys at them.
LEMMA PlacesAndKeys ==
    ASSUME NEW kf, NEW P \in SUBSET DOMAIN kf, IsFiniteSet(P),
           \A m, n \in DOMAIN kf : kf[m] = kf[n] => m = n
    PROVE  /\ IsFiniteSet({kf[n] : n \in P})
           /\ Cardinality({kf[n] : n \in P}) = Cardinality(P)
<1> DEFINE f == [n \in P |-> kf[n]]
           T == {kf[n] : n \in P}
<1>1. f \in [P -> T] /\ \A m, n \in P : f[m] = f[n] => m = n
  OBVIOUS
<1>2. \A y \in T : \E n \in P : f[n] = y
  OBVIOUS
<1> HIDE DEF f, T
<1>3. IsFiniteSet(T) /\ Cardinality(T) = Cardinality(P)
  BY <1>1, <1>2, SameSize
<1> QED BY <1>3 DEF T

\* As many paths as places.
LEMMA PlacesAndPaths ==
    ASSUME NEW W, NEW P \in SUBSET DOMAIN W, IsFiniteSet(P),
           \A m, n \in DOMAIN W : W[m].path = W[n].path => m = n
    PROVE  IsFiniteSet(PathsAt(W, P)) /\ Cardinality(PathsAt(W, P)) = Cardinality(P)
<1> DEFINE f == [n \in DOMAIN W |-> W[n].path]
<1>1. {f[n] : n \in P} = {W[n].path : n \in P}
  OBVIOUS
<1>2. DOMAIN f = DOMAIN W /\ \A m, n \in DOMAIN W : f[m] = f[n] => m = n
  OBVIOUS
<1> HIDE DEF f
<1>3. IsFiniteSet({f[n] : n \in P}) /\ Cardinality({f[n] : n \in P}) = Cardinality(P)
  BY <1>2, PlacesAndKeys
<1> QED BY <1>1, <1>3 DEF PathsAt

\* What is not observed, and what only is, is counted by its keys.
LEMMA MissingCounted ==
    ASSUME NEW fp, NEW ap, Comparable(fp, ap)
    PROVE  LET W == walkLeaves[fp]
               observed == ByPath(walkLeaves[ap])
           IN  /\ Cardinality(NotObserved(W, observed)) = Cardinality(LeavesOf(fp) \ LeavesOf(ap))
               /\ Cardinality(DOMAIN observed \ PathsAt(W, DOMAIN W))
                    = Cardinality(LeavesOf(ap) \ LeavesOf(fp))
<1> DEFINE W == walkLeaves[fp]
           V == walkLeaves[ap]
           observed == ByPath(V)
           N == NotObserved(W, observed)
           M == {m \in DOMAIN V : \A n \in DOMAIN W : W[n].path # V[m].path}
<1>1. /\ fp \in Documents /\ DOMAIN fp.val # {} /\ Dotless(fp)
      /\ ap \in Documents /\ DOMAIN ap.val # {} /\ Dotless(ap)
  BY DEF Comparable, Eligible
<1>2. /\ W \in Seq(LeafType) /\ V \in Seq(LeafType)
      /\ \A l, m \in DOMAIN V : V[l].path = V[m].path => l = m
  BY <1>1, WalkOfDocument
<1>3. PICK kf : KeysAt(kf, W, KeyedLeaves[fp])
  BY <1>1, WalkOfDocument
<1>4. PICK kg : KeysAt(kg, V, KeyedLeaves[ap])
  BY <1>1, WalkOfDocument
<1>5. \A n \in DOMAIN W : W[n].path \in DOMAIN observed <=> kf[n] \in LeavesOf(ap)
  BY <1>3, PlacesByKeys
<1>6. DOMAIN observed = {V[m].path : m \in DOMAIN V}
  BY <1>2, ByPathIs
<1>7. N = {n \in DOMAIN W : W[n].path \notin DOMAIN observed}
  BY DEF NotObserved
<1> HIDE DEF W, V, observed, N
<1>8. /\ LeavesOf(fp) = {kf[n] : n \in DOMAIN W} /\ DOMAIN kf = DOMAIN W
      /\ \A m, n \in DOMAIN W : kf[m] = kf[n] => m = n
      /\ \A n \in DOMAIN W : kf[n] \in Undotted /\ W[n].path = PathOf(kf[n])
  BY <1>3 DEF KeysAt, LeavesOf
<1>9. /\ LeavesOf(ap) = {kg[m] : m \in DOMAIN V} /\ DOMAIN kg = DOMAIN V
      /\ \A m, n \in DOMAIN V : kg[m] = kg[n] => m = n
      /\ \A m \in DOMAIN V : kg[m] \in Undotted /\ V[m].path = PathOf(kg[m])
  BY <1>4 DEF KeysAt, LeavesOf
<1>10. /\ IsFiniteSet(N) /\ N \in SUBSET DOMAIN W
       /\ IsFiniteSet(M) /\ M \in SUBSET DOMAIN V
  <2>1. DOMAIN W = 1..Len(W) /\ Len(W) \in Nat /\ DOMAIN V = 1..Len(V) /\ Len(V) \in Nat
    BY <1>2
  <2>2. IsFiniteSet(DOMAIN W) /\ IsFiniteSet(DOMAIN V)
    BY <2>1, FS_Interval
  <2>3. N \in SUBSET DOMAIN W /\ M \in SUBSET DOMAIN V
    BY <1>7
  <2> QED BY <2>2, <2>3, FS_Subset
<1>11. Cardinality(N) = Cardinality(LeavesOf(fp) \ LeavesOf(ap))
  <2>1. LeavesOf(fp) \ LeavesOf(ap) = {kf[n] : n \in N}
    BY <1>5, <1>7, <1>8
  <2>2. N \in SUBSET DOMAIN kf /\ \A m, n \in DOMAIN kf : kf[m] = kf[n] => m = n
    BY <1>8, <1>10
  <2>3. Cardinality({kf[n] : n \in N}) = Cardinality(N)
    BY <2>2, <1>10, PlacesAndKeys
  <2> QED BY <2>1, <2>3
<1>12. \A m \in DOMAIN V : m \in M <=> kg[m] \notin LeavesOf(fp)
  <2>1. \A m \in DOMAIN V, n \in DOMAIN W : W[n].path = V[m].path <=> kf[n] = kg[m]
    BY <1>8, <1>9, PathsOfUndotted
  <2> QED BY <2>1, <1>8
<1>13. Cardinality(M) = Cardinality(LeavesOf(ap) \ LeavesOf(fp))
  <2>1. LeavesOf(ap) \ LeavesOf(fp) = {kg[m] : m \in M}
    BY <1>9, <1>12
  <2> HIDE DEF M
  <2>2. M \in SUBSET DOMAIN kg /\ \A m, n \in DOMAIN kg : kg[m] = kg[n] => m = n
    BY <1>9, <1>10
  <2>3. Cardinality({kg[m] : m \in M}) = Cardinality(M)
    BY <2>2, <1>10, PlacesAndKeys
  <2> QED BY <2>1, <2>3
<1>14. Cardinality(M) = Cardinality(DOMAIN observed \ PathsAt(W, DOMAIN W))
  <2>1. DOMAIN observed \ PathsAt(W, DOMAIN W) = PathsAt(V, M)
    BY <1>6 DEF PathsAt
  <2> HIDE DEF M
  <2>2. Cardinality(PathsAt(V, M)) = Cardinality(M)
    BY <1>2, <1>10, PlacesAndPaths
  <2> QED BY <2>1, <2>2
<1> QED BY <1>11, <1>13, <1>14 DEF W, V, observed, N

\* The drifted places, and the paths of what differs.
LEMMA DriftedPaths ==
    ASSUME NEW fp, NEW ap, Comparable(fp, ap)
    PROVE  LET W == walkLeaves[fp]
               D == Drifted(W, ByPath(walkLeaves[ap]))
           IN  PathsAt(W, D) = {PathOf(keys) : keys \in Differing(fp, ap)}
<1> DEFINE W == walkLeaves[fp]
           D == Drifted(W, ByPath(walkLeaves[ap]))
<1>1. fp \in Documents /\ DOMAIN fp.val # {} /\ Dotless(fp)
  BY DEF Comparable, Eligible
<1>2. PICK kf : KeysAt(kf, W, KeyedLeaves[fp])
  BY <1>1, WalkOfDocument
<1>3. \A n \in DOMAIN W : n \in D <=> kf[n] \in Differing(fp, ap)
  BY <1>2, PlacesByKeys
<1>4. D \subseteq DOMAIN W
  BY DEF Drifted
<1>5. Differing(fp, ap) \subseteq LeavesOf(fp)
  BY DEF Differing
<1> HIDE DEF W, D
<1>6. /\ LeavesOf(fp) = {kf[n] : n \in DOMAIN W}
      /\ \A n \in DOMAIN W : W[n].path = PathOf(kf[n])
  BY <1>2 DEF KeysAt, LeavesOf
<1>7. Differing(fp, ap) = {kf[n] : n \in D}
  BY <1>3, <1>4, <1>5, <1>6
<1>8. {PathOf(keys) : keys \in {kf[n] : n \in D}} = {PathOf(kf[n]) : n \in D}
  OBVIOUS
<1>9. {PathOf(kf[n]) : n \in D} = {W[n].path : n \in D}
  BY <1>4, <1>6
<1> QED BY <1>7, <1>8, <1>9 DEF W, D, PathsAt

-----------------------------------------------------------------------------
\* The places in the order of their paths.
LEMMA PlacesAreOrdered ==
    ASSUME NEW W, \A m, n \in DOMAIN W : W[m].path = W[n].path => m = n,
           \A n \in DOMAIN W : W[n].path \in PathSet /\ n \in Nat,
           NEW D \in SUBSET DOMAIN W
    PROVE  /\ Orders(Earlier(W, D), D)
           /\ \A m, n \in D : <<m, n>> \in Earlier(W, D) /\ m # n => PathBefore(W[m].path, W[n].path)
<1> DEFINE P == {W[n].path : n \in D}
           R == {pq \in P \X P : PathBefore(pq[1], pq[2])}
<1>1. \A n \in D : W[n].path \in P
  OBVIOUS
<1>2. P \in SUBSET PathSet
  OBVIOUS
<1>3. \A p, q \in P : <<p, q>> \in R <=> PathBefore(p, q)
  OBVIOUS
<1>4. Orders(R, P)
  BY <1>2, PathsAreOrdered
<1> HIDE DEF P, R
<1>5. /\ \A x, y, z \in P : PathBefore(x, y) /\ PathBefore(y, z) => PathBefore(x, z)
      /\ \A x, y \in P : x # y => PathBefore(x, y) \/ PathBefore(y, x)
      /\ \A x \in P : ~PathBefore(x, x)
  BY <1>3, <1>4 DEF Orders
<1>6. \A m, n \in D : <<m, n>> \in Earlier(W, D) <=>
            PathBefore(W[m].path, W[n].path) \/ (W[m].path = W[n].path /\ m < n)
  BY DEF Earlier
<1>7. \A m, n \in D : W[m].path = W[n].path => m = n /\ ~(m < n)
  OBVIOUS
<1>8. \A m, n \in D : <<m, n>> \in Earlier(W, D) <=> PathBefore(W[m].path, W[n].path)
  BY <1>6, <1>7
<1>9. \A x, y, z \in D : <<x, y>> \in Earlier(W, D) /\ <<y, z>> \in Earlier(W, D) => <<x, z>> \in Earlier(W, D)
  BY <1>1, <1>5, <1>8
<1>10. \A x, y \in D : x # y => <<x, y>> \in Earlier(W, D) \/ <<y, x>> \in Earlier(W, D)
  BY <1>1, <1>5, <1>7, <1>8
<1>11. \A x \in D : <<x, x>> \notin Earlier(W, D)
  BY <1>1, <1>5, <1>8
<1> QED
  BY <1>8, <1>9, <1>10, <1>11 DEF Orders

\* The first places of a list in order are those of the first paths.
ListedPaths(W, D) ==
    LET order == InOrder(D, Earlier(W, D)) IN {W[order[i]].path : i \in 1..Shown(Cardinality(D))}

LEMMA ListedFirst ==
    ASSUME NEW W, \A m, n \in DOMAIN W : W[m].path = W[n].path => m = n,
           \A n \in DOMAIN W : W[n].path \in PathSet /\ n \in Nat,
           NEW D \in SUBSET DOMAIN W, IsFiniteSet(D), NEW observed
    PROVE  LET shown   == Shown(Cardinality(D))
               listing == Listing(W, observed, D)
               listed  == ListedPaths(W, D)
           IN  /\ shown \in Nat /\ shown <= Cardinality(D)
               /\ DOMAIN listing = 1..shown /\ Len(listing) = shown
               /\ {listing[i].path : i \in 1..shown} = listed
               /\ Cardinality(listed) = shown /\ listed \subseteq PathsAt(W, D)
               /\ \A p \in listed, q \in PathsAt(W, D) \ listed : PathBefore(p, q)
<1> DEFINE order  == InOrder(D, Earlier(W, D))
           c == Cardinality(D)
           shown  == Shown(c)
           listing == Listing(W, observed, D)
           listed == {W[order[i]].path : i \in 1..shown}
<1>1. /\ Orders(Earlier(W, D), D)
      /\ \A m, n \in D : <<m, n>> \in Earlier(W, D) /\ m # n => PathBefore(W[m].path, W[n].path)
  BY PlacesAreOrdered
<1>2. /\ order \in [1..c -> D]
      /\ \A i, j \in 1..c : i < j => <<order[i], order[j]>> \in Earlier(W, D)
      /\ \A x \in D : \E i \in 1..c : order[i] = x
      /\ \A i, j \in 1..c : order[i] = order[j] => i = j
  BY <1>1, InOrderLists
<1>3. c \in Nat /\ shown \in Nat /\ shown <= c
  <2>1. c \in Nat
    BY FS_CardinalityType
  <2> HIDE DEF c
  <2> QED BY <2>1, OrderAssumption DEF Shown
<1>4. ListedPaths(W, D) = listed
  BY DEF ListedPaths
<1>5. listing = [i \in 1..shown |-> redactEntry(W[order[i]].path, W[order[i]].value, observed[W[order[i]].path])]
  BY DEF Listing
<1> HIDE DEF order, c, shown, listing
<1>6. \A i \in 1..shown : i \in 1..c /\ order[i] \in D
  BY <1>2, <1>3
<1>7. Cardinality(listed) = shown
  <2> DEFINE f == [i \in 1..shown |-> W[order[i]].path]
  <2>1. f \in [1..shown -> listed] /\ \A y \in listed : \E i \in 1..shown : f[i] = y
    OBVIOUS
  <2>2. \A i, j \in 1..shown : f[i] = f[j] => i = j
    BY <1>2, <1>6
  <2>3. IsFiniteSet(1..shown) /\ Cardinality(1..shown) = shown
    BY <1>3, FS_Interval
  <2> HIDE DEF f, listed
  <2> QED BY <2>1, <2>2, <2>3, SameSize
<1>8. listed \subseteq PathsAt(W, D)
  BY <1>6 DEF PathsAt
<1>9. ASSUME NEW p \in listed, NEW q \in PathsAt(W, D) \ listed PROVE PathBefore(p, q)
  <2>1. PICK i \in 1..shown : p = W[order[i]].path
    OBVIOUS
  <2>2. PICK n \in D : q = W[n].path
    BY DEF PathsAt
  <2>3. PICK j \in 1..c : order[j] = n
    BY <1>2
  <2>4. j \notin 1..shown
    BY <2>2, <2>3
  <2>5. i < j /\ i \in 1..c
    BY <1>3, <2>4
  <2>6. <<order[i], order[j]>> \in Earlier(W, D) /\ order[i] # order[j] /\ order[i] \in D
    BY <1>2, <2>5
  <2> QED BY <1>1, <2>1, <2>2, <2>3, <2>6
<1>10. \A path, desired, actual : redactEntry(path, desired, actual).path = path
  BY DEF redactEntry
<1>11. DOMAIN listing = 1..shown /\ Len(listing) = shown
  BY <1>3, <1>5
<1>12. \A i \in 1..shown : listing[i].path = W[order[i]].path
  BY <1>5, <1>10
<1>13. {listing[i].path : i \in 1..shown} = listed
  BY <1>12
<1> HIDE DEF listed
<1>14. ListedPaths(W, D) = listed
  BY <1>4 DEF listed, order, shown, c
<1> QED BY <1>3, <1>7, <1>8, <1>9, <1>11, <1>13, <1>14 DEF c, shown, listing

\* The comparison of two documents, of any fields and any values: it reports what
\* differs, each field once, and the first of them.
THEOREM DifferencesFound ==
    ASSUME NEW fp \in Documents, NEW ap \in Documents, Eligible(fp, ap)
    PROVE  DriftIsDifference(fp, ap, Diff(fp, ap))
<1> SUFFICES ASSUME Comparable(fp, ap) PROVE DriftIsDifference(fp, ap, Diff(fp, ap))
  BY DEF DriftIsDifference, Comparable
<1> DEFINE W == walkLeaves[fp]
           observed == ByPath(walkLeaves[ap])
           D == Drifted(W, observed)
           shown == Shown(Cardinality(D))
           r == Diff(fp, ap)
           all == {PathOf(keys) : keys \in Differing(fp, ap)}
           listed == ListedPaths(W, D)
<1>1. fp \in Documents /\ DOMAIN fp.val # {} /\ Dotless(fp)
  BY DEF Comparable, Eligible
<1>2. /\ W \in Seq(LeafType)
      /\ \A m, n \in DOMAIN W : W[m].path = W[n].path => m = n
      /\ \A n \in DOMAIN W : W[n].path \in PathSet /\ n \in Nat
  <2>1. W \in Seq(LeafType)
    BY <1>1, WalkOfDocument
  <2>2. DOMAIN W = 1..Len(W)
    BY <2>1
  <2>3. \A n \in DOMAIN W : n \in Nat
    BY <2>2
  <2> QED BY <1>1, <2>1, <2>3, WalkOfDocument
<1>3. /\ r.total = Len(W)
      /\ r.inSync = Cardinality(InSync(W, observed))
      /\ r.notObserved = Cardinality(NotObserved(W, observed))
      /\ r.drift = Listing(W, observed, D)
      /\ r.more = Cardinality(D) - shown
      /\ r.observedOnly = Cardinality(DOMAIN observed \ PathsAt(W, DOMAIN W))
  BY DiffIs
<1>4. /\ IsFiniteSet(D) /\ Cardinality(D) \in Nat
      /\ Cardinality(InSync(W, observed)) \in Nat /\ Cardinality(NotObserved(W, observed)) \in Nat
      /\ Len(W) = Cardinality(InSync(W, observed)) + Cardinality(NotObserved(W, observed)) + Cardinality(D)
  BY <1>2, PlacesAreCounted
<1>5. /\ Cardinality(NotObserved(W, observed)) = Cardinality(LeavesOf(fp) \ LeavesOf(ap))
      /\ Cardinality(DOMAIN observed \ PathsAt(W, DOMAIN W)) = Cardinality(LeavesOf(ap) \ LeavesOf(fp))
  BY MissingCounted
<1>6. PathsAt(W, D) = all
  BY DriftedPaths
<1>7. D \in SUBSET DOMAIN W
  BY DEF Drifted
<1> HIDE DEF W, observed, D, all, r
<1>8. Cardinality(all) = Cardinality(D)
  BY <1>2, <1>4, <1>6, <1>7, PlacesAndPaths
<1>9. /\ shown \in Nat /\ shown <= Cardinality(D)
      /\ DOMAIN r.drift = 1..shown /\ Len(r.drift) = shown
      /\ {r.drift[i].path : i \in 1..shown} = listed
      /\ Cardinality(listed) = shown /\ listed \subseteq PathsAt(W, D)
      /\ \A p \in listed, q \in PathsAt(W, D) \ listed : PathBefore(p, q)
  BY <1>2, <1>3, <1>4, <1>7, ListedFirst, SMTT(30)
<1> HIDE DEF shown, listed
<1>10. {r.drift[i].path : i \in DOMAIN r.drift} = listed
  BY <1>9
<1>11. listed \subseteq all /\ Len(r.drift) = Cardinality(listed)
       /\ \A p \in listed, q \in all \ listed : PathBefore(p, q)
  BY <1>6, <1>9
<1>12. Len(r.drift) + r.more = Cardinality(all)
  BY <1>3, <1>4, <1>8, <1>9
<1>13. r.notObserved = Cardinality(LeavesOf(fp) \ LeavesOf(ap))
  BY <1>3, <1>5
<1>14. r.total = r.inSync + r.notObserved + Cardinality(all)
  BY <1>3, <1>4, <1>8
<1>15. r.observedOnly = Cardinality(LeavesOf(ap) \ LeavesOf(fp))
  BY <1>3, <1>5
<1>16. DriftIsDifference(fp, ap, r)
  BY <1>10, <1>11, <1>12, <1>13, <1>14, <1>15 DEF DriftIsDifference, all
<1> QED BY <1>16 DEF r

\* Of every two documents that are compared, exactly the fields that differ are
\* reported (DriftReported; crossplanedrift.go:73-125).
THEOREM DriftsReported == MatchingSpec => []DriftReported
<1> DEFINE Inv == question \in Questions /\ DriftReported
<1>1. MatchingInit => Inv
  BY DEF MatchingInit, DriftReported, Answered
<1>2. ASSUME Inv, [MatchingNext]_<<question, answer>> PROVE Inv'
  <2>1. CASE EvaluateSelector
    BY <1>2, <2>1 DEF EvaluateSelector, Asked, DriftReported, Answered
  <2>2. CASE CheckCertificate
    BY <1>2, <2>2 DEF CheckCertificate, Asked, DriftReported, Answered
  <2>3. CASE CompareDocuments
    <3>1. /\ question' = question /\ question.about = "drift" /\ question \in Questions
          /\ Eligible(question.forProvider, question.atProvider)
          /\ answer' = Diff(question.forProvider, question.atProvider)
      BY <1>2, <2>3 DEF CompareDocuments, Asked
    <3>2. question \in DriftChecks
      <4>1. \A q \in Checks : q.about = "certificate"
        BY MatchingAssumption
      <4> QED BY <3>1, <4>1 DEF Questions
    <3>3. question.forProvider \in Documents /\ question.atProvider \in Documents
      BY <3>2, MatchingAssumption
    <3>4. DriftIsDifference(question.forProvider, question.atProvider, answer')
      BY <3>1, <3>3, DifferencesFound
    <3> QED
      BY <3>1, <3>4 DEF DriftReported
  <2>4. CASE UNCHANGED <<question, answer>>
    BY <1>2, <2>4 DEF DriftReported, Answered
  <2> QED
    BY <1>2, <2>1, <2>2, <2>3, <2>4 DEF MatchingNext
<1>3. Inv => DriftReported
  OBVIOUS
<1> QED
  BY <1>1, <1>2, <1>3, PTL DEF MatchingSpec

-----------------------------------------------------------------------------
(***************************************************************************)
(* The documents of the rendered difference: what is along a sequence of   *)
(* keys, and what setting a path changes of it.                            *)
(***************************************************************************)

\* The values after one more key.
Onward(values, key) == {w.val[key] : w \in {u \in values : u.type = "map" /\ key \in DOMAIN u.val}}

AlongTo(v, keys, k, h) ==
    h = [n \in 0..k |-> IF n = 0 THEN {v} ELSE Onward(h[n - 1], keys[n])]

LEMMA AlongDefined ==
    ASSUME NEW v, NEW keys, Len(keys) \in Nat
    PROVE  /\ Along(v, keys)[0] = {v}
           /\ \A n \in 1..Len(keys) : Along(v, keys)[n] = Onward(Along(v, keys)[n - 1], keys[n])
<1> DEFINE Without == {k \in Nat : ~\E h : AlongTo(v, keys, k, h)}
<1>1. Without = {}
  <2> SUFFICES ASSUME Without # {} PROVE FALSE
    OBVIOUS
  <2>1. PICK k \in Without : \A m \in Without : k <= m
    BY Least
  <2>2. k # 0
    <3>1. AlongTo(v, keys, 0, [n \in 0..0 |-> {v}])
      BY DEF AlongTo
    <3> QED BY <3>1
  <2>3. k - 1 \in Nat /\ k \in Nat /\ k - 1 \notin Without
    BY <2>1, <2>2
  <2>4. PICK h : AlongTo(v, keys, k - 1, h)
    BY <2>3
  <2> DEFINE g == [n \in 0..k |-> IF n = k THEN Onward(h[k - 1], keys[k]) ELSE h[n]]
  <2>5. ASSUME NEW n \in 0..k PROVE g[n] = IF n = 0 THEN {v} ELSE Onward(g[n - 1], keys[n])
    <3>1. CASE n = k
      <4>1. g[n] = Onward(h[k - 1], keys[k]) /\ g[n - 1] = h[k - 1] /\ n # 0
        BY <3>1, <2>2, <2>3
      <4> QED BY <4>1, <3>1
    <3>2. CASE n # k
      <4>1. n \in 0..(k - 1) /\ g[n] = h[n] /\ (n # 0 => g[n - 1] = h[n - 1])
        BY <3>2, <2>3
      <4>2. h[n] = IF n = 0 THEN {v} ELSE Onward(h[n - 1], keys[n])
        BY <2>4, <4>1 DEF AlongTo
      <4> QED BY <4>1, <4>2
    <3> QED BY <3>1, <3>2
  <2>6. AlongTo(v, keys, k, g)
    <3>1. g = [n \in 0..k |-> g[n]]
      OBVIOUS
    <3> HIDE DEF g
    <3> QED BY <2>5, <3>1 DEF AlongTo
  <2> QED BY <2>1, <2>6
<1>2. \E h : AlongTo(v, keys, Len(keys), h)
  BY <1>1
<1>3. Along(v, keys) = CHOOSE h : AlongTo(v, keys, Len(keys), h)
  BY DEF Along, AlongTo, Onward
<1>4. AlongTo(v, keys, Len(keys), Along(v, keys))
  BY <1>2, <1>3
<1> DEFINE a == Along(v, keys)
<1>5. a = [n \in 0..Len(keys) |-> IF n = 0 THEN {v} ELSE Onward(a[n - 1], keys[n])]
  BY <1>4 DEF AlongTo
<1> HIDE DEF a
<1>6. \A n \in 0..Len(keys) : a[n] = IF n = 0 THEN {v} ELSE Onward(a[n - 1], keys[n])
  BY <1>5, Zenon
<1>7. a[0] = {v} /\ \A n \in 1..Len(keys) : a[n] = Onward(a[n - 1], keys[n])
  BY <1>6
<1> QED BY <1>7 DEF a


\* It says only of the keys that were gone along what is there.
LEMMA AlongLocal ==
    ASSUME NEW v, NEW keys, NEW others, Len(keys) \in Nat, Len(others) \in Nat,
           NEW k \in Nat, k <= Len(keys), k <= Len(others), Agree(keys, others, k)
    PROVE  \A n \in 0..k : Along(v, keys)[n] = Along(v, others)[n]
<1> DEFINE a == Along(v, keys)
           b == Along(v, others)
           Bad == {n \in 0..k : a[n] # b[n]}
<1>1. a[0] = {v} /\ \A n \in 1..Len(keys) : a[n] = Onward(a[n - 1], keys[n])
  BY AlongDefined
<1>2. b[0] = {v} /\ \A n \in 1..Len(others) : b[n] = Onward(b[n - 1], others[n])
  BY AlongDefined
<1>3. \A n \in 1..k : keys[n] = others[n]
  BY DEF Agree
<1> HIDE DEF a, b
<1> SUFFICES ASSUME Bad # {} PROVE FALSE
  BY DEF a, b
<1>4. PICK n \in Bad : \A m \in Bad : n <= m
  <2>1. Bad \in SUBSET Nat
    OBVIOUS
  <2> HIDE DEF Bad
  <2> QED BY <2>1, Least
<1>5. n # 0 /\ n - 1 \in 0..k /\ n \in 1..k /\ n - 1 \notin Bad
  <2>1. n \in 0..k /\ a[n] # b[n]
    BY <1>4
  <2>2. n # 0
    BY <1>1, <1>2, <2>1
  <2>3. n - 1 \in 0..k /\ n - 1 < n
    BY <2>1, <2>2
  <2> QED BY <1>4, <2>1, <2>2, <2>3
<1>6. a[n - 1] = b[n - 1] /\ keys[n] = others[n] /\ n \in 1..Len(keys) /\ n \in 1..Len(others)
  BY <1>3, <1>5
<1> QED BY <1>1, <1>2, <1>4, <1>6

\* Beyond nothing there is nothing.
LEMMA NothingBeyond ==
    ASSUME NEW v, NEW keys, Len(keys) \in Nat, NEW k \in 0..Len(keys), Along(v, keys)[k] = {}
    PROVE  \A n \in k..Len(keys) : Along(v, keys)[n] = {}
<1> DEFINE a == Along(v, keys)
           Bad == {n \in k..Len(keys) : a[n] # {}}
<1>1. \A n \in 1..Len(keys) : a[n] = Onward(a[n - 1], keys[n])
  BY AlongDefined
<1> HIDE DEF a
<1> SUFFICES ASSUME Bad # {} PROVE FALSE
  BY DEF a
<1>2. PICK n \in Bad : \A m \in Bad : n <= m
  <2>1. Bad \in SUBSET Nat
    OBVIOUS
  <2> HIDE DEF Bad
  <2> QED BY <2>1, Least
<1>3. a[k] = {}
  BY DEF a
<1>4. n # k /\ n \in 1..Len(keys) /\ n - 1 \in k..Len(keys) /\ n - 1 \notin Bad
  BY <1>2, <1>3
<1>5. a[n - 1] = {}
  BY <1>4
<1>6. Onward({}, keys[n]) = {}
  BY DEF Onward
<1> QED BY <1>1, <1>2, <1>4, <1>5, <1>6

\* There is at most one value.
LEMMA OneAlong ==
    ASSUME NEW v, NEW keys, Len(keys) \in Nat
    PROVE  \A n \in 0..Len(keys) : \A x, y \in Along(v, keys)[n] : x = y
<1> DEFINE a == Along(v, keys)
           Bad == {n \in 0..Len(keys) : ~\A x, y \in a[n] : x = y}
<1>1. a[0] = {v} /\ \A n \in 1..Len(keys) : a[n] = Onward(a[n - 1], keys[n])
  BY AlongDefined
<1> HIDE DEF a
<1> SUFFICES ASSUME Bad # {} PROVE FALSE
  BY DEF a
<1>2. PICK n \in Bad : \A m \in Bad : n <= m
  <2>1. Bad \in SUBSET Nat
    OBVIOUS
  <2> HIDE DEF Bad
  <2> QED BY <2>1, Least
<1>3. n # 0 /\ n \in 1..Len(keys) /\ n - 1 \in 0..Len(keys) /\ n - 1 \notin Bad
  BY <1>1, <1>2
<1>4. \A x, y \in a[n - 1] : x = y
  BY <1>3
<1>5. \A x, y \in Onward(a[n - 1], keys[n]) : x = y
  BY <1>4 DEF Onward
<1> QED BY <1>1, <1>2, <1>3, <1>5

\* Two sequences of keys part at one of the first m, or are the same up to there.
LEMMA AgreeOrPart ==
    ASSUME NEW keys, NEW others, NEW m \in Nat
    PROVE  \/ Agree(keys, others, m)
           \/ \E j \in 1..m : Agree(keys, others, j - 1) /\ keys[j] # others[j]
<1> DEFINE Parted == {j \in 1..m : keys[j] # others[j]}
<1>1. CASE Parted = {}
  BY <1>1 DEF Agree
<1>2. CASE Parted # {}
  <2>1. PICK j \in Parted : \A i \in Parted : j <= i
    <3>1. Parted \in SUBSET Nat
      OBVIOUS
    <3> HIDE DEF Parted
    <3> QED BY <3>1, <1>2, Least
  <2>2. Agree(keys, others, j - 1)
    BY <2>1 DEF Agree
  <2> QED BY <2>1, <2>2
<1> QED BY <1>1, <1>2

-----------------------------------------------------------------------------
\* The map below a key, or a new one.
Below(doc, key) == IF key \in DOMAIN doc /\ doc[key].type = "map" THEN doc[key].val ELSE <<>>

MapsTo(doc, path, k, h) ==
    h = [n \in 1..k |-> IF n = 1 THEN doc ELSE Below(h[n - 1], <<path[n - 1]>>)]

LEMMA PathType ==
    ASSUME NEW path \in PathSet
    PROVE  /\ Len(path) \in Nat /\ Len(path) >= 1 /\ DOMAIN path = 1..Len(path)
           /\ \A n \in 1..Len(path) : path[n] \in KeyParts
<1>1. path \in Seq(KeyParts) /\ path # <<>>
  BY DEF PathSet
<1>2. Len(path) # 0
  BY <1>1, EmptySeq
<1> QED BY <1>1, <1>2

LEMMA MapsDefined ==
    ASSUME NEW doc, NEW path \in PathSet
    PROVE  LET cur == MapsAlong(doc, path) IN
           /\ cur[1] = doc
           /\ \A n \in 1..Len(path) : n # 1 => cur[n] = Below(cur[n - 1], <<path[n - 1]>>)
<1> DEFINE Without == {k \in Nat : ~\E h : MapsTo(doc, path, k, h)}
<1>1. Without = {}
  <2> SUFFICES ASSUME Without # {} PROVE FALSE
    OBVIOUS
  <2>1. PICK k \in Without : \A m \in Without : k <= m
    BY Least
  <2>2. k # 0
    <3>1. MapsTo(doc, path, 0, [n \in 1..0 |-> doc])
      BY DEF MapsTo
    <3> QED BY <3>1
  <2>3. k - 1 \in Nat /\ k \in Nat /\ k - 1 \notin Without
    BY <2>1, <2>2
  <2>4. PICK h : MapsTo(doc, path, k - 1, h)
    BY <2>3
  <2> DEFINE g == [n \in 1..k |-> IF n = k THEN IF n = 1 THEN doc ELSE Below(h[k - 1], <<path[k - 1]>>)
                                  ELSE h[n]]
  <2>5. ASSUME NEW n \in 1..k PROVE g[n] = IF n = 1 THEN doc ELSE Below(g[n - 1], <<path[n - 1]>>)
    <3>1. CASE n = k
      <4>1. n # 1 => g[n] = Below(h[k - 1], <<path[k - 1]>>) /\ g[n - 1] = h[k - 1]
        BY <3>1, <2>2, <2>3
      <4>2. n = 1 => g[n] = doc
        BY <3>1
      <4> QED BY <4>1, <4>2, <3>1
    <3>2. CASE n # k
      <4>1. n \in 1..(k - 1) /\ g[n] = h[n] /\ (n # 1 => g[n - 1] = h[n - 1])
        BY <3>2, <2>3
      <4>2. h[n] = IF n = 1 THEN doc ELSE Below(h[n - 1], <<path[n - 1]>>)
        BY <2>4, <4>1 DEF MapsTo
      <4> QED BY <4>1, <4>2
    <3> QED BY <3>1, <3>2
  <2>6. MapsTo(doc, path, k, g)
    <3>1. g = [n \in 1..k |-> g[n]]
      OBVIOUS
    <3> HIDE DEF g
    <3> QED BY <2>5, <3>1 DEF MapsTo
  <2> QED BY <2>1, <2>6
<1>0. DOMAIN path = 1..Len(path) /\ Len(path) \in Nat /\ Len(path) >= 1
  BY PathType
<1>2. \E h : MapsTo(doc, path, Len(path), h)
  BY <1>0, <1>1
<1>3. MapsAlong(doc, path) = CHOOSE h : MapsTo(doc, path, Len(path), h)
  BY <1>0 DEF MapsAlong, MapsTo, Below
<1> DEFINE a == MapsAlong(doc, path)
<1>4. MapsTo(doc, path, Len(path), a)
  BY <1>2, <1>3
<1> HIDE DEF a
<1>5. a = [n \in 1..Len(path) |-> IF n = 1 THEN doc ELSE Below(a[n - 1], <<path[n - 1]>>)]
  BY <1>4 DEF MapsTo
<1>6. \A n \in 1..Len(path) : a[n] = IF n = 1 THEN doc ELSE Below(a[n - 1], <<path[n - 1]>>)
  BY <1>5, Zenon
<1>7. a[1] = doc
  <2>1. 1 \in 1..Len(path)
    BY <1>0
  <2>2. a[1] = IF 1 = 1 THEN doc ELSE Below(a[1 - 1], <<path[1 - 1]>>)
    BY <1>6, <2>1, Zenon
  <2> QED BY <2>2
<1>8. \A n \in 1..Len(path) : n # 1 => a[n] = Below(a[n - 1], <<path[n - 1]>>)
  BY <1>6
<1> QED BY <1>7, <1>8 DEF a


-----------------------------------------------------------------------------
Joined(cur, path, value, n, h) ==
    Assigned(cur[n], <<path[n]>>, IF n = Len(path) THEN value ELSE Map(h[n + 1]))

\* The maps with the value set, from the k-th on.
SetFrom(cur, path, value, k, h) == h = [n \in k..Len(path) |-> Joined(cur, path, value, n, h)]

SetMaps(doc, path, value) == CHOOSE h : SetFrom(MapsAlong(doc, path), path, value, 1, h)

LEMMA SetDefined ==
    ASSUME NEW doc, NEW path \in PathSet, NEW value
    PROVE  LET set == SetMaps(doc, path, value) IN
           /\ setPath(doc, path, value) = set[1]
           /\ \A n \in 1..Len(path) : set[n] = Joined(MapsAlong(doc, path), path, value, n, set)
<1> DEFINE cur == MapsAlong(doc, path)
           L == Len(path)
           Without == {d \in Nat : d <= L /\ ~\E h : SetFrom(cur, path, value, L + 1 - d, h)}
<1>0. DOMAIN path = 1..L /\ L \in Nat /\ L >= 1
  BY PathType
<1> HIDE DEF cur, L
<1>1. Without = {}
  <2> SUFFICES ASSUME Without # {} PROVE FALSE
    OBVIOUS
  <2>1. PICK d \in Without : \A m \in Without : d <= m
    BY Least
  <2>2. d # 0
    <3> DEFINE h == [n \in (L + 1 - 0)..L |-> 0]
    <3>1. (L + 1 - 0)..L = {}
      BY <1>0
    <3>2. h = [n \in (L + 1 - 0)..L |-> Joined(cur, path, value, n, h)]
      BY <3>1
    <3>3. SetFrom(cur, path, value, L + 1 - 0, h)
      <4> HIDE DEF h
      <4> QED BY <3>2 DEF SetFrom, L
    <3> QED BY <3>3, <2>1
  <2>3. d - 1 \in Nat /\ d \in Nat /\ d <= L /\ d - 1 \notin Without
    BY <2>1, <2>2, <1>0, SMTT(30)
  <2> DEFINE k == L + 1 - d
  <2>4. L + 1 - (d - 1) = k + 1 /\ k \in 1..L
    BY <2>2, <2>3, <1>0
  <2>5. PICK h : SetFrom(cur, path, value, k + 1, h)
    <3>1. \E h : SetFrom(cur, path, value, L + 1 - (d - 1), h)
      BY <2>3, <1>0
    <3> QED BY <3>1, <2>4
  <2> HIDE DEF k
  <2> DEFINE g == [n \in k..L |-> IF n = k THEN Joined(cur, path, value, n, h) ELSE h[n]]
  <2>6. ASSUME NEW n \in k..L PROVE g[n] = Joined(cur, path, value, n, g)
    <3>1. n # L => g[n + 1] = h[n + 1]
      BY <2>4, <1>0
    <3>2. Joined(cur, path, value, n, g) = Joined(cur, path, value, n, h)
      <4> HIDE DEF g
      <4> QED BY <3>1 DEF Joined, L
    <3>3. CASE n = k
      <4>1. g[n] = Joined(cur, path, value, n, h)
        BY <3>3
      <4> QED BY <3>2, <4>1
    <3>4. CASE n # k
      <4>1. n \in (k + 1)..L /\ g[n] = h[n]
        BY <3>4, <2>4, <1>0
      <4>2. h = [m \in (k + 1)..L |-> Joined(cur, path, value, m, h)]
        BY <2>5 DEF SetFrom, L
      <4>3. h[n] = Joined(cur, path, value, n, h)
        BY <4>1, <4>2, Zenon
      <4> QED BY <3>2, <4>1, <4>3
    <3> QED BY <3>3, <3>4
  <2>7. SetFrom(cur, path, value, k, g)
    <3>1. g = [n \in k..L |-> g[n]]
      OBVIOUS
    <3> HIDE DEF g
    <3> QED BY <2>6, <3>1 DEF SetFrom, L
  <2> QED BY <2>1, <2>7 DEF k
<1> DEFINE set == SetMaps(doc, path, value)
<1>2. \E h : SetFrom(cur, path, value, 1, h)
  <2>1. \E h : SetFrom(cur, path, value, L + 1 - L, h)
    <3>1. L \in Nat /\ L <= L
      BY <1>0
    <3>2. L \notin Without
      <4> HIDE DEF Without
      <4> QED BY <1>1
    <3> QED BY <3>1, <3>2
  <2>2. L + 1 - L = 1
    BY <1>0
  <2> QED BY <2>1, <2>2
<1>3. SetFrom(cur, path, value, 1, set)
  BY <1>2 DEF SetMaps, cur
<1>4. setPath(doc, path, value) = set[1]
  BY <1>0 DEF setPath, SetMaps, SetFrom, Joined, L
<1> HIDE DEF set
<1>5. set = [n \in 1..L |-> Joined(cur, path, value, n, set)]
  BY <1>3 DEF SetFrom, L
<1>6. \A n \in 1..L : set[n] = Joined(cur, path, value, n, set)
  BY <1>5, Zenon
<1> QED BY <1>4, <1>6 DEF set, cur, L

\* Setting a key of a map: the key has the value, all others what they had.
LEMMA KeySet ==
    ASSUME NEW key, NEW x, NEW f
    PROVE  LET g == Assigned(f, key, x) IN
           /\ DOMAIN g = {key} \cup DOMAIN f
           /\ g[key] = x
           /\ \A k \in DOMAIN f : k # key => g[k] = f[k]
  BY DEF Assigned


\* Onward of a value that is no map there is nothing.
LEMMA OnwardOfLeaf ==
    ASSUME NEW w, IsLeaf(w), NEW k
    PROVE  Onward({w}, k) = {}
  BY DEF Onward, IsLeaf

LEMMA OnwardOfMap ==
    ASSUME NEW f, NEW k
    PROVE  Onward({Map(f)}, k) = IF k \in DOMAIN f THEN {f[k]} ELSE {}
<1> DEFINE m == Map(f)
<1>1. m.type = "map" /\ m.val = f
  BY DEF Map
<1> HIDE DEF m
<1>2. CASE k \in DOMAIN f
  <2>1. {u \in {m} : u.type = "map" /\ k \in DOMAIN u.val} = {m}
    BY <1>1, <1>2
  <2>2. Onward({m}, k) = {w.val[k] : w \in {m}}
    BY <2>1 DEF Onward
  <2>3. Onward({m}, k) = {f[k]}
    BY <1>1, <2>2
  <2> QED BY <1>2, <2>3 DEF m
<1>3. CASE k \notin DOMAIN f
  <2>1. Onward({m}, k) = {}
    BY <1>1, <1>3 DEF Onward
  <2> QED BY <1>3, <2>1 DEF m
<1> QED BY <1>2, <1>3

LEMMA OnwardBelow ==
    ASSUME NEW f, NEW key, NEW k
    PROVE  Onward(Onward({Map(f)}, key), k) = Onward({Map(Below(f, key))}, k)
<1>1. Onward({Map(f)}, key) = IF key \in DOMAIN f THEN {f[key]} ELSE {}
  BY OnwardOfMap
<1>2. Onward({Map(Below(f, key))}, k)
        = IF k \in DOMAIN Below(f, key) THEN {Below(f, key)[k]} ELSE {}
  BY OnwardOfMap
<1>3. DOMAIN <<>> = {}
  OBVIOUS
<1>4. CASE key \in DOMAIN f /\ f[key].type = "map"
  <2>1. Below(f, key) = f[key].val
    BY <1>4 DEF Below
  <2>2. Onward({f[key]}, k) = IF k \in DOMAIN f[key].val THEN {f[key].val[k]} ELSE {}
    BY <1>4 DEF Onward
  <2> QED BY <1>1, <1>2, <1>4, <2>1, <2>2
<1>5. CASE key \in DOMAIN f /\ f[key].type # "map"
  <2>1. Below(f, key) = <<>>
    BY <1>5 DEF Below
  <2>2. Onward({f[key]}, k) = {}
    BY <1>5 DEF Onward
  <2> QED BY <1>1, <1>2, <1>3, <1>5, <2>1, <2>2
<1>6. CASE key \notin DOMAIN f
  <2>1. Below(f, key) = <<>>
    BY <1>6 DEF Below
  <2>2. Onward({}, k) = {}
    BY DEF Onward
  <2> QED BY <1>1, <1>2, <1>3, <1>6, <2>1, <2>2
<1> QED BY <1>4, <1>5, <1>6

LEMMA KeysOfType ==
    ASSUME NEW path \in PathSet
    PROVE  /\ Len(KeysOf(path)) = Len(path) /\ Len(path) \in Nat /\ Len(path) >= 1
           /\ DOMAIN KeysOf(path) = 1..Len(path)
           /\ \A n \in 1..Len(path) : KeysOf(path)[n] = <<path[n]>>
<1>1. DOMAIN path = 1..Len(path) /\ Len(path) \in Nat /\ Len(path) >= 1
  BY PathType
<1>2. DOMAIN KeysOf(path) = 1..Len(path)
  BY <1>1 DEF KeysOf
<1>3. KeysOf(path) \in Seq({<<path[n]>> : n \in 1..Len(path)})
  BY <1>1 DEF KeysOf
<1> QED BY <1>1, <1>2, <1>3 DEF KeysOf

\* The maps along a path are what is met along its keys.
LEMMA MapsMet ==
    ASSUME NEW doc, NEW path \in PathSet, NEW keys, Len(keys) \in Nat
    PROVE  \A n \in 1..Len(path) :
                n - 1 <= Len(keys) /\ Agree(keys, KeysOf(path), n - 1) =>
                    \A k : Onward(Along(Map(doc), keys)[n - 1], k) = Onward({Map(MapsAlong(doc, path)[n])}, k)
<1> DEFINE a == Along(Map(doc), keys)
           cur == MapsAlong(doc, path)
           K == KeysOf(path)
           Met(n) == \A k : Onward(a[n - 1], k) = Onward({Map(cur[n])}, k)
           Bad == {n \in 1..Len(path) : n - 1 <= Len(keys) /\ Agree(keys, K, n - 1) /\ ~Met(n)}
<1>1. a[0] = {Map(doc)} /\ \A n \in 1..Len(keys) : a[n] = Onward(a[n - 1], keys[n])
  BY AlongDefined
<1>2. cur[1] = doc /\ \A n \in 1..Len(path) : n # 1 => cur[n] = Below(cur[n - 1], <<path[n - 1]>>)
  BY MapsDefined
<1>3. /\ Len(path) \in Nat /\ Len(path) >= 1
      /\ \A n \in 1..Len(path) : K[n] = <<path[n]>>
  BY KeysOfType
<1> HIDE DEF a, cur, K
<1> SUFFICES ASSUME Bad # {} PROVE FALSE
  BY DEF a, cur, K
<1>4. PICK n \in Bad : \A m \in Bad : n <= m
  <2>1. Bad \in SUBSET Nat
    BY <1>3
  <2> HIDE DEF Bad
  <2> QED BY <2>1, Least
<1>5. n \in 1..Len(path) /\ n - 1 <= Len(keys) /\ Agree(keys, K, n - 1) /\ ~Met(n)
  BY <1>4
<1>6. CASE n = 1
  <2>1. a[n - 1] = {Map(doc)} /\ cur[n] = doc
    BY <1>1, <1>2, <1>6
  <2> QED BY <2>1, <1>5
<1>7. CASE n # 1
  <2>1. n - 1 \in 1..Len(path) /\ n - 1 \in 1..Len(keys) /\ n - 1 < n /\ n - 1 - 1 <= Len(keys)
    BY <1>5, <1>7, <1>3
  <2>2. Agree(keys, K, n - 1 - 1) /\ keys[n - 1] = K[n - 1]
    BY <1>5, <2>1 DEF Agree
  <2>3. n - 1 \notin Bad
    <3> HIDE DEF Bad
    <3> QED BY <1>4, <2>1, <1>5
  <2>4. Met(n - 1)
    BY <2>1, <2>2, <2>3
  <2>5. a[n - 1] = Onward({Map(cur[n - 1])}, K[n - 1])
    BY <1>1, <2>1, <2>2, <2>4
  <2>6. cur[n] = Below(cur[n - 1], K[n - 1])
    BY <1>2, <1>3, <1>5, <1>7, <2>1
  <2>7. ASSUME NEW k PROVE Onward(a[n - 1], k) = Onward({Map(cur[n])}, k)
    BY <2>5, <2>6, OnwardBelow
  <2> QED BY <1>5, <2>7
<1> QED BY <1>6, <1>7

\* Along the path that was set: the maps with the value set, and then the value.
LEMMA SetMet ==
    ASSUME NEW doc, NEW path \in PathSet, NEW value, NEW keys, Len(keys) \in Nat
    PROVE  \A n \in 0..Len(path) :
                n <= Len(keys) /\ Agree(keys, KeysOf(path), n) =>
                    Along(Map(setPath(doc, path, value)), keys)[n]
                        = {IF n = Len(path) THEN value ELSE Map(SetMaps(doc, path, value)[n + 1])}
<1> DEFINE a == Along(Map(setPath(doc, path, value)), keys)
           cur == MapsAlong(doc, path)
           set == SetMaps(doc, path, value)
           K == KeysOf(path)
           L == Len(path)
           There(n) == IF n = L THEN value ELSE Map(set[n + 1])
           Bad == {n \in 0..L : n <= Len(keys) /\ Agree(keys, K, n) /\ a[n] # {There(n)}}
<1>2. setPath(doc, path, value) = set[1] /\ \A n \in 1..L : set[n] = Joined(cur, path, value, n, set)
  BY SetDefined
<1>1. a[0] = {Map(set[1])} /\ \A n \in 1..Len(keys) : a[n] = Onward(a[n - 1], keys[n])
  BY <1>2, AlongDefined
<1>3. L \in Nat /\ L >= 1 /\ \A n \in 1..L : K[n] = <<path[n]>>
  BY KeysOfType
<1>4. \A n \in 1..L : set[n] = Assigned(cur[n], K[n], There(n))
  BY <1>2, <1>3 DEF Joined
<1> HIDE DEF a, cur, set, K, L
<1> SUFFICES ASSUME Bad # {} PROVE FALSE
  BY DEF a, cur, set, K, L
<1>5. PICK n \in Bad : \A m \in Bad : n <= m
  <2>1. Bad \in SUBSET Nat
    BY <1>3
  <2> HIDE DEF Bad
  <2> QED BY <2>1, Least
<1>6. n \in 0..L /\ n <= Len(keys) /\ Agree(keys, K, n) /\ a[n] # {There(n)}
  BY <1>5
<1>7. n # 0
  BY <1>1, <1>3, <1>6
<1>8. n - 1 \in 0..L /\ n \in 1..L /\ n \in 1..Len(keys) /\ n - 1 <= Len(keys) /\ n - 1 < n /\ n - 1 # L
  BY <1>3, <1>6, <1>7
<1>9. Agree(keys, K, n - 1) /\ keys[n] = K[n]
  BY <1>6, <1>8 DEF Agree
<1>10. n - 1 \notin Bad
  <2> HIDE DEF Bad
  <2> QED BY <1>5, <1>8, <1>6
<1>11. a[n - 1] = {There(n - 1)}
  BY <1>8, <1>9, <1>10
<1>12. There(n - 1) = Map(set[n])
  BY <1>8
<1>13. K[n] \in DOMAIN set[n] /\ set[n][K[n]] = There(n)
  <2>1. set[n] = Assigned(cur[n], K[n], There(n))
    BY <1>4, <1>8
  <2> HIDE DEF There
  <2> QED BY <2>1 DEF Assigned
<1>14. a[n] = {There(n)}
  <2> HIDE DEF There
  <2>1. a[n] = Onward({Map(set[n])}, K[n])
    BY <1>1, <1>8, <1>9, <1>11, <1>12
  <2>2. Onward({Map(set[n])}, K[n]) = {set[n][K[n]]}
    BY <1>13, OnwardOfMap
  <2> QED BY <1>13, <2>1, <2>2
<1> QED BY <1>6, <1>14


\* A leaf set at a path is found there, and beyond it nothing.
LEMMA SetIsFound ==
    ASSUME NEW doc, NEW path \in PathSet, NEW value, IsLeaf(value),
           NEW keys, Len(keys) \in Nat, Len(keys) >= Len(path), Agree(keys, KeysOf(path), Len(path))
    PROVE  LET after == Along(Map(setPath(doc, path, value)), keys)
           IN  /\ after[Len(path)] = {value}
               /\ \A n \in (Len(path) + 1)..Len(keys) : after[n] = {}
<1> DEFINE after == Along(Map(setPath(doc, path, value)), keys)
           L == Len(path)
<1>1. L \in Nat /\ L >= 1
  BY PathType
<1>2. after[L] = {value}
  <2>1. L \in 0..L
    BY <1>1
  <2> QED BY <2>1, SetMet
<1>3. ASSUME NEW n \in (L + 1)..Len(keys) PROVE after[n] = {}
  <2>1. L + 1 \in 1..Len(keys) /\ L + 1 \in 0..Len(keys) /\ L + 1 - 1 = L /\ n \in (L + 1)..Len(keys)
    BY <1>1, <1>3
  <2> DEFINE first == L + 1
  <2>4. first \in 1..Len(keys) /\ first - 1 = L
    BY <2>1
  <2> HIDE DEF L, first
  <2>5. after[first] = Onward(after[first - 1], keys[first])
    BY <2>4, AlongDefined
  <2> HIDE DEF after
  <2>2. after[L + 1] = Onward(after[L], keys[L + 1])
    BY <2>4, <2>5 DEF first
  <2>3. after[L + 1] = {}
    BY <1>2, <2>2, OnwardOfLeaf
  <2> QED BY <2>1, <2>3, NothingBeyond DEF after
<1> QED BY <1>2, <1>3

\* Where the keys part from the path nothing has changed.
LEMMA SetElsewhere ==
    ASSUME NEW doc, NEW path \in PathSet, NEW value, NEW keys, Len(keys) \in Nat,
           NEW j \in 1..Len(path), j <= Len(keys),
           Agree(keys, KeysOf(path), j - 1), keys[j] # KeysOf(path)[j]
    PROVE  \A n \in j..Len(keys) :
                Along(Map(setPath(doc, path, value)), keys)[n] = Along(Map(doc), keys)[n]
<1> DEFINE after  == Along(Map(setPath(doc, path, value)), keys)
           before == Along(Map(doc), keys)
           cur == MapsAlong(doc, path)
           set == SetMaps(doc, path, value)
           K == KeysOf(path)
           L == Len(path)
           Bad == {n \in j..Len(keys) : after[n] # before[n]}
<1>1. L \in Nat /\ L >= 1 /\ \A n \in 1..L : K[n] = <<path[n]>>
  BY KeysOfType
<1>2. \A n \in 1..Len(keys) : after[n] = Onward(after[n - 1], keys[n])
  BY AlongDefined
<1>3. \A n \in 1..Len(keys) : before[n] = Onward(before[n - 1], keys[n])
  BY AlongDefined
<1>4. j - 1 \in 0..L /\ j - 1 <= Len(keys) /\ j \in 1..Len(keys) /\ j - 1 # L /\ j - 1 + 1 = j
  BY <1>1
<1>5. after[j - 1] = {Map(set[j])}
  BY <1>4, SetMet
<1>6. \A k : Onward(before[j - 1], k) = Onward({Map(cur[j])}, k)
  BY <1>4, MapsMet
<1>7. set[j] = Joined(cur, path, value, j, set)
  BY SetDefined
<1>8. K[j] = <<path[j]>>
  BY <1>1
<1> HIDE DEF after, before, cur, set, K, L
<1>9. keys[j] # K[j]
  BY DEF K
<1>10. \E x : set[j] = Assigned(cur[j], K[j], x)
  BY <1>7, <1>8 DEF Joined
<1>11. PICK x : set[j] = Assigned(cur[j], K[j], x)
  BY <1>10
<1>12. /\ keys[j] \in DOMAIN set[j] <=> keys[j] \in DOMAIN cur[j]
       /\ keys[j] \in DOMAIN cur[j] => set[j][keys[j]] = cur[j][keys[j]]
  BY <1>9, <1>11 DEF Assigned
<1>13. Onward({Map(set[j])}, keys[j]) = Onward({Map(cur[j])}, keys[j])
  BY <1>12, OnwardOfMap
<1>14. after[j] = before[j]
  BY <1>2, <1>3, <1>4, <1>5, <1>6, <1>13
<1> SUFFICES ASSUME Bad # {} PROVE FALSE
  BY DEF after, before
<1>15. PICK n \in Bad : \A m \in Bad : n <= m
  <2>1. Bad \in SUBSET Nat
    OBVIOUS
  <2> HIDE DEF Bad
  <2> QED BY <2>1, Least
<1>16. n # j /\ n \in 1..Len(keys) /\ n - 1 \in j..Len(keys) /\ n - 1 \notin Bad
  BY <1>14, <1>15
<1>17. after[n - 1] = before[n - 1]
  BY <1>16
<1> QED BY <1>2, <1>3, <1>15, <1>16, <1>17

\* What is in the map after the path was set was in it before, or leads to it.
LEMMA SetAddsOnlyItself ==
    ASSUME NEW doc, NEW path \in PathSet, NEW value, IsLeaf(value), NEW keys, Len(keys) \in Nat,
           Lookup(Map(setPath(doc, path, value)), keys) # {}
    PROVE  \/ Lookup(Map(doc), keys) # {}
           \/ Len(keys) <= Len(path) /\ Agree(keys, KeysOf(path), Len(keys))
<1> DEFINE after == Along(Map(setPath(doc, path, value)), keys)
           K == KeysOf(path)
           L == Len(path)
<1>1. L \in Nat /\ L >= 1
  BY PathType
<1>2. after[Len(keys)] # {}
  BY DEF Lookup
<1> HIDE DEF after
<1>3. CASE \E j \in 1..L : j <= Len(keys) /\ Agree(keys, K, j - 1) /\ keys[j] # K[j]
  <2>1. PICK j \in 1..L : j <= Len(keys) /\ Agree(keys, K, j - 1) /\ keys[j] # K[j]
    BY <1>3
  <2>2. Len(keys) \in j..Len(keys)
    BY <2>1
  <2>3. after[Len(keys)] = Along(Map(doc), keys)[Len(keys)]
    BY <2>1, <2>2, SetElsewhere DEF after
  <2> QED BY <1>2, <2>3 DEF Lookup
<1>4. CASE ~\E j \in 1..L : j <= Len(keys) /\ Agree(keys, K, j - 1) /\ keys[j] # K[j]
  <2>1. CASE Len(keys) <= L
    <3>1. Agree(keys, K, Len(keys))
      <4>1. \A j \in 1..Len(keys) : j \in 1..L /\ j <= Len(keys)
        BY <1>1, <2>1
      <4> QED BY <1>4, <4>1, AgreeOrPart
    <3> QED BY <2>1, <3>1
  <2>2. CASE Len(keys) > L
    <3>1. \A j \in 1..L : j <= Len(keys)
      BY <1>1, <2>2
    <3>2. Agree(keys, K, L)
      BY <1>1, <1>4, <3>1, AgreeOrPart
    <3>3. Len(keys) >= L /\ Len(keys) \in (L + 1)..Len(keys)
      BY <1>1, <2>2
    <3>4. after[Len(keys)] = {}
      BY <3>2, <3>3, SetIsFound DEF after
    <3> QED BY <1>2, <3>4
  <2> QED BY <1>1, <2>1, <2>2
<1> QED BY <1>3, <1>4


-----------------------------------------------------------------------------
DocumentStep(drift, values, doc, n) ==
    IF drift[n].redacted THEN doc ELSE setPath(doc, drift[n].path, values[n])

DocumentsTo(drift, values, k, h) ==
    h = [n \in 0..k |-> IF n = 0 THEN <<>> ELSE DocumentStep(drift, values, h[n - 1], n)]

\* The documents after each number of entries.
DocumentsOf(drift, values) == CHOOSE h : DocumentsTo(drift, values, Len(drift), h)

LEMMA DocumentDefined ==
    ASSUME NEW drift, NEW values, Len(drift) \in Nat
    PROVE  LET docs == DocumentsOf(drift, values) IN
           /\ DocumentOf(drift, values) = docs[Len(drift)]
           /\ docs[0] = <<>>
           /\ \A n \in 1..Len(drift) : docs[n] = DocumentStep(drift, values, docs[n - 1], n)
<1> DEFINE Without == {k \in Nat : ~\E h : DocumentsTo(drift, values, k, h)}
<1>1. Without = {}
  <2> SUFFICES ASSUME Without # {} PROVE FALSE
    OBVIOUS
  <2>1. PICK k \in Without : \A m \in Without : k <= m
    BY Least
  <2>2. k # 0
    <3>1. DocumentsTo(drift, values, 0, [n \in 0..0 |-> <<>>])
      BY DEF DocumentsTo
    <3> QED BY <3>1
  <2>3. k - 1 \in Nat /\ k \in Nat /\ k - 1 \notin Without
    BY <2>1, <2>2
  <2>4. PICK h : DocumentsTo(drift, values, k - 1, h)
    BY <2>3
  <2> DEFINE g == [n \in 0..k |-> IF n = k THEN DocumentStep(drift, values, h[k - 1], k) ELSE h[n]]
  <2>5. ASSUME NEW n \in 0..k
        PROVE  g[n] = IF n = 0 THEN <<>> ELSE DocumentStep(drift, values, g[n - 1], n)
    <3>1. CASE n = k
      <4>1. g[n] = DocumentStep(drift, values, h[k - 1], k) /\ g[n - 1] = h[k - 1] /\ n # 0
        BY <3>1, <2>2, <2>3
      <4> QED BY <4>1, <3>1
    <3>2. CASE n # k
      <4>1. n \in 0..(k - 1) /\ g[n] = h[n] /\ (n # 0 => g[n - 1] = h[n - 1])
        BY <3>2, <2>3
      <4>2. h[n] = IF n = 0 THEN <<>> ELSE DocumentStep(drift, values, h[n - 1], n)
        BY <2>4, <4>1 DEF DocumentsTo
      <4> QED BY <4>1, <4>2
    <3> QED BY <3>1, <3>2
  <2>6. DocumentsTo(drift, values, k, g)
    <3>1. g = [n \in 0..k |-> g[n]]
      OBVIOUS
    <3> HIDE DEF g
    <3> QED BY <2>5, <3>1 DEF DocumentsTo
  <2> QED BY <2>1, <2>6
<1>2. \E h : DocumentsTo(drift, values, Len(drift), h)
  BY <1>1
<1> DEFINE docs == DocumentsOf(drift, values)
<1>3. DocumentOf(drift, values) = docs[Len(drift)]
  BY DEF DocumentOf, DocumentsOf, DocumentsTo, DocumentStep
<1>4. DocumentsTo(drift, values, Len(drift), docs)
  BY <1>2 DEF DocumentsOf
<1> HIDE DEF docs
<1>5. docs = [n \in 0..Len(drift) |-> IF n = 0 THEN <<>> ELSE DocumentStep(drift, values, docs[n - 1], n)]
  BY <1>4 DEF DocumentsTo
<1>6. \A n \in 0..Len(drift) : docs[n] = IF n = 0 THEN <<>> ELSE DocumentStep(drift, values, docs[n - 1], n)
  BY <1>5, Zenon
<1>7. docs[0] = <<>>
  <2>1. 0 \in 0..Len(drift)
    OBVIOUS
  <2>2. docs[0] = IF 0 = 0 THEN <<>> ELSE DocumentStep(drift, values, docs[0 - 1], 0)
    BY <1>6, <2>1, Zenon
  <2> QED BY <2>2
<1>8. \A n \in 1..Len(drift) : docs[n] = DocumentStep(drift, values, docs[n - 1], n)
  BY <1>6
<1> QED BY <1>3, <1>7, <1>8 DEF docs

-----------------------------------------------------------------------------
\* Neither of two sequences of keys is the beginning of the other.
Apart(keys, others) == \E j \in 1..Len(keys) : j <= Len(others) /\ keys[j] # others[j]

LeadsTo(keys, others) == Len(keys) <= Len(others) /\ Agree(keys, others, Len(keys))

\* Entries that can be shown: each at a place of its own, with a leaf.
ShownPlaces(drift) == {i \in DOMAIN drift : ~drift[i].redacted}
Showable(drift, values) ==
    /\ DOMAIN drift = 1..Len(drift) /\ Len(drift) \in Nat
    /\ \A i \in ShownPlaces(drift) : drift[i].path \in PathSet /\ IsLeaf(values[i])
    /\ \A i, j \in ShownPlaces(drift) : i # j => Apart(KeysOf(drift[i].path), KeysOf(drift[j].path))

\* The document has each entry's value at its place, and leads nowhere else.
LEMMA DocumentHolds ==
    ASSUME NEW drift, NEW values, Showable(drift, values)
    PROVE  LET doc == DocumentOf(drift, values) IN
           /\ \A i \in ShownPlaces(drift) : Lookup(Map(doc), KeysOf(drift[i].path)) = {values[i]}
           /\ \A keys : Len(keys) \in Nat \ {0} /\ Lookup(Map(doc), keys) # {} =>
                \E i \in ShownPlaces(drift) : LeadsTo(keys, KeysOf(drift[i].path))
<1> DEFINE docs == DocumentsOf(drift, values)
           L == Len(drift)
           Shows(i) == i \in ShownPlaces(drift)
           K(i) == KeysOf(drift[i].path)
           Holds(n) == \A i \in 1..n : Shows(i) => Lookup(Map(docs[n]), K(i)) = {values[i]}
           Leads(n) == \A keys : Len(keys) \in Nat \ {0} /\ Lookup(Map(docs[n]), keys) # {} =>
                            \E i \in 1..n : Shows(i) /\ LeadsTo(keys, K(i))
           Bad == {n \in 0..L : ~(Holds(n) /\ Leads(n))}
<1>1. L \in Nat /\ DOMAIN drift = 1..L
  BY DEF Showable
<1>2. /\ DocumentOf(drift, values) = docs[L]
      /\ docs[0] = <<>>
      /\ \A n \in 1..L : docs[n] = DocumentStep(drift, values, docs[n - 1], n)
  BY <1>1, DocumentDefined
<1>3. \A i : Shows(i) => i \in 1..L /\ drift[i].path \in PathSet /\ IsLeaf(values[i]) /\ ~drift[i].redacted
  BY <1>1 DEF Showable, ShownPlaces
<1>4. \A i, j : Shows(i) /\ Shows(j) /\ i # j => Apart(K(i), K(j))
  BY DEF Showable
<1>5. \A i \in 1..L : ~Shows(i) => drift[i].redacted
  BY <1>1 DEF ShownPlaces
<1>6. Holds(0) /\ Leads(0)
  <2>1. ASSUME NEW keys, Len(keys) \in Nat \ {0}
        PROVE  Lookup(Map(<<>>), keys) = {}
    <3>1. Along(Map(<<>>), keys)[1] = Onward({Map(<<>>)}, keys[1])
      <4>1. 1 \in 1..Len(keys) /\ 1 - 1 = 0 /\ Len(keys) \in Nat
        BY <2>1
      <4>2. /\ Along(Map(<<>>), keys)[0] = {Map(<<>>)}
            /\ \A m \in 1..Len(keys) : Along(Map(<<>>), keys)[m] = Onward(Along(Map(<<>>), keys)[m - 1], keys[m])
        BY <4>1, AlongDefined
      <4>3. Along(Map(<<>>), keys)[1] = Onward(Along(Map(<<>>), keys)[1 - 1], keys[1])
        BY <4>1, <4>2, Zenon
      <4> QED BY <4>1, <4>2, <4>3
    <3>2. IsLeaf(Map(<<>>))
      BY DEF IsLeaf, Map
    <3>3. Along(Map(<<>>), keys)[1] = {}
      BY <3>1, <3>2, OnwardOfLeaf
    <3>4. 1 \in 0..Len(keys) /\ Len(keys) \in 1..Len(keys)
      BY <2>1
    <3> QED BY <3>3, <3>4, NothingBeyond DEF Lookup
  <2> QED BY <1>2, <2>1
<1> HIDE DEF docs, L, Shows, K
<1>7. ASSUME NEW n \in 1..L, Holds(n - 1), Leads(n - 1)
      PROVE  Holds(n) /\ Leads(n)
  <2>1. docs[n] = DocumentStep(drift, values, docs[n - 1], n)
    BY <1>2
  <2>2. CASE ~Shows(n)
    <3>1. docs[n] = docs[n - 1]
      BY <1>5, <2>1, <2>2 DEF DocumentStep
    <3>2. Holds(n)
      <4>1. \A i \in 1..n : Shows(i) => i \in 1..(n - 1)
        BY <1>1, <2>2
      <4> QED BY <1>7, <3>1, <4>1
    <3>3. Leads(n)
      <4>1. \A i \in 1..(n - 1) : i \in 1..n
        BY <1>1
      <4> QED BY <1>7, <3>1, <4>1
    <3> QED BY <3>2, <3>3
  <2>3. CASE Shows(n)
    <3> DEFINE path == drift[n].path
    <3>1. path \in PathSet /\ IsLeaf(values[n]) /\ docs[n] = setPath(docs[n - 1], path, values[n]) /\ K(n) = KeysOf(path)
      BY <1>3, <2>1, <2>3 DEF DocumentStep, K
    <3>2. Len(K(n)) = Len(path) /\ Len(path) \in Nat /\ Len(path) >= 1
      BY <3>1, KeysOfType
    <3> HIDE DEF path
    <3>3. Lookup(Map(docs[n]), K(n)) = {values[n]}
      <4>1. Agree(K(n), KeysOf(path), Len(path))
        BY <3>1 DEF Agree
      <4> DEFINE keys == K(n)
      <4> HIDE DEF keys
      <4>3. Len(keys) \in Nat /\ Len(keys) >= Len(path) /\ Agree(keys, KeysOf(path), Len(path))
        BY <3>2, <4>1 DEF keys
      <4>4. Along(Map(setPath(docs[n - 1], path, values[n])), keys)[Len(path)] = {values[n]}
        <5> DEFINE prev == docs[n - 1]
                   value == values[n]
        <5>1. IsLeaf(value) /\ path \in PathSet
          BY <3>1
        <5> HIDE DEF prev, value
        <5>2. Along(Map(setPath(prev, path, value)), keys)[Len(path)] = {value}
          BY <4>3, <5>1, SetIsFound
        <5> QED BY <5>2 DEF prev, value
      <4>2. Along(Map(docs[n]), K(n))[Len(path)] = {values[n]}
        BY <3>1, <4>4 DEF keys
      <4> QED BY <3>2, <4>2 DEF Lookup
    <3>4. ASSUME NEW i \in 1..(n - 1), Shows(i) PROVE Lookup(Map(docs[n]), K(i)) = {values[i]}
      <4>1. i # n /\ Apart(K(i), K(n))
        BY <1>1, <1>4, <2>3, <3>4
      <4>2. Len(K(i)) \in Nat
        BY <1>3, <3>4, KeysOfType DEF K
      <4>3. PICK m \in 1..Len(K(i)) : m <= Len(K(n)) /\ K(i)[m] # K(n)[m]
        BY <4>1 DEF Apart
      <4>4. PICK j \in 1..m : Agree(K(i), K(n), j - 1) /\ K(i)[j] # K(n)[j]
        <5>1. m \in Nat /\ m \in 1..m
          BY <4>2, <4>3
        <5>2. ~Agree(K(i), K(n), m)
          BY <4>3, <5>1 DEF Agree
        <5> QED BY <5>1, <5>2, AgreeOrPart
      <4>5. j \in 1..Len(path) /\ j <= Len(K(i)) /\ Len(K(i)) \in j..Len(K(i))
        BY <3>2, <4>2, <4>3
      <4>6. \A l \in j..Len(K(i)) : Along(Map(docs[n]), K(i))[l] = Along(Map(docs[n - 1]), K(i))[l]
        BY <3>1, <4>2, <4>4, <4>5, SetElsewhere
      <4>7. Lookup(Map(docs[n]), K(i)) = Lookup(Map(docs[n - 1]), K(i))
        BY <4>5, <4>6 DEF Lookup
      <4> QED BY <1>7, <3>4, <4>7
    <3>5. Holds(n)
      <4>1. \A i \in 1..n : i = n \/ i \in 1..(n - 1)
        BY <1>1
      <4> QED BY <3>3, <3>4, <4>1
    <3>6. ASSUME NEW keys, Len(keys) \in Nat \ {0}, Lookup(Map(docs[n]), keys) # {}
          PROVE  \E i \in 1..n : Shows(i) /\ LeadsTo(keys, K(i))
      <4>1. \/ Lookup(Map(docs[n - 1]), keys) # {}
            \/ Len(keys) <= Len(path) /\ Agree(keys, K(n), Len(keys))
        BY <3>1, <3>6, SetAddsOnlyItself
      <4>2. CASE Lookup(Map(docs[n - 1]), keys) # {}
        <5>1. PICK i \in 1..(n - 1) : Shows(i) /\ LeadsTo(keys, K(i))
          BY <1>7, <3>6, <4>2
        <5> QED BY <1>1, <5>1
      <4>3. CASE Len(keys) <= Len(path) /\ Agree(keys, K(n), Len(keys))
        <5>1. n \in 1..n /\ LeadsTo(keys, K(n))
          BY <1>1, <3>2, <4>3 DEF LeadsTo
        <5> QED BY <2>3, <5>1
      <4> QED BY <4>1, <4>2, <4>3
    <3>7. Leads(n)
      BY <3>6
    <3> QED BY <3>5, <3>7
  <2> QED BY <2>2, <2>3
<1>8. Bad = {}
  <2> SUFFICES ASSUME Bad # {} PROVE FALSE
    OBVIOUS
  <2>1. PICK n \in Bad : \A m \in Bad : n <= m
    <3>1. Bad \in SUBSET Nat
      BY <1>1
    <3> HIDE DEF Bad
    <3> QED BY <3>1, Least
  <2>2. n \in 0..L /\ ~(Holds(n) /\ Leads(n))
    BY <2>1
  <2> HIDE DEF Holds, Leads
  <2>3. n # 0 /\ n \in 1..L /\ n - 1 \in 0..L /\ n - 1 < n
    BY <1>1, <1>6, <2>2
  <2>4. n - 1 \notin Bad
    <3> HIDE DEF Bad
    <3> QED BY <1>1, <2>1, <2>3
  <2> QED BY <1>7, <2>2, <2>3, <2>4
<1>9. Holds(L) /\ Leads(L)
  <2>1. L \in 0..L
    BY <1>1
  <2> HIDE DEF Holds, Leads
  <2> QED BY <1>8, <2>1
<1> QED BY <1>1, <1>2, <1>3, <1>9 DEF Shows, K


\* Before what is found there are maps, each with the next of the keys.
LEMMA MapsBefore ==
    ASSUME NEW v, NEW keys, Len(keys) \in Nat, Lookup(v, keys) # {}, NEW n \in 0..(Len(keys) - 1),
           NEW w \in Along(v, keys)[n]
    PROVE  w.type = "map" /\ keys[n + 1] \in DOMAIN w.val
<1> DEFINE a == Along(v, keys)
<1>1. n + 1 \in 1..Len(keys) /\ n + 1 \in 0..Len(keys) /\ n + 1 - 1 = n /\ n \in 0..Len(keys)
      /\ Len(keys) \in (n + 1)..Len(keys)
  OBVIOUS
<1>2. \A m \in 1..Len(keys) : a[m] = Onward(a[m - 1], keys[m])
  BY AlongDefined
<1>3. a[n + 1] # {}
  BY <1>1, NothingBeyond DEF Lookup
<1>4. \A x, y \in a[n] : x = y
  BY <1>1, OneAlong
<1> HIDE DEF a
<1>5. a[n + 1] = Onward(a[n], keys[n + 1])
  <2> DEFINE m == n + 1
  <2>1. m \in 1..Len(keys) /\ m - 1 = n
    BY <1>1
  <2> HIDE DEF m
  <2>2. a[m] = Onward(a[m - 1], keys[m])
    BY <1>2, <2>1
  <2> QED BY <2>1, <2>2 DEF m
<1>6. w \in a[n]
  BY DEF a
<1>7. Onward(a[n], keys[n + 1]) # {}
  BY <1>3, <1>5
<1>8. PICK u \in a[n] : u.type = "map" /\ keys[n + 1] \in DOMAIN u.val
  BY <1>7 DEF Onward
<1> QED BY <1>4, <1>6, <1>8

\* A document in which each of some ways is found, and that leads nowhere else,
\* has on the way no other keys.
LEMMA OnlyTheWays ==
    ASSUME NEW doc, NEW ways, \A o \in ways : Len(o) \in Nat /\ Lookup(Map(doc), o) # {},
           \A keys : Len(keys) \in Nat \ {0} /\ Lookup(Map(doc), keys) # {} =>
                \E o \in ways : LeadsTo(keys, o)
    PROVE  LeadsOnlyTo(doc, ways)
<1> DEFINE v == Map(doc)
<1> HIDE DEF v
<1>0. /\ \A o \in ways : Len(o) \in Nat /\ Lookup(v, o) # {}
      /\ \A keys : Len(keys) \in Nat \ {0} /\ Lookup(v, keys) # {} => \E o \in ways : LeadsTo(keys, o)
  BY DEF v
<1> SUFFICES ASSUME NEW keys \in ways, NEW n \in 0..(Len(keys) - 1), NEW w \in Along(v, keys)[n]
             PROVE  DOMAIN w.val = {o[n + 1] : o \in {p \in ways : n < Len(p) /\ Agree(keys, p, n)}}
  BY DEF LeadsOnlyTo, v
<1>1. Len(keys) \in Nat /\ n \in Nat /\ n < Len(keys) /\ n \in 0..n
  BY <1>0
<1>2. w.type = "map"
  BY <1>0, MapsBefore
<1>3. ASSUME NEW o \in ways, n < Len(o), Agree(keys, o, n) PROVE o[n + 1] \in DOMAIN w.val
  <2>1. Len(o) \in Nat /\ n \in 0..(Len(o) - 1) /\ n <= Len(o) /\ n <= Len(keys)
    BY <1>0, <1>1, <1>3
  <2>2. Along(v, keys)[n] = Along(v, o)[n]
    BY <1>1, <1>3, <2>1, AlongLocal
  <2>3. w \in Along(v, o)[n]
    BY <2>2
  <2> QED BY <1>0, <2>1, <2>3, MapsBefore
<1>4. ASSUME NEW k \in DOMAIN w.val
      PROVE  \E o \in ways : n < Len(o) /\ Agree(keys, o, n) /\ k = o[n + 1]
  <2> DEFINE longer == [m \in 1..(n + 1) |-> IF m <= n THEN keys[m] ELSE k]
             S == {longer[m] : m \in 1..(n + 1)}
  <2>1. longer \in [1..(n + 1) -> S]
    OBVIOUS
  <2>2. \A m \in 1..n : longer[m] = keys[m]
    BY <1>1
  <2>3. longer[n + 1] = k
    BY <1>1
  <2>4. DOMAIN longer = 1..(n + 1)
    OBVIOUS
  <2> HIDE DEF longer, S
  <2>5. Len(longer) = n + 1
    BY <1>1, <2>1, <2>4
  <2>6. Along(v, keys)[n] = Along(v, longer)[n]
    <3>1. Agree(keys, longer, n)
      BY <2>2 DEF Agree
    <3>2. Len(longer) \in Nat /\ n <= Len(longer) /\ n <= Len(keys)
      BY <1>1, <2>5
    <3> QED BY <1>1, <3>1, <3>2, AlongLocal
  <2>7. Along(v, longer)[n + 1] = Onward(Along(v, longer)[n], k)
    <3> DEFINE m == n + 1
    <3>1. m \in 1..Len(longer) /\ m - 1 = n /\ Len(longer) \in Nat
      BY <1>1, <2>5
    <3> HIDE DEF m
    <3>2. Along(v, longer)[m] = Onward(Along(v, longer)[m - 1], longer[m])
      BY <3>1, AlongDefined
    <3> QED BY <2>3, <3>1, <3>2 DEF m
  <2>8. w.val[k] \in Along(v, longer)[n + 1]
    BY <1>2, <2>6, <2>7 DEF Onward
  <2>9. Lookup(v, longer) # {} /\ Len(longer) \in Nat \ {0}
    BY <1>1, <2>5, <2>8 DEF Lookup
  <2>10. PICK o \in ways : LeadsTo(longer, o)
    BY <1>0, <2>9
  <2>11. n + 1 <= Len(o) /\ \A m \in 1..(n + 1) : longer[m] = o[m]
    BY <2>5, <2>10 DEF LeadsTo, Agree
  <2>12. n < Len(o) /\ k = o[n + 1]
    BY <1>0, <1>1, <2>3, <2>11
  <2>13. Agree(keys, o, n)
    BY <1>1, <2>2, <2>11 DEF Agree
  <2> QED BY <2>12, <2>13
<1> QED BY <1>3, <1>4

\* Without a way the document is empty.
LEMMA NoWay ==
    ASSUME NEW doc, \A keys : ~(Len(keys) \in Nat \ {0} /\ Lookup(Map(doc), keys) # {})
    PROVE  DOMAIN doc = {}
<1> SUFFICES ASSUME NEW k \in DOMAIN doc PROVE FALSE
  OBVIOUS
<1>1. Len(<<k>>) = 1 /\ <<k>>[1] = k
  OBVIOUS
<1> DEFINE keys == <<k>>
<1> HIDE DEF keys
<1>2. Len(keys) = 1 /\ Len(keys) \in Nat /\ 1 \in 1..Len(keys) /\ 1 - 1 = 0 /\ keys[1] = k
  BY <1>1 DEF keys
<1>3. /\ Along(Map(doc), keys)[0] = {Map(doc)}
      /\ \A m \in 1..Len(keys) : Along(Map(doc), keys)[m] = Onward(Along(Map(doc), keys)[m - 1], keys[m])
  BY <1>2, AlongDefined
<1>4. Along(Map(doc), keys)[1] = Onward(Along(Map(doc), keys)[1 - 1], keys[1])
  BY <1>2, <1>3, Zenon
<1>5. Along(Map(doc), keys)[1] = {doc[k]}
  BY <1>2, <1>3, <1>4, OnwardOfMap
<1>6. Lookup(Map(doc), keys) # {}
  BY <1>2, <1>5 DEF Lookup
<1> QED BY <1>2, <1>6

-----------------------------------------------------------------------------
(***************************************************************************)
(* The leaves of what is compared, where they are found.                   *)
(***************************************************************************)

LEMMA AlongBranch ==
    ASSUME NEW v, v.type = "map", NEW k \in DOMAIN v.val, k \in PathSet,
           NEW rest \in Seq(PathSet)
    PROVE  \A n \in 0..Len(rest) : Along(v, <<k>> \o rest)[n + 1] = Along(v.val[k], rest)[n]
<1> DEFINE c == <<k>> \o rest
           a == Along(v, c)
           b == Along(v.val[k], rest)
           L == Len(rest)
           Bad == {n \in 0..L : a[n + 1] # b[n]}
<1>1. /\ Len(c) = 1 + L /\ L \in Nat
      /\ \A i \in 1..(1 + L) : c[i] = IF i <= 1 THEN <<k>>[i] ELSE rest[i - 1]
  <2>1. <<k>> \in Seq(PathSet) /\ Len(<<k>>) = 1
    OBVIOUS
  <2> QED BY <2>1, FirstPart
<1>2. Len(c) \in Nat
  BY <1>1
<1>3. a[0] = {v} /\ \A n \in 1..Len(c) : a[n] = Onward(a[n - 1], c[n])
  <2> HIDE DEF c
  <2> QED BY <1>2, AlongDefined
<1>4. b[0] = {v.val[k]} /\ \A n \in 1..L : b[n] = Onward(b[n - 1], rest[n])
  BY <1>1, AlongDefined
<1>5. c[1] = k
  <2>1. 1 \in 1..(1 + L) /\ 1 <= 1 /\ <<k>>[1] = k
    BY <1>1
  <2> HIDE DEF c
  <2> QED BY <1>1, <2>1
<1> HIDE DEF a, b, c, L
<1>6. a[1] = {v.val[k]}
  <2>1. 1 \in 1..Len(c) /\ 1 - 1 = 0
    BY <1>1
  <2>2. a[1] = Onward(a[1 - 1], c[1])
    BY <1>3, <2>1, Zenon
  <2>3. a[1] = Onward({v}, k)
    BY <1>3, <1>5, <2>1, <2>2
  <2>4. Onward({v}, k) = {v.val[k]}
    <3>1. {u \in {v} : u.type = "map" /\ k \in DOMAIN u.val} = {v}
      OBVIOUS
    <3> QED BY <3>1 DEF Onward
  <2> QED BY <2>3, <2>4
<1> SUFFICES ASSUME Bad # {} PROVE FALSE
  BY DEF a, b, c, L
<1>7. PICK n \in Bad : \A m \in Bad : n <= m
  <2>1. Bad \in SUBSET Nat
    BY <1>1
  <2> HIDE DEF Bad
  <2> QED BY <2>1, Least
<1>8. n \in 0..L /\ a[n + 1] # b[n]
  BY <1>7
<1>9. n # 0
  <2>1. 0 + 1 = 1
    OBVIOUS
  <2> QED BY <1>4, <1>6, <1>8, <2>1
<1>10. n - 1 \in 0..L /\ n \in 1..L /\ n - 1 < n /\ n - 1 + 1 = n
  BY <1>1, <1>8, <1>9
<1>11. n - 1 \notin Bad
  <2> HIDE DEF Bad
  <2> QED BY <1>7, <1>8, <1>10
<1>12. a[n] = b[n - 1]
  BY <1>10, <1>11
<1>13. n + 1 \in 1..Len(c) /\ c[n + 1] = rest[n]
  <2>1. n + 1 \in 1..(1 + L) /\ ~(n + 1 <= 1) /\ n + 1 - 1 = n
    BY <1>1, <1>10
  <2> QED BY <1>1, <2>1
<1>14. a[n + 1] = Onward(a[n], c[n + 1])
  <2> DEFINE m == n + 1
  <2>1. m \in 1..Len(c) /\ m - 1 = n
    BY <1>8, <1>1, <1>13
  <2> HIDE DEF m
  <2>2. a[m] = Onward(a[m - 1], c[m])
    BY <1>3, <2>1
  <2> QED BY <2>1, <2>2 DEF m
<1> QED BY <1>4, <1>8, <1>10, <1>12, <1>13, <1>14

\* Every leaf of a value is found at its keys.
LEMMA LeavesAreFound ==
    \A v \in Contents : \A f \in KeyedLeaves[v] :
        /\ f.keys \in Seq(PathSet) /\ f.value \in Contents
        /\ IsLeaf(f.value) /\ Lookup(v, f.keys) = {f.value}
<1> USE DepthType
<1> DEFINE Right(v) == \A f \in KeyedLeaves[v] : IsLeaf(f.value) /\ Lookup(v, f.keys) = {f.value}
           Bad == {n \in Nat : \E v \in Contents : Depth[v] = n /\ ~Right(v)}
<1>0. \A v \in Contents : \A f \in KeyedLeaves[v] : f.keys \in Seq(PathSet) /\ f.value \in Contents
  <2>1. \A v \in Contents : KeyedLeaves[v] \in SUBSET KeyedType
    BY KeyedDefined
  <2>2. \A f \in KeyedType : f.keys \in Seq(PathSet) /\ f.value \in Contents
    BY DEF KeyedType
  <2> QED BY <2>1, <2>2
<1> SUFFICES ASSUME Bad # {} PROVE FALSE
  BY <1>0
<1>1. PICK n \in Bad : \A k \in Bad : n <= k
  BY Least
<1>2. PICK v \in Contents : Depth[v] = n /\ ~Right(v)
  BY <1>1
<1>3. ASSUME NEW y \in Contents, Depth[y] < Depth[v] PROVE Right(y)
  <2>1. Depth[y] \in Nat /\ n \in Nat /\ Depth[y] < n
    BY <1>1, <1>2, <1>3
  <2>2. Depth[y] \notin Bad
    <3> HIDE DEF Bad
    <3> QED BY <1>1, <2>1
  <2> QED BY <2>1, <2>2
<1> HIDE DEF Bad
<1>4. CASE IsLeaf(v)
  <2>1. KeyedLeaves[v] = {[keys |-> <<>>, value |-> v]}
    BY <1>4, KeyedDefined DEF KeyedStep
  <2>2. Lookup(v, <<>>) = {v}
    <3>1. Len(<<>>) = 0
      OBVIOUS
    <3> DEFINE none == <<>>
    <3> HIDE DEF none
    <3>2. Len(none) = 0 /\ Len(none) \in Nat
      BY <3>1 DEF none
    <3>3. Along(v, none)[0] = {v}
      BY <3>2, AlongDefined
    <3>4. Lookup(v, none) = {v}
      BY <3>2, <3>3 DEF Lookup
    <3> QED BY <3>4 DEF none
  <2> QED BY <1>2, <1>4, <2>1, <2>2
<1>5. CASE ~IsLeaf(v)
  <2>0. \A r : r \in KeyedLeaves[v] <=>
                \E k \in DOMAIN v.val : \E l \in KeyedLeaves[v.val[k]] :
                    r = [keys |-> <<k>> \o l.keys, value |-> l.value]
    BY <1>5, LeavesBelow
  <2>1. ASSUME NEW f \in KeyedLeaves[v] PROVE IsLeaf(f.value) /\ Lookup(v, f.keys) = {f.value}
    <3>0. PICK k \in DOMAIN v.val :
            \E l \in KeyedLeaves[v.val[k]] : f = [keys |-> <<k>> \o l.keys, value |-> l.value]
      BY <2>0
    <3>1. PICK l \in KeyedLeaves[v.val[k]] : f = [keys |-> <<k>> \o l.keys, value |-> l.value]
      BY <3>0
    <3>2. v.val[k] \in Contents /\ Depth[v.val[k]] < Depth[v] /\ k \in PathSet /\ v.type = "map"
      BY <1>5, Branch
    <3>3. f.value = l.value /\ f.keys = <<k>> \o l.keys
      BY <3>1
    <3>4. IsLeaf(l.value) /\ Lookup(v.val[k], l.keys) = {l.value} /\ l.keys \in Seq(PathSet)
      BY <1>0, <1>3, <3>2
    <3>5. Len(l.keys) \in Nat /\ Len(l.keys) \in 0..Len(l.keys)
      BY <3>4
    <3>6. Along(v, <<k>> \o l.keys)[Len(l.keys) + 1] = Along(v.val[k], l.keys)[Len(l.keys)]
      <4> DEFINE rest == l.keys
      <4>1. rest \in Seq(PathSet) /\ Len(rest) \in 0..Len(rest)
        BY <3>4, <3>5
      <4> HIDE DEF rest
      <4>2. Along(v, <<k>> \o rest)[Len(rest) + 1] = Along(v.val[k], rest)[Len(rest)]
        BY <3>2, <4>1, AlongBranch
      <4> QED BY <4>2 DEF rest
    <3>7. Len(<<k>> \o l.keys) = Len(l.keys) + 1
      <4>1. <<k>> \in Seq(PathSet) /\ Len(<<k>>) = 1
        BY <3>2
      <4>2. Len(<<k>> \o l.keys) = 1 + Len(l.keys)
        BY <3>4, <4>1, FirstPart
      <4> QED BY <3>5, <4>2
    <3>8. Lookup(v, <<k>> \o l.keys) = Lookup(v.val[k], l.keys)
      BY <3>6, <3>7 DEF Lookup
    <3> QED BY <3>3, <3>4, <3>8
  <2> QED BY <2>1, <1>2
<1> QED BY <1>4, <1>5

\* A leaf is not on the way to another.
LEMMA LeafIsTheEnd ==
    ASSUME NEW v \in Contents, NEW f \in KeyedLeaves[v], NEW g \in KeyedLeaves[v], LeadsTo(f.keys, g.keys)
    PROVE  f.keys = g.keys
<1>1. /\ f.keys \in Seq(PathSet) /\ g.keys \in Seq(PathSet) /\ IsLeaf(f.value)
      /\ Lookup(v, f.keys) = {f.value} /\ Lookup(v, g.keys) = {g.value}
  BY LeavesAreFound
<1> DEFINE n == Len(f.keys)
<1>2. n \in Nat /\ Len(g.keys) \in Nat /\ n <= Len(g.keys) /\ Agree(f.keys, g.keys, n)
  BY <1>1 DEF LeadsTo
<1>3. CASE n = Len(g.keys)
  <2>1. \A i \in 1..Len(f.keys) : f.keys[i] = g.keys[i]
    BY <1>2 DEF Agree
  <2> QED BY <1>1, <1>3, <2>1, SeqEqual
<1>4. CASE n # Len(g.keys)
  <2>1. n \in 0..(Len(g.keys) - 1) /\ n \in 0..n
    BY <1>2, <1>4
  <2>2. Along(v, f.keys)[n] = Along(v, g.keys)[n]
    BY <1>2, <2>1, AlongLocal
  <2>3. f.value \in Along(v, g.keys)[n]
    BY <1>1, <2>2 DEF Lookup
  <2>4. f.value.type = "map" /\ g.keys[n + 1] \in DOMAIN f.value.val
    BY <1>1, <1>2, <2>1, <2>3, MapsBefore
  <2> QED BY <1>1, <2>4 DEF IsLeaf
<1> QED BY <1>3, <1>4

LEMMA LeavesApart ==
    ASSUME NEW v \in Contents, NEW f \in KeyedLeaves[v], NEW g \in KeyedLeaves[v], f.keys # g.keys
    PROVE  Apart(f.keys, g.keys)
<1>1. Len(f.keys) \in Nat /\ Len(g.keys) \in Nat
  BY LeavesAreFound
<1>2. CASE Len(f.keys) <= Len(g.keys)
  <2>1. ~Agree(f.keys, g.keys, Len(f.keys))
    BY <1>2, LeafIsTheEnd DEF LeadsTo
  <2>2. PICK j \in 1..Len(f.keys) : f.keys[j] # g.keys[j]
    BY <2>1 DEF Agree
  <2>3. j <= Len(g.keys)
    BY <1>1, <1>2
  <2> QED BY <2>2, <2>3 DEF Apart
<1>3. CASE Len(g.keys) <= Len(f.keys)
  <2>1. ~Agree(g.keys, f.keys, Len(g.keys))
    BY <1>3, LeafIsTheEnd DEF LeadsTo
  <2>2. PICK j \in 1..Len(g.keys) : g.keys[j] # f.keys[j]
    BY <2>1 DEF Agree
  <2>3. j \in 1..Len(f.keys) /\ j <= Len(g.keys)
    BY <1>1, <1>3
  <2> QED BY <2>2, <2>3 DEF Apart
<1> QED BY <1>1, <1>2, <1>3

\* A value is the same as itself.
LEMMA EqualToItself ==
    \A v \in Contents : valuesEqual[<<v, v>>]
<1> USE DepthType
<1> DEFINE Bad == {n \in Nat : \E v \in Contents : Depth[v] = n /\ ~valuesEqual[<<v, v>>]}
<1> SUFFICES ASSUME Bad # {} PROVE FALSE
  OBVIOUS
<1>1. PICK n \in Bad : \A k \in Bad : n <= k
  BY Least
<1>2. PICK v \in Contents : Depth[v] = n /\ ~valuesEqual[<<v, v>>]
  BY <1>1
<1>3. ASSUME NEW y \in Contents, Depth[y] < Depth[v] PROVE valuesEqual[<<y, y>>]
  <2>1. Depth[y] \in Nat /\ n \in Nat /\ Depth[y] < n
    BY <1>1, <1>2, <1>3
  <2>2. Depth[y] \notin Bad
    <3> HIDE DEF Bad
    <3> QED BY <1>1, <2>1
  <2> QED BY <2>1, <2>2
<1> HIDE DEF Bad
<1>4. ~SameValue(v, v, valuesEqual)
  <2>1. <<v, v>> \in Contents \X Contents /\ <<v, v>>[1] = v /\ <<v, v>>[2] = v
    OBVIOUS
  <2>2. valuesEqual[<<v, v>>] = SameValue(v, v, valuesEqual)
    BY <2>1, EqualDefined
  <2> QED BY <1>2, <2>2
<1>5. ~IsScalar(v) => \A k \in DOMAIN v.val : valuesEqual[<<v.val[k], v.val[k]>>]
  BY <1>3, Inside
<1>6. v.type = "list" => listsEqual(v.val, v.val, valuesEqual)
  BY <1>5 DEF listsEqual, scalarSetsEqual, IsScalar
<1> QED BY <1>4, <1>5, <1>6 DEF SameValue, IsScalar


-----------------------------------------------------------------------------
\* The keys of a path of keys without dots are those keys.
LEMMA KeysOfPathOf ==
    ASSUME NEW keys \in Undotted
    PROVE  KeysOf(PathOf(keys)) = keys
<1>1. keys \in Seq(PathSet) /\ DOMAIN keys = 1..Len(keys) /\ Len(keys) \in Nat
  BY DEF Undotted
<1>2. ASSUME NEW i \in 1..Len(keys) PROVE <<keys[i][1]>> = keys[i]
  <2>1. keys[i] \in Seq(KeyParts) /\ Len(keys[i]) = 1
    <3>1. keys[i] \in PathSet /\ Len(keys[i]) = 1
      BY <1>1 DEF Undotted
    <3> QED BY <3>1 DEF PathSet
  <2>2. <<keys[i][1]>> \in Seq(KeyParts) /\ Len(<<keys[i][1]>>) = 1 /\ <<keys[i][1]>>[1] = keys[i][1]
    BY <2>1
  <2> DEFINE one == <<keys[i][1]>>
  <2>3. one \in Seq(KeyParts) /\ Len(one) = 1 /\ one[1] = keys[i][1]
    BY <2>2
  <2> HIDE DEF one
  <2>4. \A m \in 1..Len(one) : one[m] = keys[i][m]
    BY <2>3
  <2>5. one = keys[i]
    BY <2>1, <2>3, <2>4, SeqEqual
  <2> QED BY <2>5 DEF one
<1>3. DOMAIN PathOf(keys) = 1..Len(keys) /\ \A i \in 1..Len(keys) : PathOf(keys)[i] = keys[i][1]
  BY <1>1 DEF PathOf
<1>4. KeysOf(PathOf(keys)) = [i \in 1..Len(keys) |-> keys[i]]
  BY <1>2, <1>3 DEF KeysOf
<1>5. keys = [i \in 1..Len(keys) |-> keys[i]]
  BY <1>1
<1> QED BY <1>4, <1>5

\* What can be shown of two documents: their keys have no dots.
CanBeShown(fp, ap) ==
    fp \in Documents /\ ap \in Documents /\ Eligible(fp, ap) /\ Dotless(fp) /\ Dotless(ap)

\* What an entry of the listing is: of a leaf that both documents have, and that
\* differs.
IsDrift(fp, ap, e) ==
    /\ e.path \in PathSet
    /\ e.redacted = pathIsSensitive(e.path)
    /\ \E f \in KeyedLeaves[fp] : f.keys = KeysOf(e.path) /\ (~e.redacted => f.value = e.desired)
    /\ \E g \in KeyedLeaves[ap] : g.keys = KeysOf(e.path) /\ (~e.redacted => g.value = e.observed)
    /\ ~e.redacted => e.desired # e.observed

\* A leaf of the walk at which something else is observed.
LEMMA DriftedPlace ==
    ASSUME NEW fp, NEW ap, CanBeShown(fp, ap),
           NEW n \in Drifted(walkLeaves[fp], ByPath(walkLeaves[ap]))
    PROVE  LET W == walkLeaves[fp]
               observed == ByPath(walkLeaves[ap])
               path == W[n].path
           IN  /\ path \in PathSet
               /\ \E f \in KeyedLeaves[fp] : f.keys = KeysOf(path) /\ f.value = W[n].value
               /\ \E g \in KeyedLeaves[ap] : g.keys = KeysOf(path) /\ g.value = observed[path]
               /\ W[n].value # observed[path]
<1> DEFINE W == walkLeaves[fp]
           V == walkLeaves[ap]
           K == KeyedLeaves[fp]
           L == KeyedLeaves[ap]
           observed == ByPath(V)
           path == W[n].path
<1>1. /\ fp \in Documents /\ DOMAIN fp.val # {} /\ Dotless(fp) /\ fp \in Contents
      /\ ap \in Documents /\ DOMAIN ap.val # {} /\ Dotless(ap) /\ ap \in Contents
  BY DEF CanBeShown, Eligible, Documents
<1>2. /\ V \in Seq(LeafType)
      /\ \A l, m \in DOMAIN V : V[l].path = V[m].path => l = m
      /\ \A m \in DOMAIN W : W[m].path \in PathSet
  BY <1>1, WalkOfDocument
<1>3. PICK kf : KeysAt(kf, W, K)
  BY <1>1, WalkOfDocument
<1>4. PICK kg : KeysAt(kg, V, L)
  BY <1>1, WalkOfDocument
<1>5. \A f \in K : f.value \in Contents
  BY <1>1, LeavesAreFound
<1>6. DOMAIN observed = {V[m].path : m \in DOMAIN V} /\ \A m \in DOMAIN V : observed[V[m].path] = V[m].value
  BY <1>2, ByPathIs
<1>7. n \in DOMAIN W /\ path \in DOMAIN observed /\ ~valuesEqual[<<W[n].value, observed[path]>>]
  BY DEF Drifted
<1> HIDE DEF W, V, K, L, observed
<1>8. kf[n] \in Undotted /\ path = PathOf(kf[n])
  BY <1>3, <1>7 DEF KeysAt
<1>9. PICK m \in DOMAIN V : V[m].path = path
  BY <1>6, <1>7
<1>10. kg[m] \in Undotted /\ path = PathOf(kg[m])
  BY <1>4, <1>9 DEF KeysAt
<1>11. KeysOf(path) = kf[n] /\ KeysOf(path) = kg[m]
  BY <1>8, <1>10, KeysOfPathOf
<1>12. PICK f \in K : f.keys = kf[n] /\ f.value = W[n].value
  BY <1>3, <1>7 DEF KeysAt
<1>13. PICK g \in L : g.keys = kg[m] /\ g.value = V[m].value
  BY <1>4, <1>9 DEF KeysAt
<1>14. observed[path] = V[m].value
  BY <1>6, <1>9
<1>15. W[n].value # observed[path]
  BY <1>5, <1>7, <1>12, EqualToItself
<1>16. path \in PathSet
  BY <1>2, <1>7
<1> QED BY <1>11, <1>12, <1>13, <1>14, <1>15, <1>16 DEF W, V, K, L, observed, path

\* Every entry of the listing is a drift, and no two have the same path.
LEMMA ListingIsDrift ==
    ASSUME NEW fp, NEW ap, CanBeShown(fp, ap)
    PROVE  LET drift == Diff(fp, ap).drift IN
           /\ DOMAIN drift = 1..Len(drift) /\ Len(drift) \in Nat
           /\ \A i \in DOMAIN drift : IsDrift(fp, ap, drift[i])
           /\ \A i, j \in DOMAIN drift : i # j => drift[i].path # drift[j].path
<1> DEFINE W == walkLeaves[fp]
           observed == ByPath(walkLeaves[ap])
           D == Drifted(W, observed)
           c == Cardinality(D)
           order == InOrder(D, Earlier(W, D))
           shown == Shown(c)
           drift == Diff(fp, ap).drift
<1>1. fp \in Documents /\ DOMAIN fp.val # {} /\ Dotless(fp)
  BY DEF CanBeShown, Eligible
<1>2. /\ W \in Seq(LeafType)
      /\ \A m, n \in DOMAIN W : W[m].path = W[n].path => m = n
      /\ \A n \in DOMAIN W : W[n].path \in PathSet /\ n \in Nat
  <2>1. W \in Seq(LeafType)
    BY <1>1, WalkOfDocument
  <2>2. DOMAIN W = 1..Len(W)
    BY <2>1
  <2>3. \A n \in DOMAIN W : n \in Nat
    BY <2>2
  <2> QED BY <1>1, <2>1, <2>3, WalkOfDocument
<1>3. drift = Listing(W, observed, D)
  BY DiffIs
<1>4. D \in SUBSET DOMAIN W /\ IsFiniteSet(D) /\ c \in Nat
  <2>1. IsFiniteSet(D)
    BY <1>2, PlacesAreCounted
  <2> QED BY <2>1, FS_CardinalityType DEF Drifted
<1>5. \A n \in D : LET path == W[n].path IN
            /\ path \in PathSet
            /\ \E f \in KeyedLeaves[fp] : f.keys = KeysOf(path) /\ f.value = W[n].value
            /\ \E g \in KeyedLeaves[ap] : g.keys = KeysOf(path) /\ g.value = observed[path]
            /\ W[n].value # observed[path]
  BY DriftedPlace, SMTT(30)
<1>6. drift = [i \in 1..shown |-> redactEntry(W[order[i]].path, W[order[i]].value, observed[W[order[i]].path])]
  BY <1>3 DEF Listing
<1> HIDE DEF W, observed, D
<1>7. Orders(Earlier(W, D), D)
  BY <1>2, <1>4, PlacesAreOrdered
<1>8. /\ order \in [1..c -> D]
      /\ \A i, j \in 1..c : order[i] = order[j] => i = j
  BY <1>4, <1>7, InOrderLists
<1>9. shown \in Nat /\ shown <= c
  <2> HIDE DEF c
  <2> QED BY <1>4, OrderAssumption DEF Shown
<1> HIDE DEF c, order, shown, drift
<1>10. DOMAIN drift = 1..shown /\ Len(drift) = shown
  BY <1>6, <1>9
<1>11. \A i \in 1..shown : i \in 1..c /\ order[i] \in D
  BY <1>4, <1>8, <1>9
<1>12. ASSUME NEW i \in 1..shown PROVE drift[i].path = W[order[i]].path /\ IsDrift(fp, ap, drift[i])
  <2> DEFINE n == order[i]
             path == W[n].path
             e == drift[i]
  <2>1. n \in D
    BY <1>11
  <2>2. e = redactEntry(path, W[n].value, observed[path])
    BY <1>6
  <2> HIDE DEF n, e
  <2>3. /\ e.path = path /\ e.redacted = pathIsSensitive(path)
        /\ ~e.redacted => e.desired = W[n].value /\ e.observed = observed[path]
    <3> HIDE DEF path
    <3>1. CASE pathIsSensitive(path)
      BY <2>2, <3>1 DEF redactEntry
    <3>2. CASE ~pathIsSensitive(path)
      <4>1. pathIsSensitive(path) = FALSE
        BY <3>2 DEF pathIsSensitive
      <4> QED BY <2>2, <3>2, <4>1 DEF redactEntry
    <3> QED BY <3>1, <3>2
  <2>4. /\ path \in PathSet
        /\ \E f \in KeyedLeaves[fp] : f.keys = KeysOf(path) /\ f.value = W[n].value
        /\ \E g \in KeyedLeaves[ap] : g.keys = KeysOf(path) /\ g.value = observed[path]
        /\ W[n].value # observed[path]
    BY <1>5, <2>1
  <2> HIDE DEF path
  <2>5. IsDrift(fp, ap, e)
    BY <2>3, <2>4 DEF IsDrift
  <2>6. e.path = W[order[i]].path
    BY <2>3 DEF n, path
  <2> QED BY <2>5, <2>6 DEF e
<1>13. \A i, j \in 1..shown : i # j => drift[i].path # drift[j].path
  <2>1. \A i, j \in 1..shown : i # j => order[i] # order[j]
    BY <1>8, <1>11
  <2> QED BY <1>2, <1>4, <1>11, <1>12, <2>1
<1> QED BY <1>9, <1>10, <1>12, <1>13 DEF drift

\* The rendered documents, of one side of the entries that are not redacted.
LEMMA SideIsShown ==
    ASSUME NEW drift, NEW values, Showable(drift, values)
    PROVE  LET doc  == DocumentOf(drift, values)
               ways == {KeysOf(drift[i].path) : i \in ShownPlaces(drift)}
           IN  /\ \A i \in ShownPlaces(drift) : Lookup(Map(doc), KeysOf(drift[i].path)) = {values[i]}
               /\ LeadsOnlyTo(doc, ways)
               /\ ways = {} => DOMAIN doc = {}
<1> DEFINE doc  == DocumentOf(drift, values)
           ways == {KeysOf(drift[i].path) : i \in ShownPlaces(drift)}
<1>1. /\ \A i \in ShownPlaces(drift) : Lookup(Map(doc), KeysOf(drift[i].path)) = {values[i]}
      /\ \A keys : Len(keys) \in Nat \ {0} /\ Lookup(Map(doc), keys) # {} =>
                \E i \in ShownPlaces(drift) : LeadsTo(keys, KeysOf(drift[i].path))
  BY DocumentHolds
<1> HIDE DEF doc
<1>2. \A i \in ShownPlaces(drift) : Len(KeysOf(drift[i].path)) \in Nat
  <2>1. \A i \in ShownPlaces(drift) : drift[i].path \in PathSet
    BY DEF Showable
  <2> QED BY <2>1, KeysOfType
<1>3. \A o \in ways : Len(o) \in Nat /\ Lookup(Map(doc), o) # {}
  BY <1>1, <1>2
<1>4. \A keys : Len(keys) \in Nat \ {0} /\ Lookup(Map(doc), keys) # {} => \E o \in ways : LeadsTo(keys, o)
  BY <1>1
<1> HIDE DEF ways
<1>5. LeadsOnlyTo(doc, ways)
  BY <1>3, <1>4, OnlyTheWays
<1>6. ways = {} => DOMAIN doc = {}
  BY <1>4, NoWay
<1> QED BY <1>1, <1>5, <1>6 DEF doc, ways

\* The documents of a rendered difference have of every listed field, if it is not
\* redacted, the two values that it was found to have, and nothing else: for any
\* two documents whose keys have no dots.
THEOREM DifferencesShown ==
    ASSUME NEW fp \in Documents, NEW ap \in Documents, Eligible(fp, ap)
    PROVE  DriftIsShown(fp, ap, Diff(fp, ap))
<1> SUFFICES ASSUME Dotless(fp), Dotless(ap) PROVE DriftIsShown(fp, ap, Diff(fp, ap))
  BY DEF DriftIsShown
<1> DEFINE r == Diff(fp, ap)
           drift == r.drift
           diff == UnifiedDiff(drift)
           desired == [i \in DOMAIN drift |-> drift[i].desired]
           observed == [i \in DOMAIN drift |-> drift[i].observed]
           shown == ShownPlaces(drift)
           ways == {KeysOf(drift[i].path) : i \in shown}
<1>1. CanBeShown(fp, ap) /\ fp \in Contents /\ ap \in Contents
  BY DEF CanBeShown, Documents
<1>2. /\ DOMAIN drift = 1..Len(drift) /\ Len(drift) \in Nat
      /\ \A i \in DOMAIN drift : IsDrift(fp, ap, drift[i])
      /\ \A i, j \in DOMAIN drift : i # j => drift[i].path # drift[j].path
  BY <1>1, ListingIsDrift
<1>3. diff.from = DocumentOf(drift, desired) /\ diff.to = DocumentOf(drift, observed)
  BY DEF UnifiedDiff
<1> HIDE DEF r, diff
<1>4. \A i \in shown : i \in DOMAIN drift /\ ~drift[i].redacted /\ IsDrift(fp, ap, drift[i])
  BY <1>2 DEF ShownPlaces
<1>5. \A i \in shown : desired[i] = drift[i].desired /\ observed[i] = drift[i].observed
  BY <1>4
<1> HIDE DEF drift, desired, observed
<1>6. ASSUME NEW i \in shown
      PROVE  /\ drift[i].path \in PathSet
             /\ \E f \in KeyedLeaves[fp] : f.keys = KeysOf(drift[i].path) /\ f.value = desired[i]
             /\ \E g \in KeyedLeaves[ap] : g.keys = KeysOf(drift[i].path) /\ g.value = observed[i]
             /\ desired[i] # observed[i]
  BY <1>4, <1>5 DEF IsDrift
<1>7. ASSUME NEW i \in shown
      PROVE  /\ IsLeaf(desired[i]) /\ desired[i] \in Contents
             /\ IsLeaf(observed[i]) /\ observed[i] \in Contents
             /\ Lookup(fp, KeysOf(drift[i].path)) = {desired[i]}
             /\ Lookup(ap, KeysOf(drift[i].path)) = {observed[i]}
  <2>1. PICK f \in KeyedLeaves[fp] : f.keys = KeysOf(drift[i].path) /\ f.value = desired[i]
    BY <1>6
  <2>2. PICK g \in KeyedLeaves[ap] : g.keys = KeysOf(drift[i].path) /\ g.value = observed[i]
    BY <1>6
  <2>3. IsLeaf(f.value) /\ f.value \in Contents /\ Lookup(fp, f.keys) = {f.value}
    BY <1>1, LeavesAreFound
  <2>4. IsLeaf(g.value) /\ g.value \in Contents /\ Lookup(ap, g.keys) = {g.value}
    BY <1>1, LeavesAreFound
  <2> QED BY <2>1, <2>2, <2>3, <2>4
<1>8. ASSUME NEW i \in shown, NEW j \in shown, i # j
      PROVE  Apart(KeysOf(drift[i].path), KeysOf(drift[j].path))
  <2>1. PICK f \in KeyedLeaves[fp] : f.keys = KeysOf(drift[i].path)
    BY <1>6
  <2>2. PICK g \in KeyedLeaves[fp] : g.keys = KeysOf(drift[j].path)
    BY <1>6
  <2>3. KeysOf(drift[i].path) # KeysOf(drift[j].path)
    <3> DEFINE p == drift[i].path
               q == drift[j].path
    <3>1. p # q /\ p \in PathSet /\ q \in PathSet
      BY <1>2, <1>4, <1>6, <1>8
    <3> HIDE DEF p, q
    <3>2. /\ p \in Seq(KeyParts) /\ Len(KeysOf(p)) = Len(p) /\ \A m \in 1..Len(p) : KeysOf(p)[m] = <<p[m]>>
          /\ q \in Seq(KeyParts) /\ Len(KeysOf(q)) = Len(q) /\ \A m \in 1..Len(q) : KeysOf(q)[m] = <<q[m]>>
      BY <3>1, KeysOfType DEF PathSet
    <3>3. ASSUME KeysOf(p) = KeysOf(q) PROVE FALSE
      <4>1. Len(p) = Len(q)
        BY <3>2, <3>3
      <4>2. \A m \in 1..Len(p) : p[m] = q[m]
        <5> TAKE m \in 1..Len(p)
        <5>1. <<p[m]>> = <<q[m]>>
          BY <3>2, <3>3, <4>1
        <5> QED BY <5>1
      <4> QED BY <3>1, <3>2, <4>1, <4>2, SeqEqual
    <3> QED BY <3>3 DEF p, q
  <2> QED BY <1>1, <2>1, <2>2, <2>3, LeavesApart
<1>9. Showable(drift, desired) /\ Showable(drift, observed)
  BY <1>2, <1>6, <1>7, <1>8 DEF Showable
<1>10. /\ \A i \in shown : Lookup(Map(diff.from), KeysOf(drift[i].path)) = {desired[i]}
       /\ LeadsOnlyTo(diff.from, ways)
       /\ ways = {} => DOMAIN diff.from = {}
  <2> DEFINE doc == DocumentOf(drift, desired)
  <2>1. /\ \A i \in shown : Lookup(Map(doc), KeysOf(drift[i].path)) = {desired[i]}
        /\ LeadsOnlyTo(doc, ways)
        /\ ways = {} => DOMAIN doc = {}
    BY <1>9, SideIsShown
  <2>2. diff.from = doc
    BY <1>3
  <2> HIDE DEF doc, shown, ways
  <2> QED BY <2>1, <2>2
<1>11. /\ \A i \in shown : Lookup(Map(diff.to), KeysOf(drift[i].path)) = {observed[i]}
       /\ LeadsOnlyTo(diff.to, ways)
       /\ ways = {} => DOMAIN diff.to = {}
  <2> DEFINE doc == DocumentOf(drift, observed)
  <2>1. /\ \A i \in shown : Lookup(Map(doc), KeysOf(drift[i].path)) = {observed[i]}
        /\ LeadsOnlyTo(doc, ways)
        /\ ways = {} => DOMAIN doc = {}
    BY <1>9, SideIsShown
  <2>2. diff.to = doc
    BY <1>3
  <2> HIDE DEF doc, shown, ways
  <2> QED BY <2>1, <2>2
<1>12. \A i \in DOMAIN drift : i \in shown <=> drift[i].path \notin RedactedPaths(drift)
  <2> SUFFICES ASSUME NEW i \in DOMAIN drift
               PROVE  drift[i].redacted <=> drift[i].path \in RedactedPaths(drift)
    BY DEF ShownPlaces
  <2>1. \A j \in DOMAIN drift : drift[j].path = drift[i].path => j = i
    BY <1>2
  <2> QED BY <2>1 DEF RedactedPaths
<1>13. ASSUME NEW keys \in ways
       PROVE  \E d, o \in Contents :
                /\ d # o
                /\ Lookup(fp, keys) = {d} /\ Lookup(Map(diff.from), keys) = {d}
                /\ Lookup(ap, keys) = {o} /\ Lookup(Map(diff.to), keys) = {o}
  <2>1. PICK i \in shown : keys = KeysOf(drift[i].path)
    OBVIOUS
  <2>2. desired[i] \in Contents /\ observed[i] \in Contents
    BY <1>7
  <2>3. /\ desired[i] # observed[i]
        /\ Lookup(fp, keys) = {desired[i]} /\ Lookup(Map(diff.from), keys) = {desired[i]}
        /\ Lookup(ap, keys) = {observed[i]} /\ Lookup(Map(diff.to), keys) = {observed[i]}
    BY <1>6, <1>7, <1>10, <1>11, <2>1
  <2> QED BY <2>2, <2>3
<1>14. shown = {i \in DOMAIN drift : ~drift[i].redacted}
  BY DEF ShownPlaces
<1> HIDE DEF shown
<1>15. DriftIsShown(fp, ap, r)
  BY <1>10, <1>11, <1>12, <1>13, <1>14 DEF DriftIsShown, diff, drift
<1> QED BY <1>15 DEF r

\* Of every two documents that are compared, the rendered difference shows what is
\* reported (DriftRendered; crossplanedrift.go:128-200).
THEOREM DriftsRendered == MatchingSpec => []DriftRendered
<1> DEFINE Inv == question \in Questions /\ DriftRendered
<1>1. MatchingInit => Inv
  BY DEF MatchingInit, DriftRendered, Answered
<1>2. ASSUME Inv, [MatchingNext]_<<question, answer>> PROVE Inv'
  <2>1. CASE EvaluateSelector
    BY <1>2, <2>1 DEF EvaluateSelector, Asked, DriftRendered, Answered
  <2>2. CASE CheckCertificate
    BY <1>2, <2>2 DEF CheckCertificate, Asked, DriftRendered, Answered
  <2>3. CASE CompareDocuments
    <3>1. /\ question' = question /\ question.about = "drift" /\ question \in Questions
          /\ Eligible(question.forProvider, question.atProvider)
          /\ answer' = Diff(question.forProvider, question.atProvider)
      BY <1>2, <2>3 DEF CompareDocuments, Asked
    <3>2. question \in DriftChecks
      <4>1. \A q \in Checks : q.about = "certificate"
        BY MatchingAssumption
      <4> QED BY <3>1, <4>1 DEF Questions
    <3>3. question.forProvider \in Documents /\ question.atProvider \in Documents
      BY <3>2, MatchingAssumption
    <3>4. DriftIsShown(question.forProvider, question.atProvider, answer')
      BY <3>1, <3>3, DifferencesShown
    <3> QED
      BY <3>1, <3>4 DEF DriftRendered
  <2>4. CASE UNCHANGED <<question, answer>>
    BY <1>2, <2>4 DEF DriftRendered, Answered
  <2> QED
    BY <1>2, <2>1, <2>2, <2>3, <2>4 DEF MatchingNext
<1>3. Inv => DriftRendered
  OBVIOUS
<1> QED
  BY <1>1, <1>2, <1>3, PTL DEF MatchingSpec
=================================================================================
