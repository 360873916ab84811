---------------------------- MODULE CrossplaneDrift ----------------------------
(***************************************************************************)
(* The comparison of a Crossplane resource's spec.forProvider with its     *)
(* status.atProvider (pkg/plugin/crossplanedrift).                         *)
(*                                                                         *)
(* A value is [type, val]: "map" of a function from keys, "list" of a      *)
(* sequence, "number" of a natural (int or float makes no difference to    *)
(* it), or another scalar.  A key is the sequence of its dot-separated     *)
(* parts, so that joining a path with dots is \o and splitting it again    *)
(* gives the parts, whichever key they came from.                          *)
(***************************************************************************)
EXTENDS Integers, Sequences, SequencesExt

CONSTANTS
    Precision,          \* bits of a float64's mantissa
    KeyParts,           \* the parts of keys
    Before(_, _),       \* the order of the segments of paths as strings
    SensitiveParts,     \* the parts of a path that hide its value
    MaxDriftEntries,
    Contents,           \* the values of documents, and what is in them
    Depth               \* Depth[v]: how deep v is nested

Map(f)     == [type |-> "map", val |-> f]
List(s)    == [type |-> "list", val |-> s]
Numeric(n) == [type |-> "number", val |-> n]
String(s)  == [type |-> "string", val |-> s]

IsScalar(v) == v.type \notin {"map", "list"}
IsLeaf(v)   == v.type # "map" \/ DOMAIN v.val = {}

\* A part and whether it is the last one: what follows another is a dot.
Segments == KeyParts \X BOOLEAN
Segment(path, i) == <<path[i], i = Len(path)>>

ASSUME OrderAssumption ==
    /\ MaxDriftEntries \in Nat
    /\ \A x, y, z \in Segments : Before(x, y) /\ Before(y, z) => Before(x, z)
    /\ \A x, y \in Segments : x # y => Before(x, y) \/ Before(y, x)
    /\ \A x \in Segments : ~Before(x, x)
    /\ \A part \in KeyParts : Before(<<part, TRUE>>, <<part, FALSE>>)

\* What is decoded is finite, and no key is empty.
ASSUME ContentsAssumption ==
    /\ Depth \in [Contents -> Nat]
    /\ \A v \in Contents :
        /\ v = [type |-> v.type, val |-> v.val]
        /\ v.type = "number" => v.val \in Nat
        /\ v.type = "list" => v.val \in Seq(Contents)
        /\ v.type = "map" => /\ v.val \in [DOMAIN v.val -> Contents]
                             /\ IsFiniteSet(DOMAIN v.val)
                             /\ DOMAIN v.val \subseteq Seq(KeyParts) \ {<<>>}
        /\ ~IsScalar(v) => \A k \in DOMAIN v.val : Depth[v.val[k]] < Depth[v]

Documents == {v \in Contents : v.type = "map"}

\* Paths, and keys, in the order of strings.
PathBefore(p, q) ==
    \E i \in DOMAIN p \cap DOMAIN q :
        Before(Segment(p, i), Segment(q, i)) /\ \A j \in 1..(i - 1) : Segment(p, j) = Segment(q, j)

\* The members of a set in the order that the pairs of R give.
InOrder(S, R) ==
    CHOOSE s \in [1..Cardinality(S) -> S] : \A i, j \in DOMAIN s : i < j => <<s[i], s[j]>> \in R

Sorted(paths) == InOrder(paths, {pq \in paths \X paths : PathBefore(pq[1], pq[2])})

-----------------------------------------------------------------------------
(* Equality.  An operator's "equal" is valuesEqual, for what is in the values. *)

\* The nearest float64: beyond 2^Precision only every second integer is one
\* (up to twice that), and a tie goes to the multiple of four.
asFloat64(n) ==
    IF n <= 2^Precision \/ n % 2 = 0 THEN n ELSE IF (n - 1) % 4 = 0 THEN n - 1 ELSE n + 1

scalarSetKey(v) == IF v.type = "number" THEN Numeric(asFloat64(v.val)) ELSE v

isScalarListNoDuplicates(s) ==
    /\ \A i \in DOMAIN s : IsScalar(s[i])
    /\ \A i, j \in DOMAIN s : i # j => scalarSetKey(s[i]) # scalarSetKey(s[j])

scalarSetsEqual(a, b) ==
    Len(a) = Len(b) /\ \A i \in DOMAIN a : \E j \in DOMAIN b : scalarSetKey(a[i]) = scalarSetKey(b[j])

\* Mutation: lists are compared by position only.
listsByPosition(a, b, equal) == Len(a) = Len(b) /\ \A i \in DOMAIN a : equal[<<a[i], b[i]>>]
listsEqual(a, b, equal) ==
    IF isScalarListNoDuplicates(a) /\ isScalarListNoDuplicates(b) THEN scalarSetsEqual(a, b)
    ELSE Len(a) = Len(b) /\ \A i \in DOMAIN a : equal[<<a[i], b[i]>>]

SameValue(a, b, equal) ==
    /\ a.type = b.type
    /\ CASE a.type = "number" -> asFloat64(a.val) = asFloat64(b.val)
         [] a.type = "map"  -> /\ DOMAIN a.val = DOMAIN b.val
                               /\ \A k \in DOMAIN a.val : equal[<<a.val[k], b.val[k]>>]
         [] a.type = "list" -> listsEqual(a.val, b.val, equal)
         [] OTHER           -> a.val = b.val

valuesEqual[ab \in Contents \X Contents] == SameValue(ab[1], ab[2], valuesEqual)

-----------------------------------------------------------------------------
(* The comparison. *)

WithPrefix(key, leaves) ==
    [n \in DOMAIN leaves |-> [path |-> key \o leaves[n].path, value |-> leaves[n].value]]

LeavesUnder(v, keys, leaves) ==
    FlattenSeq([i \in DOMAIN keys |-> WithPrefix(keys[i], leaves[v.val[keys[i]]])])

\* The leaves in the order of the walk: what is no map, and empty maps.
walkLeaves[v \in Contents] ==
    IF IsLeaf(v) THEN <<[path |-> <<>>, value |-> v]>>
    ELSE LeavesUnder(v, Sorted(DOMAIN v.val), walkLeaves)

\* The last leaf of a path is the one that counts.
ByPath(leaves) ==
    [p \in {leaves[i].path : i \in DOMAIN leaves} |->
        leaves[CHOOSE i \in DOMAIN leaves :
                    leaves[i].path = p /\ \A j \in DOMAIN leaves : leaves[j].path = p => j <= i].value]

pathIsSensitive(path) == \E i \in DOMAIN path : path[i] \in SensitiveParts

Redacted == [type |-> "redacted", val |-> <<>>]
redactEntry(path, desired, observed) ==
    IF pathIsSensitive(path)
    THEN [path |-> path, desired |-> Redacted, observed |-> Redacted, redacted |-> TRUE]
    ELSE [path |-> path, desired |-> desired, observed |-> observed, redacted |-> FALSE]

Eligible(forProvider, atProvider) == DOMAIN forProvider.val # {} /\ DOMAIN atProvider.val # {}

\* Asked of eligible documents only.
Diff(forProvider, atProvider) ==
    LET desired  == walkLeaves[forProvider]
        observed == ByPath(walkLeaves[atProvider])
        Found(n) == desired[n].path \in DOMAIN observed
        Same(n)  == valuesEqual[<<desired[n].value, observed[desired[n].path]>>]
        drifted  == {n \in DOMAIN desired : Found(n) /\ ~Same(n)}
        order    == InOrder(drifted, {nm \in drifted \X drifted :
                        LET p == desired[nm[1]].path
                            q == desired[nm[2]].path
                        IN  PathBefore(p, q) \/ (p = q /\ nm[1] < nm[2])})
        shown    == IF Cardinality(drifted) > MaxDriftEntries THEN MaxDriftEntries
                    ELSE Cardinality(drifted)
    IN  [total        |-> Len(desired),
         inSync       |-> Cardinality({n \in DOMAIN desired : Found(n) /\ Same(n)}),
         notObserved  |-> Cardinality({n \in DOMAIN desired : ~Found(n)}),
         drift        |-> [i \in 1..shown |->
                            LET d == desired[order[i]]
                            IN  redactEntry(d.path, d.value, observed[d.path])],
         more         |-> Cardinality(drifted) - shown,
         observedOnly |-> Cardinality(DOMAIN observed \ {desired[n].path : n \in DOMAIN desired})]

-----------------------------------------------------------------------------
(* Reference definitions and the property. *)

Denotation(kind, is) == [kind |-> kind, is |-> is]

\* A list of different scalars is a set, any other a sequence.
ListDenotation(s, items) ==
    IF IsInjective(items) /\ \A i \in DOMAIN s : IsScalar(s[i])
    THEN Denotation("set", ToSet(items)) ELSE Denotation("sequence", items)

\* What a value means: numbers are what they are.
Denotes[v \in Contents] ==
    CASE v.type = "map"  -> Denotation("map", [k \in DOMAIN v.val |-> Denotes[v.val[k]]])
      [] v.type = "list" -> ListDenotation(v.val, [i \in DOMAIN v.val |-> Denotes[v.val[i]]])
      [] OTHER           -> Denotation("scalar", v)

Numbers[v \in Contents] ==
    IF v.type = "number" THEN {v.val}
    ELSE IF IsScalar(v) THEN {}
    ELSE UNION {Numbers[v.val[k]] : k \in DOMAIN v.val}

\* Beyond the precision of a float two integers may be the same to the code.
Exact(v) == \A n \in Numbers[v] : n <= 2^Precision

BelowKey(k, leaves) == {[keys |-> <<k>> \o f.keys, value |-> f.value] : f \in leaves}

\* The leaves of a document, each with the sequence of keys that leads to it.
KeyedLeaves[v \in Contents] ==
    IF IsLeaf(v) THEN {[keys |-> <<>>, value |-> v]}
    ELSE UNION {BelowKey(k, KeyedLeaves[v.val[k]]) : k \in DOMAIN v.val}
LeavesOf(v) == {f.keys : f \in KeyedLeaves[v]}

\* Keys with dots can make one path of two.
Dotless(v) == \A f \in KeyedLeaves[v] : \A i \in DOMAIN f.keys : Len(f.keys[i]) = 1
PathOf(keys) == [i \in DOMAIN keys |-> keys[i][1]]

\* What is configured, and the provider has something else for.
Differing(fp, ap) ==
    {keys \in LeavesOf(fp) : \E f \in KeyedLeaves[fp], g \in KeyedLeaves[ap] :
                                /\ f.keys = keys /\ g.keys = keys
                                /\ Denotes[f.value] # Denotes[g.value]}

\* The comparison reports exactly the configured fields that the provider has
\* another value for: every one is counted, and the first of them are listed; a
\* number's encoding and the order of a set make no difference, and what is not
\* observed is none (crossplanedrift.go:1-12, 73-125, 247-330).
DriftIsDifference(fp, ap, r) ==
    Dotless(fp) /\ Dotless(ap) /\ Exact(fp) /\ Exact(ap) =>
        LET drifted == {PathOf(keys) : keys \in Differing(fp, ap)}
            listed  == {r.drift[i].path : i \in DOMAIN r.drift}
        IN  /\ listed \subseteq drifted
            /\ Len(r.drift) = Cardinality(listed)
            /\ Len(r.drift) + r.more = Cardinality(drifted)
            /\ \A p \in listed, q \in drifted \ listed : PathBefore(p, q)
            /\ r.notObserved = Cardinality(LeavesOf(fp) \ LeavesOf(ap))
            /\ r.total = r.inSync + r.notObserved + Cardinality(drifted)
            /\ r.observedOnly = Cardinality(LeavesOf(ap) \ LeavesOf(fp))
================================================================================
