---------------------------- MODULE DriftDocuments -----------------------------
(***************************************************************************)
(* The documents of which the difference is shown where a Crossplane       *)
(* resource has drifted (UnifiedDiff of pkg/plugin/crossplanedrift).       *)
(***************************************************************************)
EXTENDS CrossplaneDrift

RedactedPaths(drift) == {drift[i].path : i \in {j \in DOMAIN drift : drift[j].redacted}}

-----------------------------------------------------------------------------
(* UnifiedDiff. *)

\* The maps along a path: of each part the one that is there, or a new one.
\* Mutation: a map that is there is replaced, not filled in.
MapsAnew(doc, path) == [n \in DOMAIN path |-> IF n = 1 THEN doc ELSE <<>>]
MapsAlong(doc, path) ==
    LET cur[n \in DOMAIN path] ==
            IF n = 1 THEN doc
            ELSE LET key == <<path[n - 1]>>
                     up  == cur[n - 1]
                 IN  IF key \in DOMAIN up /\ up[key].type = "map" THEN up[key].val ELSE <<>>
    IN  cur

Assigned(map, key, value) ==
    [k \in DOMAIN map \cup {key} |-> IF k = key THEN value ELSE map[k]]

setPath(doc, path, value) ==
    LET cur == MapsAlong(doc, path)
        set[n \in DOMAIN path] ==
            Assigned(cur[n], <<path[n]>>, IF n = Len(path) THEN value ELSE Map(set[n + 1]))
    IN  set[1]

\* The document of one side of the entries that are not redacted.
DocumentOf(drift, values) ==
    LET doc[n \in 0..Len(drift)] ==
            IF n = 0 THEN <<>>
            ELSE IF drift[n].redacted THEN doc[n - 1]
            ELSE setPath(doc[n - 1], drift[n].path, values[n])
    IN  doc[Len(drift)]

UnifiedDiff(drift) ==
    [from |-> DocumentOf(drift, [i \in DOMAIN drift |-> drift[i].desired]),
     to   |-> DocumentOf(drift, [i \in DOMAIN drift |-> drift[i].observed])]

-----------------------------------------------------------------------------
(* Properties. *)

\* The values along a sequence of keys, after each number of them: none or one.
Along(v, keys) ==
    LET at[n \in 0..Len(keys)] ==
            IF n = 0 THEN {v}
            ELSE {w.val[keys[n]] : w \in {u \in at[n - 1] : u.type = "map" /\ keys[n] \in DOMAIN u.val}}
    IN  at

Lookup(v, keys) == Along(v, keys)[Len(keys)]

KeysOf(path) == [i \in DOMAIN path |-> <<path[i]>>]

Agree(keys, others, n) == \A m \in 1..n : keys[m] = others[m]

\* The maps of a document that lead to some sequences of keys lead nowhere else.
LeadsOnlyTo(doc, ways) ==
    \A keys \in ways : \A n \in 0..(Len(keys) - 1) : \A w \in Along(Map(doc), keys)[n] :
        DOMAIN w.val = {others[n + 1] : others \in {o \in ways : n < Len(o) /\ Agree(keys, o, n)}}

\* Every listed field is seen: its name is among the redacted ones, or the two
\* documents that are shown have at its place what is configured and what is
\* observed; and nothing else is in them.  Not so for keys with dots, of which
\* one may be the beginning of another's path: the second is then written over
\* the first (crossplanedrift.go:128-200).
DriftIsShown(fp, ap, r) ==
    LET diff  == UnifiedDiff(r.drift)
        shown == {i \in DOMAIN r.drift : ~r.drift[i].redacted}
        ways  == {KeysOf(r.drift[i].path) : i \in shown}
    IN  Dotless(fp) /\ Dotless(ap) =>
            /\ \A i \in DOMAIN r.drift : i \in shown <=> r.drift[i].path \notin RedactedPaths(r.drift)
            /\ \A keys \in ways : \E desired, observed \in Contents :
                    /\ desired # observed
                    /\ Lookup(fp, keys) = {desired} /\ Lookup(Map(diff.from), keys) = {desired}
                    /\ Lookup(ap, keys) = {observed} /\ Lookup(Map(diff.to), keys) = {observed}
            /\ LeadsOnlyTo(diff.from, ways) /\ LeadsOnlyTo(diff.to, ways)
            /\ ways = {} => DOMAIN diff.from = {} /\ DOMAIN diff.to = {}
================================================================================
