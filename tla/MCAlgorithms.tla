------------------------------ MODULE MCAlgorithms ------------------------------
(***************************************************************************)
(* Three algorithms of the program on bounded inputs, one at a time:       *)
(* Calico's selectors, the comparison of a Crossplane resource with what   *)
(* its provider observes, and the check of a listener's certificate.       *)
(***************************************************************************)
EXTENDS Matching

\* What the values that appear begin with, end with and contain.
MCValues == {"api", "web", "a", "pi", "ns"}
MCBeginnings == [v \in MCValues |-> IF v = "api" THEN {"api", "a"} ELSE {v}]
MCEndings    == [v \in MCValues |-> IF v = "api" THEN {"api", "pi"} ELSE {v}]
MCParts      == [v \in MCValues |-> IF v = "api" THEN {"api", "a", "pi"} ELSE {v}]

MCStrings == STRING

MCLabellings == {<<>>, "app" :> "api", "app" :> "web" @@ "tier" :> "a",
             "projectcalico.org/namespace" :> "ns"}

-----------------------------------------------------------------------------
(* Selectors as they are written. *)

AppIsApi  == <<Word("app"), Symbol("Eq"), Quoted("api")>>
HasTier   == <<Call("has"), Word("tier"), Symbol("RParen")>>
NotInWeb  == <<Word("app"), Word("not"), Word("in"), Symbol("LBrace"), Quoted("web"), Symbol("RBrace")>>

Tests ==
    {AppIsApi, HasTier, NotInWeb, <<Call("all"), Symbol("RParen")>>,
     <<Word("tier"), Symbol("Ne"), Quoted("a")>>,
     <<Word("app"), Word("contains"), Quoted("pi")>>,
     <<Word("app"), Word("startswith"), Quoted("a")>>,
     <<Word("app"), Word("ends"), Word("with"), Quoted("pi")>>,
     <<Word("app"), Word("in"), Symbol("LBrace"), Quoted("a"), Symbol("Comma"), Quoted("api"), Symbol("Comma"), Symbol("RBrace")>>,
     <<Word("projectcalico.org/namespace"), Symbol("Eq"), Quoted("ns")>>}

Not(t)        == <<Symbol("Not")>> \o t
Paren(t)      == <<Symbol("LParen")>> \o t \o <<Symbol("RParen")>>
Join(t, c, u) == t \o <<Symbol(c)>> \o u
Connectives   == {"And", "Or"}

Some == {AppIsApi, HasTier, NotInWeb}
Pairs == {Join(t, c, u) : t \in Some \cup {Not(v) : v \in Some}, c \in Connectives, u \in Some}

Formulas ==
    Tests \cup {Not(t) : t \in Tests} \cup {Not(Not(t)) : t \in Tests}
        \cup {Not(Not(Not(Paren(t)))) : t \in Some}
        \cup Pairs \cup {Not(Paren(t)) : t \in Pairs}
        \cup {Join(t, c, u) : t \in Pairs, c \in Connectives, u \in {HasTier}}
        \cup {Join(Paren(t), c, u) : t \in Pairs, c \in Connectives, u \in {AppIsApi}}
        \cup {Join(u, c, Paren(t)) : t \in Pairs, c \in Connectives, u \in {HasTier}}

Slips == UNION {{RemoveAt(t, i) : i \in DOMAIN t} : t \in Tests \cup Pairs
                                                      \cup {Not(Paren(u)) : u \in Pairs}}

Lexemes ==
    {Word("app"), Word("in"), Word("not"), Word("contains"), Quoted("api"),
     Call("has"), Call("all"), Junk}
        \cup {Symbol(s) : s \in Symbols}

MCTexts ==
    Formulas \cup Slips \cup {<<>>} \cup (UNION {[1..n -> Lexemes] : n \in 1..3})
        \cup [1..4 -> {Word("app"), Quoted("api"), Call("all"), Symbol("Eq"), Symbol("Not"),
                       Symbol("LParen"), Symbol("RParen"), Symbol("And")}]

-----------------------------------------------------------------------------
(* Documents: any two values under one key, and documents of up to three keys. *)

MCKeyParts == {"a", "a-b", "b", "password"}
\* "a", "a-b", "a-b.", "a.", "b", "b.", ...
Ascending == <<<<"a", TRUE>>, <<"a-b", TRUE>>, <<"a-b", FALSE>>, <<"a", FALSE>>,
               <<"b", TRUE>>, <<"b", FALSE>>, <<"password", TRUE>>, <<"password", FALSE>>>>
MCBefore(x, y) == \E i, j \in DOMAIN Ascending : i < j /\ Ascending[i] = x /\ Ascending[j] = y

a == <<"a">>
b == <<"b">>
Doc(k, v) == Map(k :> v)

Scalars == {Numeric(1), Numeric(8), Numeric(9), Numeric(10), String("1"), String("2")}
Lists   == {List(s) : s \in UNION {[1..n -> {Numeric(1), Numeric(8), String("1")}] : n \in 0..2}}
                \cup {List(<<Numeric(9), Numeric(1)>>), List(<<Numeric(1), Numeric(9), Numeric(1)>>),
                      List(<<Numeric(1), Numeric(1), Numeric(9)>>),
                      List(<<Doc(a, Numeric(1)), Doc(b, List(<<Numeric(1), Numeric(8)>>))>>),
                      List(<<Doc(a, Numeric(1)), Doc(b, List(<<Numeric(8), Numeric(1)>>))>>)}
Values  == Scalars \cup Lists \cup {Map(<<>>), Doc(a, Numeric(1)), Doc(b, Map(<<>>))}

Fields == {Numeric(1), Numeric(2), Map(<<>>), Doc(a, Numeric(1)),
           Map(a :> Numeric(2) @@ b :> Numeric(1)), Map(a :> Numeric(1) @@ b :> Numeric(2))}
Configurations ==
    UNION {{Map(f) : f \in [S -> Fields]} : S \in {{a}, {a, b}, {b, <<"password">>}}}
        \cup {Map(f) : f \in [{a, b, <<"password">>} -> {Numeric(1), Numeric(2)}]}
        \cup {Map(f) : f \in [{a, <<"a", "b">>} -> {Numeric(1), Numeric(2)}]}
        \cup {Map(a :> v @@ <<"a-b">> :> w) : v \in {Doc(b, Numeric(1)), Doc(b, Numeric(2))},
                                              w \in {Numeric(1), Numeric(2)}}

OneField == {Doc(a, v) : v \in Values}
MCDriftChecks ==
    {[about |-> "drift", forProvider |-> d, atProvider |-> e] : d \in OneField, e \in OneField}
    \cup {[about |-> "drift", forProvider |-> d, atProvider |-> e] :
            d \in Configurations, e \in Configurations}

RECURSIVE Within(_), DepthOf(_)
Within(v)  == {v} \cup (IF v.type \in {"map", "list"} THEN UNION {Within(v.val[k]) : k \in DOMAIN v.val}
                        ELSE {})
DepthOf(v) == IF IsScalar(v) THEN 0 ELSE 1 + Max({0} \cup {DepthOf(v.val[k]) : k \in DOMAIN v.val})

MCContents == UNION {Within(v) : v \in OneField \cup Configurations}
MCDepth    == [v \in MCContents |-> DepthOf(v)]

-----------------------------------------------------------------------------
(* Hostnames of one or two labels, and hosts of up to four. *)

NamesUpTo(n) == UNION {[1..i -> {"a", "b"}] : i \in 1..n}
MCHosts == NamesUpTo(4)
MCNames == {<<"a">>, <<"a", "a">>, <<"b", "a">>, <<"a", "b", "a">>}
FewOf(S) == {s \in SUBSET S : Cardinality(s) <= 2}

MCCertificates ==
    {[dns |-> d, ip |-> FALSE, cn |-> {}] : d \in FewOf(Patterns)}
        \cup {[dns |-> {}, ip |-> i, cn |-> {p}] : i \in BOOLEAN, p \in Patterns}

MCChecks ==
    {[about |-> "certificate", listener |-> l, route |-> r, pinned |-> p, cert |-> c] :
        l \in {{}} \cup {{q} : q \in Patterns}, r \in FewOf(Patterns), p \in BOOLEAN,
        c \in MCCertificates}

-----------------------------------------------------------------------------
\* The documents of the rendered difference are "built from just the drifted
\* leaf paths" (crossplanedrift.go:128-129), so each of these is in them, with the
\* two values it was reported with.  It is not: of two labels like "app" and
\* "app.kubernetes.io/name" that both differ, the path of the first is the
\* beginning of the second's.
EveryDriftRendered ==
    Answered("drift") =>
        LET diff == UnifiedDiff(answer.drift)
        IN  \A i \in DOMAIN answer.drift :
                LET e == answer.drift[i]
                IN  e.redacted \/ /\ Lookup(Map(diff.from), KeysOf(e.path)) = {e.desired}
                                  /\ Lookup(Map(diff.to), KeysOf(e.path)) = {e.observed}
=================================================================================
