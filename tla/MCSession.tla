------------------------------- MODULE MCSession -------------------------------
(***************************************************************************)
(* Two objects and two settings, one on and one off by default.            *)
(***************************************************************************)
EXTENDS Session

CONSTANTS a, b

MCObjects     == {a, b}
MCIncludes    == {"include-events", "include-owners"}
MCOnByDefault == {"include-events"}

ByName(o) == [named |-> TRUE, names |-> {o}]
OfType(S) == [named |-> FALSE, names |-> S]

\* TYPE; TYPE NAME; TYPE NAME NAME; TYPE1,TYPE2.
MCQueries == {<<OfType({a, b})>>, <<ByName(a)>>, <<ByName(a), ByName(b)>>,
              <<OfType({a}), OfType({b})>>}

Choices(key) == {Default(key)} \cup [set : {TRUE}, value : BOOLEAN]

Plain(flags) ==
    [k \in Keys |-> IF k \in flags THEN [set |-> TRUE, value |-> TRUE] ELSE Default(k)]

With(key, setting, flags) == [Plain(flags) EXCEPT ![key] = setting]

\* Each setting in each way, and each choice of flags.
MCRequests ==
    UNION {{With(k, s, flags) : s \in Choices(k)} :
              k \in MCIncludes, flags \in SUBSET {"shallow", "deep"}}
      \cup {Plain(flags \cup {"watch"}) : flags \in SUBSET {"shallow", "deep"}}

=============================================================================
