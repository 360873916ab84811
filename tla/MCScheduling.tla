------------------------------ MODULE MCScheduling ------------------------------
(***************************************************************************)
(* One label of a user's, one of a number, and the name of a node; Pods    *)
(* that select by them in every way, and pools that differ in what they    *)
(* require.                                                                *)
(***************************************************************************)
EXTENDS Scheduling, TLC

MCKeys   == {"team", "cpu", "name"}
MCValues == {"a", "b", "4", "8"}
MCNumber == [v \in MCValues |-> CASE v = "4" -> 4 [] v = "8" -> 8 [] OTHER -> NaN]
MCFields == {"name" :> "a", "name" :> "b"}

Needs(key, operator, values) == [key |-> key, operator |-> operator, values |-> values]
Expressions(exprs) == [matchExpressions |-> exprs, matchFields |-> {}]
Selects(selector, terms) == [nodeSelector |-> selector, terms |-> terms]

MCPodSpecs ==
    {Selects("team" :> "a", <<>>),
     Selects(<<>>, <<Expressions({Needs("team", "NotIn", {"a"}), Needs("cpu", "Exists", {})})>>),
     Selects(<<>>, <<Expressions({Needs("team", "In", {"a"})}),
                     Expressions({Needs("cpu", "Lt", {"8"})})>>),
     Selects("team" :> "b", <<Expressions({Needs("cpu", "Gt", {"4"})})>>),
     Selects(<<>>, <<[matchExpressions |-> {Needs("team", "DoesNotExist", {})},
                      matchFields |-> {Needs("name", "In", {"a"})}]>>)}

MCPools ==
    {[labels |-> <<>>, requirements |-> <<Needs("team", "In", {"a"})>>],
     [labels |-> <<>>, requirements |-> <<Needs("cpu", "In", {"4", "8"})>>],
     [labels |-> <<>>, requirements |-> <<Needs("team", "NotIn", {"b"}), Needs("cpu", "In", {"4"})>>],
     [labels |-> "team" :> "b", requirements |-> <<Needs("cpu", "Gt", {"4"})>>],
     [labels |-> <<>>, requirements |-> <<Needs("team", "Exists", {}), Needs("team", "In", {"b"})>>]}

MCPlainPools == {p \in MCPools : p.labels = <<>>}
=============================================================================
