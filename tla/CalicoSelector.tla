----------------------------- MODULE CalicoSelector -----------------------------
(***************************************************************************)
(* Calico's selector expressions: the tokenizer, the recursive-descent     *)
(* parser and the evaluation of pkg/plugin/calicoselector.                 *)
(*                                                                         *)
(* A selector is a sequence of lexemes: symbols, quoted strings, words,    *)
(* the calls "has(", "all(" and "global(" (a word not followed by its      *)
(* parenthesis at once is only a word), and what no token begins with.     *)
(* Whitespace between lexemes means nothing.  Symbols are named as their   *)
(* tokens: Eq is "==", Not is "!".                                         *)
(*                                                                         *)
(* What may fail returns a set: that of its one result, or the empty set.  *)
(* A node of the tree can do nothing but be evaluated on labels: it is     *)
(* the set of the labels on which it is true.                              *)
(***************************************************************************)
EXTENDS Integers, Sequences

CONSTANTS
    Strings,        \* the words and the quoted values that may be written
    Labellings,     \* the labels an object may have: functions from words to values
    Beginnings,     \* Beginnings[v]: the strings the value v starts with
    Endings,        \* those it ends with
    Parts           \* those it contains

Word(w)   == [form |-> "word", text |-> w]
Quoted(v) == [form |-> "string", text |-> v]
Symbol(s) == [form |-> "symbol", text |-> s]
Call(f)   == [form |-> "call", text |-> f]
Junk      == [form |-> "junk", text |-> "none"]     \* or a label that is too long

Symbols == {"LParen", "RParen", "LBrace", "RBrace", "Comma", "Eq", "Ne", "Not", "And", "Or"}
Calls   == {"has", "all", "global"}

Lexeme == [form : {"word", "string"}, text : Strings]
              \cup [form : {"symbol"}, text : Symbols] \cup [form : {"call"}, text : Calls] \cup {Junk}

From(list, i) == SubSeq(list, i, Len(list))

-----------------------------------------------------------------------------
(* The tokenizer. *)

Kinds ==
    Symbols \cup {"Contains", "StartsWith", "EndsWith", "In", "NotIn", "Has", "All", "Global",
                 "Label", "StringLiteral", "EOF"}

Tokens == [kind : Kinds, value : Strings \cup {"none"}]
Token(k, v) == [kind |-> k, value |-> v]
Mark(k) == Token(k, "none")     \* a token without a value
EOF == Mark("EOF")

\* How the operators that are words may be written.
WordOperators ==
    {<<"Contains", <<"contains">>>>,
     <<"StartsWith", <<"starts", "with">>>>, <<"StartsWith", <<"startswith">>>>,
     <<"EndsWith", <<"ends", "with">>>>,     <<"EndsWith", <<"endswith">>>>,
     <<"NotIn", <<"not", "in">>>>,           <<"NotIn", <<"notin">>>>,
     <<"In", <<"in">>>>}

Spells(input, words) ==
    Len(words) <= Len(input) /\ \A i \in DOMAIN words : input[i] = Word(words[i])

Reading(token, length) == [token |-> token, length |-> length]

\* A word after a label is an operator.
OperatorToken(input) ==
    {Reading(Mark(o[1]), Len(o[2])) : o \in {p \in WordOperators : Spells(input, p[2])}}

\* has(label), all() or global().
CallToken(input) ==
    LET f == input[1].text IN
    IF f = "has"
    THEN IF Len(input) >= 3 /\ input[2].form = "word" /\ input[3] = Symbol("RParen")
         THEN {Reading(Token("Has", input[2].text), 3)} ELSE {}
    ELSE IF Len(input) >= 2 /\ input[2] = Symbol("RParen")
         THEN {Reading(Mark(IF f = "all" THEN "All" ELSE "Global"), 2)} ELSE {}

\* What a word may be: an operator after a label, and otherwise none.
Expectations == {"operator", "operand"}
Expected(token) == IF token.kind = "Label" THEN "operator" ELSE "operand"

nextToken(input, expected) ==
    LET form == input[1].form
        text == input[1].text
    IN  CASE form = "symbol" -> {Reading(Mark(text), 1)}
          [] form = "string" -> {Reading(Token("StringLiteral", text), 1)}
          [] form = "junk" -> {}
          [] form \in {"word", "call"} /\ expected = "operator" -> OperatorToken(input)
          [] form = "call" /\ expected = "operand" -> CallToken(input)
          [] form = "word" /\ expected = "operand" -> {Reading(Token("Label", text), 1)}

\* The tokens of the rest of the input.
tokenizeFrom[input \in Seq(Lexeme)] ==
    [expected \in Expectations |->
        IF input = <<>>
        THEN {<<EOF>>}
        ELSE UNION {{<<r.token>> \o rest :
                        rest \in tokenizeFrom[From(input, r.length + 1)][Expected(r.token)]} :
                    r \in nextToken(input, expected)}]

tokenize(input) == tokenizeFrom[input]["operand"]

-----------------------------------------------------------------------------
(* The nodes. *)

Having(k) == {l \in Labellings : k \in DOMAIN l}

labelValueNode(op, k, x) ==
    CASE op = "Eq"         -> {l \in Having(k) : l[k] = x}
      [] op = "Ne"         -> {l \in Labellings : k \in DOMAIN l => l[k] # x}
      [] op = "Contains"   -> {l \in Having(k) : x \in Parts[l[k]]}
      [] op = "StartsWith" -> {l \in Having(k) : x \in Beginnings[l[k]]}
      [] op = "EndsWith"   -> {l \in Having(k) : x \in Endings[l[k]]}

labelSetNode(op, k, set) ==
    CASE op = "In"    -> {l \in Having(k) : l[k] \in set}
      [] op = "NotIn" -> {l \in Labellings : k \in DOMAIN l => l[k] \notin set}

notNode(n)    == Labellings \ n
andNode(n, m) == n \cap m
orNode(n, m)  == n \cup m

-----------------------------------------------------------------------------
(* The parser.  A list of tokens ends with that of the end; "parse" is what *)
(* the functions below make of a list of tokens, given for shorter ones.    *)

TokenLists ==
    {t \in Seq(Tokens) : t # <<>> /\ t[Len(t)].kind = "EOF"}

Parsed(node, rem) == [node |-> node, rem |-> rem]

\* The strings of a set literal and its closing brace: a comma may precede it.
setLiteral(tokens, parse) ==
    IF tokens[1].kind = "RBrace"
    THEN {[set |-> {}, rem |-> Tail(tokens)]}
    ELSE IF tokens[1].kind = "StringLiteral" /\ tokens[2].kind = "RBrace"
    THEN {[set |-> {tokens[1].value}, rem |-> From(tokens, 3)]}
    ELSE IF tokens[1].kind = "StringLiteral" /\ tokens[2].kind = "Comma"
    THEN {[set |-> {tokens[1].value} \cup s.set, rem |-> s.rem] : s \in parse[From(tokens, 3)].set}
    ELSE {}

labelOperation(tokens, parse) ==
    LET op == tokens[2].kind
        k  == tokens[1].value
    IN  IF Len(tokens) < 3
        THEN {}
        ELSE IF op \in {"Eq", "Ne", "Contains", "StartsWith", "EndsWith"}
                /\ tokens[3].kind = "StringLiteral"
        THEN {Parsed(labelValueNode(op, k, tokens[3].value), From(tokens, 4))}
        ELSE IF op \in {"In", "NotIn"} /\ tokens[3].kind = "LBrace"
        THEN {Parsed(labelSetNode(op, k, s.set), s.rem) : s \in parse[From(tokens, 4)].set}
        ELSE {}

\* What negations may precede: a test, or a disjunction in parentheses.
operand(tokens, parse) ==
    CASE tokens[1].kind = "Has" -> {Parsed(Having(tokens[1].value), Tail(tokens))}
      [] tokens[1].kind \in {"All", "Global"} -> {Parsed(Labellings, Tail(tokens))}
      [] tokens[1].kind = "Label" -> labelOperation(tokens, parse)
      [] tokens[1].kind = "LParen" ->
            {Parsed(p.node, Tail(p.rem)) :
                p \in {q \in parse[Tail(tokens)].orExpression : q.rem[1].kind = "RParen"}}
      [] OTHER -> {}

\* Mutation: a negation negates all the operations that "&&" joins.
NegatesConjunction(tokens, parse) ==
    IF tokens[1].kind = "Not"
    THEN {Parsed(notNode(p.node), p.rem) : p \in parse[Tail(tokens)].andExpression}
    ELSE operand(tokens, parse)

\* A negation negates one operation; two of them are none.
parseOperation(tokens, parse) ==
    IF tokens[1].kind = "Not"
    THEN {Parsed(notNode(p.node), p.rem) : p \in parse[Tail(tokens)].operation}
    ELSE operand(tokens, parse)

\* One or more operations with "&&" between them; operations: the first.
parseAndExpression(operations, parse) ==
    UNION {IF p.rem[1].kind = "And"
           THEN {Parsed(andNode(p.node, q.node), q.rem) : q \in parse[Tail(p.rem)].andExpression}
           ELSE {p} : p \in operations}

\* One or more of these with "||" between them.
parseOrExpression(expressions, parse) ==
    UNION {IF p.rem[1].kind = "Or"
           THEN {Parsed(orNode(p.node, q.node), q.rem) : q \in parse[Tail(p.rem)].orExpression}
           ELSE {p} : p \in expressions}

parse[tokens \in TokenLists] ==
    LET operations  == parseOperation(tokens, parse)
        expressions == parseAndExpression(operations, parse)
    IN  [set |-> setLiteral(tokens, parse), operation |-> operations,
         andExpression |-> expressions, orExpression |-> parseOrExpression(expressions, parse)]

\* The root of a selector's tree, if it is one.
Parse(selector) ==
    UNION {IF tokens[1].kind = "EOF"
           THEN {Labellings}
           ELSE {p.node : p \in {q \in parse[tokens].orExpression : Len(q.rem) = 1 /\ q.rem[1].kind = "EOF"}} :
           tokens \in tokenize(selector)}

\* The selector's value on the labels; what cannot be parsed selects nothing.
evaluates(text, labels) == \E node \in Parse(text) : labels \in node
=============================================================================
