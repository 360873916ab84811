---------------------------- MODULE SelectorLanguage ----------------------------
(***************************************************************************)
(* What Calico's selector expressions are and mean, apart from how they    *)
(* are parsed: the reference that CalicoSelector is compared with.         *)
(*                                                                         *)
(*   disjunction ::= conjunction [ "||" disjunction ]                      *)
(*   conjunction ::= operation [ "&&" conjunction ]                        *)
(*   operation   ::= "!" operation | "(" disjunction ")" | test            *)
(*   test        ::= "has(" label ")" | "all(" ")" | "global(" ")"         *)
(*                 | label comparison string | label membership "{" set    *)
(*   set         ::= "}" | string "}" | string "," set                     *)
(*                                                                         *)
(* A phrase of a text is a beginning of it that is one of these, any that  *)
(* is: [means, rest], the labels it holds of (or the strings of the set)   *)
(* and the text after it.  "phrases" is that of the shorter texts.         *)
(***************************************************************************)
EXTENDS CalicoSelector

Phrase(means, rest) == [means |-> means, rest |-> rest]

\* Does the text go on with the lexeme?
Begins(text, lexeme) == text # <<>> /\ text[1] = lexeme

\* How they are written.
Comparisons ==
    {<<"equal", <<Symbol("Eq")>>>>, <<"unequal", <<Symbol("Ne")>>>>,
     <<"part", <<Word("contains")>>>>,
     <<"beginning", <<Word("starts"), Word("with")>>>>, <<"beginning", <<Word("startswith")>>>>,
     <<"ending", <<Word("ends"), Word("with")>>>>, <<"ending", <<Word("endswith")>>>>}

Memberships ==
    {<<"in", <<Word("in")>>>>, <<"out", <<Word("not"), Word("in")>>>>,
     <<"out", <<Word("notin")>>>>}

\* The text goes on with these lexemes, from the second, and then one of the form.
GoesOn(text, lexemes, form) ==
    /\ Len(text) >= Len(lexemes) + 2
    /\ \A i \in DOMAIN lexemes : text[i + 1] = lexemes[i]
    /\ text[Len(lexemes) + 2].form = form

\* Does a label that is there, with this value, pass?
Passes(comparison, value, v) ==
    CASE comparison \in {"equal", "unequal"} -> value = v
      [] comparison = "part" -> v \in Parts[value]
      [] comparison = "beginning" -> v \in Beginnings[value]
      [] comparison = "ending" -> v \in Endings[value]

\* The negative tests are the complements of the positive ones, labels without
\* the key included.
Compared(text) ==
    {LET n == Len(c[2]) + 2
         k == text[1].text
     IN  Phrase({l \in Labellings :
                    c[1] # "unequal" <=> k \in DOMAIN l /\ Passes(c[1], l[k], text[n].text)},
                From(text, n + 1)) :
        c \in {d \in Comparisons : GoesOn(text, d[2], "string")}}

Member(text, phrases) ==
    UNION {LET n == Len(c[2]) + 2
               k == text[1].text
           IN  {Phrase({l \in Labellings : c[1] = "in" <=> k \in DOMAIN l /\ l[k] \in s.means}, s.rest) :
                    s \in IF text[n] = Symbol("LBrace") THEN phrases[From(text, n + 1)].set ELSE {}} :
           c \in {d \in Memberships : GoesOn(text, d[2], "symbol")}}

Test(text, phrases) ==
    CASE text[1].form = "word" -> Compared(text) \cup Member(text, phrases)
      [] text[1] = Call("has") ->
            IF Len(text) >= 3 /\ text[2].form = "word" /\ text[3] = Symbol("RParen")
            THEN {Phrase({l \in Labellings : text[2].text \in DOMAIN l}, From(text, 4))} ELSE {}
      [] text[1] \in {Call("all"), Call("global")} ->
            IF Begins(Tail(text), Symbol("RParen")) THEN {Phrase(Labellings, From(text, 3))} ELSE {}
      [] OTHER -> {}

Operation(text, phrases) ==
    IF text = <<>> THEN {}
    ELSE IF text[1] = Symbol("Not")
    THEN {Phrase(Labellings \ p.means, p.rest) : p \in phrases[Tail(text)].operation}
    ELSE IF text[1] = Symbol("LParen")
    THEN {Phrase(p.means, Tail(p.rest)) :
            p \in {q \in phrases[Tail(text)].disjunction : Begins(q.rest, Symbol("RParen"))}}
    ELSE Test(text, phrases)

\* first: the first of the operations that are joined, or the only one.
Conjunction(first, phrases) ==
    first \cup
    UNION {{Phrase(p.means \cap q.means, q.rest) : q \in phrases[Tail(p.rest)].conjunction} :
           p \in {f \in first : Begins(f.rest, Symbol("And"))}}

Disjunction(first, phrases) ==
    first \cup
    UNION {{Phrase(p.means \cup q.means, q.rest) : q \in phrases[Tail(p.rest)].disjunction} :
           p \in {f \in first : Begins(f.rest, Symbol("Or"))}}

Set(text, phrases) ==
    IF Begins(text, Symbol("RBrace"))
    THEN {Phrase({}, Tail(text))}
    ELSE IF Len(text) >= 2 /\ text[1].form = "string" /\ text[2] = Symbol("RBrace")
    THEN {Phrase({text[1].text}, From(text, 3))}
    ELSE IF Len(text) >= 2 /\ text[1].form = "string" /\ text[2] = Symbol("Comma")
    THEN {Phrase({text[1].text} \cup s.means, s.rest) : s \in phrases[From(text, 3)].set}
    ELSE {}

phrases[text \in Seq(Lexeme)] ==
    LET operations   == Operation(text, phrases)
        conjunctions == Conjunction(operations, phrases)
    IN  [set |-> Set(text, phrases), operation |-> operations, conjunction |-> conjunctions,
         disjunction |-> Disjunction(conjunctions, phrases)]

\* What the whole text means.  The empty selector is "all()".
Meaning(text) ==
    IF text = <<>> THEN {Labellings}
    ELSE {p.means : p \in {q \in phrases[text].disjunction : q.rest = <<>>}}

\* A selector has one meaning.
Selects(text, labels) == \E means \in Meaning(text) : Meaning(text) = {means} /\ labels \in means
=============================================================================
