-------------------------------- MODULE Ledger --------------------------------
(***************************************************************************)
(* What the repository promises a page: whatever the page says rests on    *)
(* one answer the cluster gave, as it was when it was asked; and a         *)
(* question whose answer is kept is asked once, so that everybody who asks *)
(* it is given that answer, a failure like anything else.  How the answers *)
(* are found, and the steps of the operations that ask, are hidden.        *)
(***************************************************************************)
CONSTANTS
    Questions,
    Kept,                   \* the questions whose answers are kept
    AnswersAt(_, _),        \* what a cluster in a state may answer to a question
    StatementsOn(_, _),     \* what may be said on the strength of an answer to a question
    Unfounded               \* what may be said without having asked

VARIABLES
    cluster,    \* the state the cluster is in
    kept,       \* the answers that are kept
    page        \* what has been said

Init == kept = <<>> /\ page = {}

\* The cluster goes its own way.
Change == UNCHANGED <<kept, page>>

AnswersTo(q) == IF q \in DOMAIN kept THEN {kept[q]} ELSE AnswersAt(cluster, q)

Consult(q, a) ==
    /\ kept' = IF q \in Kept \ DOMAIN kept
             THEN [k \in DOMAIN kept \cup {q} |-> IF k = q THEN a ELSE kept[k]]
             ELSE kept
    /\ \/ page' = page
       \/ \E f \in StatementsOn(q, a) : page' = page \cup {f}
    /\ UNCHANGED cluster

SayUnasked ==
    /\ \E f \in Unfounded : page' = page \cup {f}
    /\ UNCHANGED <<cluster, kept>>

Next == Change \/ SayUnasked \/ \E q \in Questions : \E a \in AnswersTo(q) : Consult(q, a)

Spec == Init /\ [][Next]_<<cluster, kept, page>>
===============================================================================
