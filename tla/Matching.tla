-------------------------------- MODULE Matching --------------------------------
(***************************************************************************)
(* Three questions the pages ask of what users write, one at a time: which *)
(* labels one of Calico's selectors selects, whether a listener's          *)
(* certificate covers what a route serves through it, and where what a     *)
(* Crossplane provider observes differs from what is configured.           *)
(***************************************************************************)
EXTENDS SelectorLanguage, Hostnames, DriftDocuments

CONSTANTS
    Texts,          \* selectors as they are written
    Checks,         \* listeners with a route and a certificate
    DriftChecks,    \* what is configured, with what is observed
    None

ASSUME MatchingAssumption ==
    /\ Texts \subseteq Seq(Lexeme)
    /\ Checks \subseteq [about : {"certificate"}, listener : SUBSET Patterns,
                         route : SUBSET Patterns, pinned : BOOLEAN, cert : Certificates]
    /\ DriftChecks \subseteq [about : {"drift"}, forProvider : Documents, atProvider : Documents]

VARIABLES
    question,   \* [about, ...]: the input
    answer      \* what the code makes of it, None at first

Questions == {[about |-> "selector", text |-> t] : t \in Texts} \cup Checks \cup DriftChecks

Asked(about)    == question.about = about /\ answer = None /\ UNCHANGED question
Answered(about) == question.about = about /\ answer # None

EvaluateSelector ==
    /\ Asked("selector")
    /\ answer' = {l \in Labellings : evaluates(question.text, l)}

CheckCertificate ==
    /\ Asked("certificate")
    /\ answer' = CertCheck(question.listener, question.route, question.pinned, question.cert)

CompareDocuments ==
    /\ Asked("drift")
    /\ Eligible(question.forProvider, question.atProvider)
    /\ answer' = Diff(question.forProvider, question.atProvider)

MatchingInit == question \in Questions /\ answer = None
MatchingNext == EvaluateSelector \/ CheckCertificate \/ CompareDocuments
MatchingSpec == MatchingInit /\ [][MatchingNext]_<<question, answer>>

-----------------------------------------------------------------------------
\* Every selector of Calico selects what it says, by the language's grammar, on
\* any labels, and one that is none selects nothing (network_policy.go:124-141,
\* "conservatively treated as non-matching").
SelectsAsWritten ==
    Answered("selector") => answer = {l \in Labellings : Selects(question.text, l)}

\* A certificate is reported to mismatch if and only if it does (MismatchIsReal
\* of Hostnames).
MismatchReported ==
    Answered("certificate") =>
        MismatchIsReal(question.listener, question.route, question.pinned, question.cert, answer)

\* A drift is reported if and only if the provider has another value than the
\* configured one (DriftIsDifference of CrossplaneDrift).
DriftReported ==
    Answered("drift") => DriftIsDifference(question.forProvider, question.atProvider, answer)

\* Every reported drift is seen in the rendered difference or named as redacted
\* (DriftIsShown of DriftDocuments).
DriftRendered ==
    Answered("drift") => DriftIsShown(question.forProvider, question.atProvider, answer)
=================================================================================
