----------------------------- MODULE TemplateSet -----------------------------
(***************************************************************************)
(* The two template trees of pkg/plugin/render_engine.go and the lookups   *)
(* that choose between them.                                               *)
(*                                                                         *)
(* A template name is a record rather than a string: "Service" is          *)
(* View("Service", ""), "Gateway.networking.istio.io" is                   *)
(* View("Gateway", "networking.istio.io"), "Pod.summary" is                *)
(* Summary("Pod", "") and a shared partial such as "resource_ref" is       *)
(* View("resource_ref", ""): the only thing the code ever asks of the      *)
(* spelling of a name is how it was composed and whether it ends in        *)
(* ".summary".                                                             *)
(***************************************************************************)
EXTENDS Naturals

CONSTANTS
    Embedded,   \* the names defined by the templates the binary embeds
    Files,      \* the names of the embedded files (Service.tmpl, common.tmpl)
    Overlay     \* the names ~/.kubectl-status/templates/*.tmpl defines

\* The names the engine believes the overlay defines.  The two trees never
\* change after buildTemplateSet, so this one table is all their state.
VARIABLE userDefinedNames

View(kind, group)    == [base |-> kind, group |-> group, part |-> "view"]
Summary(kind, group) == [base |-> kind, group |-> group, part |-> "summary"]

DefaultResource == View("DefaultResource", "")
GenericSummary  == View("generic_health_summary", "")

\* common.tmpl defines both fallbacks.
ASSUME FallbacksEmbedded == {DefaultResource, GenericSummary} \subseteq Embedded

-----------------------------------------------------------------------------
(***************************************************************************)
(* Building the set.                                                       *)
(***************************************************************************)

\* A file whose basename is itself a defined template is a Kind template;
\* DefaultResource lives inside common.tmpl and is added by hand.
kindTemplateNames == {DefaultResource} \cup (Files \cap Embedded)

\* The overlay counts only when files match, the stand-alone probe parses them
\* and the second parse, into the clone, succeeds as well.
\* Mutation: the probe's own name is not left out of its Templates().
withProbeName(matched, probed, parsed) ==
    IF matched /\ probed /\ parsed THEN Overlay \cup {View("probe", "")} ELSE {}
parseUserOverlay(matched, probed, parsed) ==
    IF matched /\ probed /\ parsed THEN Overlay ELSE {}

buildTemplateSet ==
    \E matched, probed, parsed \in BOOLEAN :
        userDefinedNames = parseUserOverlay(matched, probed, parsed)

\* The definition tree.Lookup(name) finds.  The user tree is a clone of the
\* embedded one with the overlay parsed over it.
Lookup(tree, name) ==
    IF tree = "user" /\ name \in userDefinedNames THEN "overlay"
    ELSE IF name \in Embedded THEN "builtin" ELSE "none"

-----------------------------------------------------------------------------
(***************************************************************************)
(* Choosing a name and a tree.                                             *)
(***************************************************************************)

treeFor(name) == IF name \in userDefinedNames THEN "user" ELSE "embedded"

Defined(name) == name \in Embedded \cup userDefinedNames

findTemplateName(kind, group) ==
    LET name == IF group # "" /\ Defined(View(kind, group)) THEN View(kind, group)
                ELSE IF Defined(View(kind, "")) THEN View(kind, "")
                ELSE DefaultResource
    IN  [tree |-> treeFor(name), name |-> name]

\* findSummaryTemplateName together with the fallback of its only caller,
\* HealthSummary.
findSummaryTemplateName(kind, group) ==
    IF group # "" /\ Defined(Summary(kind, group)) THEN Summary(kind, group)
    ELSE IF Defined(Summary(kind, "")) THEN Summary(kind, "")
    ELSE GenericSummary

\* Names that honour an override wherever they are referenced from.
\* Mutation: only summaries do.
OverridableSummary(name) == name.part = "summary"
Overridable(name) == name \in kindTemplateNames \/ name.part = "summary"

\* current is the receiver's currentTree, "nil" until render() has run on it.
\* Mutation: one namespace for all names, as before #809.
resolveInOneNamespace(name, current) == treeFor(name)
resolveIncludeTree(name, current) ==
    IF Overridable(name) THEN treeFor(name)
    ELSE IF current # "nil" THEN current
    ELSE "embedded"

=============================================================================
