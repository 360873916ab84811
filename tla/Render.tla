-------------------------------- MODULE Render --------------------------------
(***************************************************************************)
(* Rendering one object after another: processObj, the recursion of        *)
(* templates through Include and IncludeRenderableObject, the set of UIDs  *)
(* already rendered, and the switch to watch mode (pkg/plugin/plugin.go,   *)
(* renderable.go, template_functions_static.go).                           *)
(*                                                                         *)
(* A template is abstracted to the sequence of its call sites.  A site     *)
(* names how the call is made, what it calls, on which objects and under   *)
(* which flag; whatever else decides whether the site is reached (the      *)
(* fields of the object, an answer of the cluster) is left to Advance.     *)
(*                                                                         *)
(* The Go call stack is the variable stack.  Each frame is one template    *)
(* body being executed, with the output it has buffered so far, of which   *)
(* two things are kept: whose view was written, and of whom it was written *)
(* that it "is already printed".                                           *)
(***************************************************************************)
EXTENDS TemplateSet, Sequences

CONSTANTS
    Objects,        \* the objects of the cluster, by UID
    KindOf,         \* Kind() of each object
    GroupOf,        \* GroupVersionKind().Group of each object
    Rel,            \* Rel[r][o]: what the query r of object o finds
    Body,           \* Body[version][name]: the call sites of a template
    MayFail,        \* names of templates whose execution may raise an error
    Configs         \* the settings an invocation may start with

VARIABLES
    cfg,        \* the viper settings rendering depends on
    stack,      \* template executions in progress, outermost first
    rendered,   \* renderEngine.renderedUIDs
    failing,    \* an error is travelling up the Go stack
    page        \* what the last processObj sent to the output

vars == <<userDefinedNames, cfg, stack, rendered, failing, page>>

Names == Embedded \cup Overlay

\* template:   {{ template "name" data }}, resolved inside the executing tree.
\* include:    .Include "name" data
\* render:     .IncludeRenderableObject obj
\* summary:    obj.HealthSummary
Sites == [form : {"template", "include", "render", "summary"}, name : Names,
          bare : BOOLEAN,  \* data is the object itself, not a dict around it
          rel : {"self"} \cup DOMAIN Rel,
          gate : {"always", "deep", "not deep", "owners"}]

Settings == [deep : BOOLEAN, owners : BOOLEAN, shallow : BOOLEAN, local : BOOLEAN,
             short : BOOLEAN, watch : BOOLEAN, watching : BOOLEAN]

Forms == {"template", "include", "render", "summary", "short"}
Trees == {"embedded", "user"}

Frames == [form : Forms, name : Names, tree : Trees, obj : Objects,
           cur : Trees \cup {"nil"},   \* currentTree of the frame's object
           pc : Nat,                   \* call site reached, 0 before the first
           left : SUBSET Objects,      \* targets the site has still to visit
           wrote : SUBSET Objects, claims : SUBSET Objects]

Pages == [top : Objects \cup {"none"}, short : BOOLEAN, erred : BOOLEAN,
          wrote : SUBSET Objects, claims : SUBSET Objects]

ASSUME RenderAssumption ==
    /\ KindOf \in [Objects -> STRING]
    /\ GroupOf \in [Objects -> STRING]
    /\ \A r \in DOMAIN Rel : Rel[r] \in [Objects -> SUBSET Objects]
    /\ \A v \in {"builtin", "overlay"}, n \in Names : Body[v][n] \in Seq(Sites)
    /\ MayFail \subseteq Names
    /\ Configs \subseteq {c \in Settings : ~c.watching}

-----------------------------------------------------------------------------
LiveQueriesDisabled == cfg.shallow \/ cfg.local

\* A KubeGet* call answers nothing when live queries are disabled.
Targets(site, o) ==
    CASE site.rel = "self"   -> {o}
      [] site.rel # "self" /\ LiveQueriesDisabled -> {}
      [] OTHER               -> Rel[site.rel][o]

Open(site) ==
    CASE site.gate = "deep"     -> cfg.deep
      [] site.gate = "not deep" -> ~cfg.deep
      [] site.gate = "owners"   -> cfg.owners
      [] OTHER                  -> TRUE

Idle == stack = <<>>

Top     == stack[Len(stack)]
Callers == SubSeq(stack, 1, Len(stack) - 1)

CallSites(frame) == Body[Lookup(frame.tree, frame.name)][frame.name]
Site(frame)      == CallSites(frame)[frame.pc]
AtSite(frame)    == frame.pc \in 1..Len(CallSites(frame))

WithTop(frames, frame) == [frames EXCEPT ![Len(frames)] = frame]

\* What a template writes goes to the buffer of the top frame, or to the
\* command's output when there is none.
Noted(buffer, views, claims) ==
    [buffer EXCEPT !.wrote = @ \cup views, !.claims = @ \cup claims]

Write(frames, pg, views, claims) ==
    IF frames = <<>>
    THEN [stack |-> frames, page |-> Noted(pg, views, claims)]
    ELSE [stack |-> WithTop(frames, Noted(frames[Len(frames)], views, claims)),
          page  |-> pg]

-----------------------------------------------------------------------------
(***************************************************************************)
(* executeTemplate.  target is the object inside data, bare says that data *)
(* is that object.  Only a bare object whose Kind is the template's name   *)
(* is looked up in renderedUIDs; checkAdd runs before the test of          *)
(* "watching", so the UID is added in watch mode too.                      *)
(***************************************************************************)
IsKindTemplate(name, target) == name = View(KindOf[target], "")

\* The set after checkAdd, when the test before it lets checkAdd run.
\* Mutation: checkAdd only reports and never adds.
checkOnly(done, target, tested) == done
checkAdd(done, target, tested) == IF tested THEN done \cup {target} ELSE done

AlreadyPrinted(name, target, bare, done) ==
    bare /\ IsKindTemplate(name, target) /\ target \in done /\ ~cfg.watching

Frame(form, name, tree, target, bare, cur) ==
    [form |-> form, name |-> name, tree |-> tree, obj |-> target, cur |-> cur,
     pc |-> 0, left |-> {}, claims |-> {},
     wrote |-> IF form = "render" \/ (bare /\ IsKindTemplate(name, target))
               THEN {target} ELSE {}]

executeTemplate(frames, pg, done, form, name, target, bare, receiverTree, cur) ==
    LET tree == resolveIncludeTree(name, receiverTree)
        note == Write(frames, pg, {}, {target})
    IN  IF AlreadyPrinted(name, target, bare, done)
        THEN /\ stack' = note.stack
             /\ page' = note.page
             /\ rendered' = done
             /\ failing' = FALSE
        ELSE /\ rendered' = checkAdd(done, target, bare /\ IsKindTemplate(name, target))
             /\ page' = pg
             /\ IF Lookup(tree, name) = "none"
                THEN stack' = frames /\ failing' = TRUE
                ELSE /\ stack' = Append(frames, Frame(form, name, tree, target, bare, cur))
                     /\ failing' = FALSE

\* render(): the object's own template, run with currentTree set to its tree.
render(frames, pg, done, target) ==
    LET found == findTemplateName(KindOf[target], GroupOf[target])
    IN  executeTemplate(frames, pg, done, "render", found.name, target, TRUE,
                        found.tree, found.tree)

\* HealthSummary: data is a dict around the object, so nothing is deduplicated.
HealthSummary(frames, pg, done, form, target, cur) ==
    executeTemplate(frames, pg, done, form,
                    findSummaryTemplateName(KindOf[target], GroupOf[target]),
                    target, FALSE, cur, cur)

-----------------------------------------------------------------------------
(***************************************************************************)
(* The calls a template body makes.                                        *)
(***************************************************************************)

\* The top frame reaches its call site for one of the targets left there.
Calling(form, target) ==
    /\ ~Idle /\ ~failing
    /\ AtSite(Top)
    /\ Site(Top).form = form
    /\ target \in Top.left

\* The stack once the caller has moved past target.
Visited(target) == WithTop(stack, [Top EXCEPT !.left = @ \ {target}])

\* A query returns fresh objects, whose currentTree is nil; "self" hands on
\* the object with the tree it was rendered from.
DataTree == IF Site(Top).rel = "self" THEN Top.cur ELSE "nil"

StaticCall ==
    \E target \in Objects :
        /\ Calling("template", target)
        /\ IF Lookup(Top.tree, Site(Top).name) = "none"
           THEN stack' = Visited(target) /\ failing' = TRUE
           ELSE /\ stack' = Append(Visited(target),
                                 Frame("template", Site(Top).name, Top.tree, target,
                                       FALSE, DataTree))
                /\ UNCHANGED failing
        /\ UNCHANGED <<userDefinedNames, cfg, rendered, page>>

Include ==
    \E target \in Objects :
        /\ Calling("include", target)
        /\ executeTemplate(Visited(target), page, rendered, "include", Site(Top).name,
                           target, Site(Top).bare, Top.cur, DataTree)
        /\ UNCHANGED <<userDefinedNames, cfg>>

\* Mutation: the call is repeated until the object's view shows up.
IncludeUntilRendered ==
    \E target \in Objects :
        /\ Calling("render", target)
        /\ render(IF target \in Top.wrote THEN Visited(target) ELSE stack,
                  page, rendered, target)
        /\ UNCHANGED <<userDefinedNames, cfg>>

IncludeRenderableObject ==
    \E target \in Objects :
        /\ Calling("render", target)
        /\ render(Visited(target), page, rendered, target)
        /\ UNCHANGED <<userDefinedNames, cfg>>

SummaryCall ==
    \E target \in Objects :
        /\ Calling("summary", target)
        /\ HealthSummary(Visited(target), page, rendered, "summary", target, DataTree)
        /\ UNCHANGED <<userDefinedNames, cfg>>

\* The body moves on to the next site once it is through with this one.  The
\* conditionals around a site decide which of the targets it will visit.
Advance ==
    /\ ~Idle /\ ~failing
    /\ Top.pc <= Len(CallSites(Top))
    /\ Top.left = {}
    /\ LET next == [Top EXCEPT !.pc = @ + 1]
       IN  \E visit \in SUBSET (IF AtSite(next) /\ Open(Site(next))
                                THEN Targets(Site(next), Top.obj) ELSE {}) :
              stack' = WithTop(stack, [next EXCEPT !.left = visit])
    /\ UNCHANGED <<userDefinedNames, cfg, rendered, failing, page>>

\* Executing a template raises an error.
Fail ==
    /\ ~Idle /\ ~failing
    /\ Top.name \in MayFail
    /\ failing' = TRUE
    /\ UNCHANGED <<userDefinedNames, cfg, stack, rendered, page>>

(***************************************************************************)
(* The top frame ends, normally or with the error.  A {{template}} call    *)
(* writes straight into the caller's buffer and hands the error up.        *)
(* Include and HealthSummary return the error, and text/template drops     *)
(* what they returned with it.  renderString swallows the error and the    *)
(* caller prints what was written; the outermost render writes to the      *)
(* command's output, and processObj reports the error and goes on.         *)
(***************************************************************************)
\* Mutation: a failed render prints nothing of what it had written.
KeptOnSuccess(frame) == ~failing \/ frame.form = "template"
Kept(frame) == ~failing \/ frame.form \in {"template", "render"}

Return ==
    /\ ~Idle
    /\ failing \/ Top.pc > Len(CallSites(Top))
    /\ LET out == IF Kept(Top) THEN Write(Callers, page, Top.wrote, Top.claims)
                               ELSE Write(Callers, page, {}, {})
       IN  /\ stack' = out.stack
           /\ page' = [out.page EXCEPT !.erred = @ \/ failing]
    /\ failing' = (failing /\ Top.form \notin {"render", "short"})
    /\ UNCHANGED <<userDefinedNames, cfg, rendered>>

-----------------------------------------------------------------------------
(***************************************************************************)
(* The callbacks of results.Visit and of the watch.                        *)
(***************************************************************************)
NewPage(o) == [top |-> o, short |-> cfg.short, erred |-> FALSE,
               wrote |-> {}, claims |-> {}]

\* The set of UIDs an object's rendering starts with.
\* Mutation: the set made by newRenderEngine is used for every object.
sharedUIDs == rendered
freshUIDs == {}

processObj ==
    \E o \in Objects :
        /\ Idle
        /\ IF cfg.short
           THEN HealthSummary(<<>>, NewPage(o), freshUIDs, "short", o, "nil")
           ELSE render(<<>>, NewPage(o), freshUIDs, o)
        /\ UNCHANGED <<userDefinedNames, cfg>>

\* Mutation: the watch does not switch to shallow mode.
runDeepWatch ==
    /\ Idle /\ cfg.watch /\ ~cfg.watching
    /\ cfg' = [cfg EXCEPT !.watching = TRUE]
    /\ UNCHANGED <<userDefinedNames, stack, rendered, failing, page>>

\* runWatch, once every listed object was printed.
runWatch ==
    /\ Idle /\ cfg.watch /\ ~cfg.watching
    /\ cfg' = [cfg EXCEPT !.shallow = TRUE, !.watching = TRUE]
    /\ UNCHANGED <<userDefinedNames, stack, rendered, failing, page>>

-----------------------------------------------------------------------------
Init ==
    /\ buildTemplateSet
    /\ cfg \in Configs
    /\ page = [top |-> "none", short |-> FALSE, erred |-> FALSE, wrote |-> {}, claims |-> {}]
    /\ stack = <<>>
    /\ rendered = {}
    /\ failing = FALSE

Execute == \/ StaticCall \/ Include \/ IncludeRenderableObject \/ SummaryCall
           \/ Advance \/ Fail \/ Return

Next == Execute \/ processObj \/ runWatch

\* Executing templates is one goroutine that nothing blocks: it always goes
\* on.  Nothing is promised of when the next object or watch event arrives.
Spec == Init /\ [][Next]_vars /\ WF_vars(Execute)

-----------------------------------------------------------------------------
(***************************************************************************)
(* Properties.                                                             *)
(***************************************************************************)
TypeOK ==
    /\ userDefinedNames \subseteq Overlay
    /\ cfg \in Settings
    /\ stack \in Seq(Frames)
    /\ rendered \subseteq Objects
    /\ failing \in BOOLEAN
    /\ page \in Pages

RunsOverlay(frame) == Lookup(frame.tree, frame.name) = "overlay"

\* A call that may legitimately cross into the overlay: one made through the
\* Go code, for a name the user is allowed to override.
OverlayEntry(frame) ==
    /\ frame.form # "template"
    /\ frame.name \in userDefinedNames
    /\ frame.form = "render" \/ Overridable(frame.name)

(***************************************************************************)
(* A user's redefinition of a shared partial is never observed by a        *)
(* built-in template: whenever a definition of the overlay runs, the       *)
(* innermost render() it belongs to reached the overlay by executing a     *)
(* view or summary the user overrode.  This is the promise of              *)
(* resolveIncludeTree's comment (#809); nesting Include, static calls,     *)
(* data dicts and fresh objects in any order must not get around it.       *)
(***************************************************************************)
Isolation ==
    \A i \in 1..Len(stack) :
        RunsOverlay(stack[i]) =>
            \E j \in 1..i :
                /\ OverlayEntry(stack[j])
                /\ \A k \in (j + 1)..i : stack[k].form # "render"

\* The user defines the view (or summary) that applies to object o, and no
\* embedded template is more specific.
UserDefines(o, part) ==
    LET qualified == [base |-> KindOf[o], group |-> GroupOf[o], part |-> part]
        plain     == [base |-> KindOf[o], group |-> "", part |-> part]
    IN  \/ qualified \in userDefinedNames
        \/ plain \in userDefinedNames /\ qualified \notin Embedded

(***************************************************************************)
(* An override applies wherever the Go code is asked for it: the top-level *)
(* object, an inlined one, a summary line and an Include by Kind name,     *)
(* also for a Kind no template ships for (TEMPLATE-API.md:82-92).          *)
(***************************************************************************)
OverrideHonoured ==
    \A i \in 1..Len(stack) :
        LET f == stack[i] IN
        \/ f.form = "render" /\ UserDefines(f.obj, "view")
        \/ f.form \in {"summary", "short"} /\ UserDefines(f.obj, "summary")
        \/ f.form = "include" /\ f.name \in kindTemplateNames \cap userDefinedNames
        => RunsOverlay(f)

\* Objects rendered with the template named after their bare Kind: the ones
\* executeTemplate deduplicates.
Deduplicated(o) == findTemplateName(KindOf[o], GroupOf[o]).name = View(KindOf[o], "")

(***************************************************************************)
(* Outside watch mode the view of such an object is written at most once   *)
(* per page, however the objects refer to one another: two buffers never   *)
(* both hold it, and a buffer merged into its caller adds only new views.  *)
(***************************************************************************)
PrintedOnce ==
    ~cfg.watching =>
        \A i, j \in 1..Len(stack) :
            i # j => \A o \in stack[i].wrote \cap stack[j].wrote : ~Deduplicated(o)

\* The page holds the view of the object it was asked for, whatever was
\* printed before it, was inlined in it or failed in it (plugin.go:112).
TopLevelPrinted == Idle /\ page.top # "none" /\ ~page.short => page.top \in page.wrote

Buffered == page.wrote \cup UNION {stack[i].wrote : i \in 1..Len(stack)}
Claimed  == page.claims \cup UNION {stack[i].claims : i \in 1..Len(stack)}

(***************************************************************************)
(* "X is already printed" is true, as long as nothing failed on the page:  *)
(* X's view is on the page or in a buffer that will reach it.              *)
(***************************************************************************)
ClaimsBacked == ~page.erred /\ ~failing => Claimed \subseteq Buffered

\* Without live queries, and so in watch mode whatever the command line said,
\* rendering never leaves the object it was asked for (plugin.go:71).
FlatWithoutLiveQueries ==
    cfg.watching \/ LiveQueriesDisabled =>
        \A i \in 1..Len(stack) : stack[i].obj = page.top

(***************************************************************************)
(* Every object's rendering ends, also when Kind templates inline one      *)
(* another in a circle under --deep, and although watch mode switches      *)
(* deduplication off.                                                      *)
(***************************************************************************)
RenderTerminates == ~Idle ~> Idle

(***************************************************************************)
(* Claims of the documentation and of messages that the code does not live *)
(* up to; see the findings in the README.                                  *)
(***************************************************************************)

\* renderable.go:207 "skip rendering of the RenderableObject as its already
\* rendered": no object is rendered inside its own rendering.
NeverInsideItself ==
    \A i, j \in 1..Len(stack) :
        i < j /\ stack[i].form = "render" /\ stack[j].form = "render"
            => stack[i].obj # stack[j].obj

=============================================================================
