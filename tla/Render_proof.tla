------------------------------ MODULE Render_proof ------------------------------
(***************************************************************************)
(* Proofs of the safety properties of Render, for every set of objects,    *)
(* every template set and overlay, and every relation between objects.     *)
(***************************************************************************)
EXTENDS Render, SequenceTheorems, TLAPS

\* Two frames that are one execution at different points.
Same(f, g) ==
    /\ f.form = g.form /\ f.name = g.name /\ f.tree = g.tree
    /\ f.obj = g.obj /\ f.cur = g.cur

(* The top of a stack that is not empty is a frame.                        *)
LEMMA TopIsFrame ==
  ASSUME stack \in Seq(Frames), ~Idle
  PROVE  /\ Len(stack) \in Nat \ {0}
         /\ Len(stack) \in 1..Len(stack)
         /\ Top \in Frames
  BY EmptySeq, ElementOfSeq, LenProperties DEF Idle, Top

(* Replacing the top frame touches no other.                               *)
LEMMA WithTopSeq ==
  ASSUME NEW frames \in Seq(Frames), frames # <<>>, NEW frame \in Frames
  PROVE  /\ WithTop(frames, frame) \in Seq(Frames)
         /\ Len(WithTop(frames, frame)) = Len(frames)
         /\ \A i \in 1..Len(frames) :
               WithTop(frames, frame)[i] = IF i = Len(frames) THEN frame ELSE frames[i]
  <1>1. Len(frames) \in 1..Len(frames)
    BY LenProperties, EmptySeq
  <1> QED
    BY <1>1, ExceptSeq DEF WithTop

(* Noting something in a buffer leaves everything else of it alone.        *)
LEMMA NotedFrame ==
  ASSUME NEW f \in Frames, NEW v, NEW c, v \subseteq Objects, c \subseteq Objects
  PROVE  /\ Noted(f, v, c) \in Frames
         /\ Same(Noted(f, v, c), f)
         /\ Noted(f, v, c).wrote = f.wrote \cup v
         /\ Noted(f, v, c).claims = f.claims \cup c
         /\ Noted(f, v, c).left = f.left
  BY DEF Frames, Same, Noted

LEMMA NotedPage ==
  ASSUME NEW pg \in Pages, NEW v, NEW c, v \subseteq Objects, c \subseteq Objects
  PROVE  /\ Noted(pg, v, c) \in Pages
         /\ Noted(pg, v, c).top = pg.top
         /\ Noted(pg, v, c).short = pg.short
         /\ Noted(pg, v, c).erred = pg.erred
         /\ Noted(pg, v, c).wrote = pg.wrote \cup v
         /\ Noted(pg, v, c).claims = pg.claims \cup c
  BY DEF Pages, Noted

(* A claim that is noted changes nothing else of the page ...              *)
LEMMA ClaimOnPage ==
  ASSUME NEW pg \in Pages, NEW t \in Objects
  PROVE  /\ Noted(pg, {}, {t}) \in Pages
         /\ Noted(pg, {}, {t}).top = pg.top
         /\ Noted(pg, {}, {t}).short = pg.short
         /\ Noted(pg, {}, {t}).erred = pg.erred
         /\ Noted(pg, {}, {t}).wrote = pg.wrote
         /\ Noted(pg, {}, {t}).claims = pg.claims \cup {t}
  BY DEF Pages, Noted

(* ... or of the stack.                                                    *)
LEMMA ClaimOnTop ==
  ASSUME NEW frames \in Seq(Frames), frames # <<>>, NEW t \in Objects
  PROVE  LET s == WithTop(frames, Noted(frames[Len(frames)], {}, {t})) IN
         /\ s \in Seq(Frames)
         /\ Len(s) = Len(frames)
         /\ \A i \in 1..Len(frames) :
               /\ Same(s[i], frames[i])
               /\ s[i].wrote = frames[i].wrote
               /\ s[i].left = frames[i].left
               /\ s[i].claims \subseteq frames[i].claims \cup {t}
  <1> DEFINE n == Len(frames)
             f == Noted(frames[n], {}, {t})
             s == WithTop(frames, f)
  <1>1. n \in 1..n /\ frames[n] \in Frames
    BY LenProperties, EmptySeq, ElementOfSeq
  <1>2. /\ f \in Frames /\ Same(f, frames[n])
        /\ f.wrote = frames[n].wrote /\ f.left = frames[n].left
        /\ f.claims = frames[n].claims \cup {t}
    BY <1>1 DEF Frames, Same, Noted
  <1> HIDE DEF f
  <1>3. /\ s \in Seq(Frames)
        /\ Len(s) = n
        /\ \A i \in 1..n : s[i] = IF i = n THEN f ELSE frames[i]
    BY <1>2, WithTopSeq
  <1> HIDE DEF s
  <1>4. /\ s \in Seq(Frames)
        /\ Len(s) = Len(frames)
        /\ \A i \in 1..Len(frames) :
              /\ Same(s[i], frames[i])
              /\ s[i].wrote = frames[i].wrote
              /\ s[i].left = frames[i].left
              /\ s[i].claims \subseteq frames[i].claims \cup {t}
    BY <1>2, <1>3 DEF Same
  <1> QED
    BY <1>4 DEF s, f

(* Moving past a target touches only what the top frame has left to visit. *)
LEMMA VisitedStack ==
  ASSUME stack \in Seq(Frames), ~Idle, NEW t
  PROVE  /\ Visited(t) \in Seq(Frames)
         /\ Visited(t) # <<>>
         /\ Len(Visited(t)) = Len(stack)
         /\ \A i \in 1..Len(stack) :
               /\ Same(Visited(t)[i], stack[i])
               /\ Visited(t)[i].wrote = stack[i].wrote
               /\ Visited(t)[i].claims = stack[i].claims
               /\ Visited(t)[i].left \subseteq stack[i].left
  <1> DEFINE f == [Top EXCEPT !.left = @ \ {t}]
             s == WithTop(stack, f)
  <1>1. /\ f \in Frames /\ Same(f, Top)
        /\ f.wrote = Top.wrote /\ f.claims = Top.claims /\ f.left \subseteq Top.left
    BY TopIsFrame DEF Frames, Same
  <1>2. stack # <<>> /\ Len(stack) \in Nat \ {0}
    BY TopIsFrame DEF Idle
  <1> HIDE DEF f
  <1>3. /\ s \in Seq(Frames)
        /\ Len(s) = Len(stack)
        /\ \A i \in 1..Len(stack) : s[i] = IF i = Len(stack) THEN f ELSE stack[i]
    BY <1>1, <1>2, WithTopSeq
  <1> HIDE DEF s
  <1>4. /\ s \in Seq(Frames)
        /\ s # <<>>
        /\ Len(s) = Len(stack)
        /\ \A i \in 1..Len(stack) :
              /\ Same(s[i], stack[i])
              /\ s[i].wrote = stack[i].wrote
              /\ s[i].claims = stack[i].claims
              /\ s[i].left \subseteq stack[i].left
    BY <1>1, <1>2, <1>3, EmptySeq DEF Top, Same
  <1> QED
    BY <1>4 DEF Visited, s, f

-----------------------------------------------------------------------------
(***************************************************************************)
(* The lookups.                                                            *)
(***************************************************************************)

(* The tree render() chooses defines the name it chooses, whatever the kind *)
(* and group, and executeTemplate resolves the name in that very tree.      *)
LEMMA FoundTemplate ==
  ASSUME userDefinedNames \subseteq Overlay, NEW kind, NEW group,
         NEW found, found = findTemplateName(kind, group)
  PROVE  /\ found.name \in Names
         /\ found.tree \in Trees
         /\ found.tree = treeFor(found.name)
         /\ resolveIncludeTree(found.name, found.tree) = found.tree
         /\ Lookup(found.tree, found.name) # "none"
  <1>1. found.tree = treeFor(found.name)
    BY DEF findTemplateName
  <1>2. found.name \in Embedded \cup userDefinedNames
    BY FallbacksEmbedded DEF findTemplateName, Defined
  <1>3. found.tree \in Trees /\ found.tree # "nil"
    BY <1>1 DEF treeFor, Trees
  <1>4. resolveIncludeTree(found.name, found.tree) = found.tree
    BY <1>1, <1>3 DEF resolveIncludeTree
  <1>5. Lookup(found.tree, found.name) # "none"
    BY <1>1, <1>2 DEF Lookup, treeFor
  <1> QED
    BY <1>1, <1>2, <1>3, <1>4, <1>5 DEF Names

(* The summary HealthSummary asks for is a summary, or the generic one.     *)
LEMMA FoundSummary ==
  ASSUME userDefinedNames \subseteq Overlay, NEW kind, NEW group
  PROVE  findSummaryTemplateName(kind, group) \in Names
  BY FallbacksEmbedded DEF findSummaryTemplateName, Defined, Names

LEMMA ResolvedTree ==
  ASSUME NEW name, NEW current \in Trees \cup {"nil"}
  PROVE  resolveIncludeTree(name, current) \in Trees
  BY DEF resolveIncludeTree, treeFor, Trees

-----------------------------------------------------------------------------
(***************************************************************************)
(* Types.  The definition of every template being executed exists, which   *)
(* is what gives its call sites a type.                                    *)
(***************************************************************************)
FramesDefined ==
    \A i \in 1..Len(stack) : Lookup(stack[i].tree, stack[i].name) # "none"

TypeInv == TypeOK /\ FramesDefined

LEMMA SitesType ==
  ASSUME TypeInv, ~Idle
  PROVE  /\ CallSites(Top) \in Seq(Sites)
         /\ Len(CallSites(Top)) \in Nat
         /\ AtSite(Top) => Site(Top) \in Sites
  <1>1. Top \in Frames /\ Lookup(Top.tree, Top.name) # "none"
    BY TopIsFrame DEF TypeInv, TypeOK, FramesDefined, Top
  <1>2. Top.name \in Names /\ Lookup(Top.tree, Top.name) \in {"builtin", "overlay"}
    BY <1>1 DEF Frames, Lookup
  <1>3. CallSites(Top) \in Seq(Sites)
    BY <1>2, RenderAssumption DEF CallSites
  <1> QED
    BY <1>3, LenProperties, ElementOfSeq DEF AtSite, Site

(* The tree handed on with the data is one of the two trees, or none.       *)
LEMMA DataTreeType ==
  ASSUME TypeInv, ~Idle
  PROVE  /\ Top.cur \in Trees \cup {"nil"}
         /\ DataTree \in {Top.cur, "nil"}
         /\ DataTree \in Trees \cup {"nil"}
  BY TopIsFrame DEF TypeInv, TypeOK, Frames, DataTree

LEMMA FrameType ==
  ASSUME NEW form \in Forms, NEW name \in Names, NEW tree \in Trees,
         NEW target \in Objects, NEW bare \in BOOLEAN, NEW cur \in Trees \cup {"nil"}
  PROVE  Frame(form, name, tree, target, bare, cur) \in Frames
  BY DEF Frame, Frames

(***************************************************************************)
(* What one call of executeTemplate does to the stack: it skips the object *)
(* and notes a claim, or the template is missing, or it is entered.        *)
(***************************************************************************)
Skipped(frames, pg, done, target) ==
    /\ stack' \in Seq(Frames)
    /\ Len(stack') = Len(frames)
    /\ \A i \in 1..Len(frames) :
          /\ Same(stack'[i], frames[i])
          /\ stack'[i].wrote = frames[i].wrote
          /\ stack'[i].left = frames[i].left
          /\ stack'[i].claims \subseteq frames[i].claims \cup {target}
    /\ page' \in Pages
    /\ page'.top = pg.top /\ page'.short = pg.short
    /\ page'.erred = pg.erred /\ page'.wrote = pg.wrote
    /\ page'.claims \subseteq pg.claims \cup {target}
    /\ rendered' = done
    /\ failing' = FALSE

Missing(frames, pg) ==
    /\ stack' = frames
    /\ page' = pg
    /\ failing' = TRUE

Entered(frames, pg, frame) ==
    /\ stack' = Append(frames, frame)
    /\ page' = pg
    /\ failing' = FALSE

LEMMA ExecuteTemplateCases ==
  ASSUME NEW frames \in Seq(Frames), NEW pg \in Pages, NEW done \in SUBSET Objects,
         NEW form \in Forms, NEW name \in Names, NEW target \in Objects,
         NEW bare \in BOOLEAN, NEW receiverTree \in Trees \cup {"nil"},
         NEW cur \in Trees \cup {"nil"},
         NEW tree, tree = resolveIncludeTree(name, receiverTree),
         executeTemplate(frames, pg, done, form, name, target, bare, receiverTree, cur)
  PROVE  /\ tree \in Trees
         /\ Frame(form, name, tree, target, bare, cur) \in Frames
         /\ \/ AlreadyPrinted(name, target, bare, done) /\ Skipped(frames, pg, done, target)
            \/ /\ ~AlreadyPrinted(name, target, bare, done)
               /\ rendered' = checkAdd(done, target, bare /\ IsKindTemplate(name, target))
               /\ \/ Lookup(tree, name) = "none" /\ Missing(frames, pg)
                  \/ /\ Lookup(tree, name) # "none"
                     /\ Entered(frames, pg, Frame(form, name, tree, target, bare, cur))
  <1>1. tree \in Trees
    BY ResolvedTree
  <1>2. Frame(form, name, tree, target, bare, cur) \in Frames
    BY <1>1, FrameType
  <1>3. CASE ~AlreadyPrinted(name, target, bare, done)
    BY <1>1, <1>2, <1>3 DEF executeTemplate, Missing, Entered
  <1>4. CASE AlreadyPrinted(name, target, bare, done)
    <2>1. rendered' = done /\ failing' = FALSE
      BY <1>4 DEF executeTemplate
    <2>2. CASE frames = <<>>
      <3>1. stack' = frames /\ page' = Noted(pg, {}, {target})
        BY <1>4, <2>2 DEF executeTemplate, Write
      <3>2. /\ page' \in Pages
            /\ page'.top = pg.top /\ page'.short = pg.short
            /\ page'.erred = pg.erred /\ page'.wrote = pg.wrote
            /\ page'.claims \subseteq pg.claims \cup {target}
        BY <3>1, ClaimOnPage
      <3>3. /\ stack' \in Seq(Frames)
            /\ Len(stack') = Len(frames)
            /\ Len(frames) = 0
        BY <2>2, <3>1, EmptySeq
      <3>4. Skipped(frames, pg, done, target)
        BY <2>1, <3>2, <3>3 DEF Skipped
      <3> QED
        BY <1>1, <1>2, <1>4, <3>4
    <2>3. CASE frames # <<>>
      <3>1. /\ stack' = WithTop(frames, Noted(frames[Len(frames)], {}, {target}))
            /\ page' = pg
        BY <1>4, <2>3 DEF executeTemplate, Write
      <3>2. /\ stack' \in Seq(Frames)
            /\ Len(stack') = Len(frames)
            /\ \A i \in 1..Len(frames) :
                  /\ Same(stack'[i], frames[i])
                  /\ stack'[i].wrote = frames[i].wrote
                  /\ stack'[i].left = frames[i].left
                  /\ stack'[i].claims \subseteq frames[i].claims \cup {target}
        BY <2>3, <3>1, ClaimOnTop
      <3>3. /\ page' \in Pages
            /\ page'.top = pg.top /\ page'.short = pg.short
            /\ page'.erred = pg.erred /\ page'.wrote = pg.wrote
            /\ page'.claims \subseteq pg.claims \cup {target}
        BY <3>1
      <3>4. Skipped(frames, pg, done, target)
        BY <2>1, <3>2, <3>3 DEF Skipped
      <3> QED
        BY <1>1, <1>2, <1>4, <3>4
    <2> QED
      BY <2>2, <2>3
  <1> QED
    BY <1>3, <1>4

-----------------------------------------------------------------------------
(***************************************************************************)
(* The frames a call can enter, whichever way the call is made.            *)
(***************************************************************************)

\* The user's tree is reached only by an entry into the overlay, or handed on
\* by a caller that runs in it or whose object was rendered from it.
Handed(f, tree, cur) ==
    f.tree = "user" \/ f.cur = "user" =>
        \/ OverlayEntry(f)
        \/ f.form # "render" /\ (tree = "user" \/ cur = "user")

\* OverrideHonoured, of one frame.
Honoured(f) ==
    \/ f.form = "render" /\ UserDefines(f.obj, "view")
    \/ f.form \in {"summary", "short"} /\ UserDefines(f.obj, "summary")
    \/ f.form = "include" /\ f.name \in kindTemplateNames \cap userDefinedNames
    => RunsOverlay(f)

\* Only objects looked up in renderedUIDs are written and deduplicated.
Tested(f, bare) ==
    \A o \in f.wrote : o = f.obj /\ (Deduplicated(o) => bare /\ IsKindTemplate(f.name, o))

LEMMA StaticFrame ==
  ASSUME NEW name, NEW tree, NEW cur, NEW t, NEW data \in {cur, "nil"},
         NEW f, f = Frame("template", name, tree, t, FALSE, data)
  PROVE  Handed(f, tree, cur) /\ Honoured(f) /\ Tested(f, FALSE)
  BY DEF Frame, Handed, Honoured, Tested

LEMMA IncludeFrame ==
  ASSUME NEW name, NEW cur, NEW tree, NEW t, NEW bare, NEW data \in {cur, "nil"},
         NEW f, f = Frame("include", name, resolveIncludeTree(name, cur), t, bare, data)
  PROVE  Handed(f, tree, cur) /\ Honoured(f) /\ Tested(f, bare)
  <1> DEFINE r == resolveIncludeTree(name, cur)
  <1>1. r = "user" => cur = "user" \/ (Overridable(name) /\ name \in userDefinedNames)
    BY DEF resolveIncludeTree, treeFor
  <1>2. name \in kindTemplateNames \cap userDefinedNames => r = "user"
    BY DEF resolveIncludeTree, treeFor, Overridable
  <1>3. f = Frame("include", name, r, t, bare, data)
    OBVIOUS
  <1> HIDE DEF r
  <1>4. /\ f.form = "include" /\ f.name = name /\ f.tree = r /\ f.cur = data
        /\ f.obj = t
        /\ f.wrote = IF bare /\ IsKindTemplate(name, t) THEN {t} ELSE {}
    BY <1>3 DEF Frame
  <1>5. Handed(f, tree, cur)
    BY <1>1, <1>4 DEF Handed, OverlayEntry
  <1>6. Honoured(f)
    BY <1>2, <1>4 DEF Honoured, RunsOverlay, Lookup
  <1>7. Tested(f, bare)
    BY <1>4 DEF Tested
  <1> QED
    BY <1>5, <1>6, <1>7

LEMMA RenderFrame ==
  ASSUME userDefinedNames \subseteq Overlay, NEW t, NEW tree, NEW cur,
         NEW found, found = findTemplateName(KindOf[t], GroupOf[t]),
         NEW f, f = Frame("render", found.name, found.tree, t, TRUE, found.tree)
  PROVE  Handed(f, tree, cur) /\ Honoured(f) /\ Tested(f, TRUE)
  <1>1. found.tree = treeFor(found.name)
    BY FoundTemplate
  <1>2. /\ f.form = "render" /\ f.name = found.name /\ f.tree = found.tree
        /\ f.cur = found.tree /\ f.obj = t /\ f.wrote = {t}
    BY DEF Frame
  <1>3. Handed(f, tree, cur)
    BY <1>1, <1>2 DEF Handed, OverlayEntry, treeFor
  <1>4. UserDefines(t, "view") => found.name \in userDefinedNames
    BY DEF UserDefines, findTemplateName, Defined, View
  <1>5. Honoured(f)
    BY <1>1, <1>2, <1>4 DEF Honoured, RunsOverlay, Lookup, treeFor
  <1>6. Tested(f, TRUE)
    BY <1>2 DEF Tested, Deduplicated, IsKindTemplate
  <1> QED
    BY <1>3, <1>5, <1>6

LEMMA SummaryFrame ==
  ASSUME NEW form \in {"summary", "short"}, NEW t, NEW tree, NEW cur,
         NEW data \in {cur, "nil"},
         NEW name, name = findSummaryTemplateName(KindOf[t], GroupOf[t]),
         NEW f, f = Frame(form, name, resolveIncludeTree(name, data), t, FALSE, data)
  PROVE  Handed(f, tree, cur) /\ Honoured(f) /\ Tested(f, FALSE)
  <1> DEFINE r == resolveIncludeTree(name, data)
  <1>1. r = "user" => data = "user" \/ (Overridable(name) /\ name \in userDefinedNames)
    BY DEF resolveIncludeTree, treeFor
  <1>2. UserDefines(t, "summary") => name \in userDefinedNames /\ name.part = "summary"
    BY DEF UserDefines, findSummaryTemplateName, Defined, Summary
  <1>3. UserDefines(t, "summary") => r = "user"
    BY <1>2 DEF resolveIncludeTree, treeFor, Overridable
  <1>4. f = Frame(form, name, r, t, FALSE, data)
    OBVIOUS
  <1> HIDE DEF r
  <1>5. /\ f.form = form /\ f.name = name /\ f.tree = r /\ f.cur = data
        /\ f.obj = t /\ f.wrote = {}
    BY <1>4 DEF Frame
  <1>6. Handed(f, tree, cur)
    BY <1>1, <1>5 DEF Handed, OverlayEntry
  <1>7. Honoured(f)
    BY <1>2, <1>3, <1>5 DEF Honoured, RunsOverlay, Lookup
  <1>8. Tested(f, FALSE)
    BY <1>5 DEF Tested
  <1> QED
    BY <1>6, <1>7, <1>8

-----------------------------------------------------------------------------
(***************************************************************************)
(* The shape of a step: the stack keeps its length, grows by a frame that  *)
(* was entered, or shrinks by the frame that returned.                     *)
(***************************************************************************)
Calls == StaticCall \/ Include \/ IncludeRenderableObject \/ SummaryCall

SamePage ==
    /\ page' \in Pages
    /\ page'.top = page.top /\ page'.short = page.short
    /\ page'.erred = page.erred /\ page'.wrote = page.wrote

Steady ==
    /\ stack' \in Seq(Frames)
    /\ Len(stack') = Len(stack)
    /\ \A i \in 1..Len(stack) :
          Same(stack'[i], stack[i]) /\ stack'[i].wrote = stack[i].wrote

\* A call notes claims of what was rendered, and adds no targets.
Narrowed ==
    /\ page'.claims \subseteq page.claims \cup rendered
    /\ \A i \in 1..Len(stack) :
          /\ stack'[i].claims \subseteq stack[i].claims \cup rendered
          /\ stack'[i].left \subseteq stack[i].left

Grows(f) ==
    /\ stack' \in Seq(Frames)
    /\ Len(stack') = Len(stack) + 1
    /\ \A i \in 1..Len(stack) :
          Same(stack'[i], stack[i]) /\ stack'[i].wrote = stack[i].wrote
    /\ stack'[Len(stack) + 1] = f

\* Nothing was done in a frame that was just entered.
Fresh(f) == f.claims = {} /\ f.left = {}

\* What is known of the frame a call enters.
Callee(f) ==
    /\ f \in Frames
    /\ Lookup(f.tree, f.name) # "none"
    /\ Handed(f, Top.tree, Top.cur)
    /\ Honoured(f)
    /\ \A o \in f.wrote :
          Deduplicated(o) /\ ~cfg.watching => o \notin rendered /\ o \in rendered'
    /\ Fresh(f) /\ f.obj \in Top.left /\ rendered' \subseteq rendered \cup f.wrote

CallShape ==
    /\ ~Idle /\ ~failing
    /\ SamePage
    /\ Narrowed
    /\ failing' \in BOOLEAN
    /\ rendered \subseteq rendered' /\ rendered' \subseteq Objects
    /\ UNCHANGED <<userDefinedNames, cfg>>
    /\ \/ Steady /\ (failing' \/ rendered' = rendered)
       \/ \E f : Grows(f) /\ Callee(f)

LEMMA VisitedSteady ==
  ASSUME stack \in Seq(Frames), ~Idle, NEW t, stack' = Visited(t), page' = page
  PROVE  Steady /\ Narrowed
  BY VisitedStack DEF Steady, Narrowed

LEMMA VisitedGrows ==
  ASSUME stack \in Seq(Frames), ~Idle, NEW t, NEW f \in Frames,
         stack' = Append(Visited(t), f), page' = page
  PROVE  Grows(f) /\ Narrowed
  <1> DEFINE s == Visited(t)
  <1>1. /\ s \in Seq(Frames)
        /\ Len(s) = Len(stack) /\ Len(stack) \in Nat
        /\ \A i \in 1..Len(stack) :
              /\ Same(s[i], stack[i]) /\ s[i].wrote = stack[i].wrote
              /\ s[i].claims = stack[i].claims /\ s[i].left \subseteq stack[i].left
    BY VisitedStack, TopIsFrame
  <1>2. stack' = Append(s, f)
    OBVIOUS
  <1> HIDE DEF s
  <1>3. /\ stack' \in Seq(Frames)
        /\ Len(stack') = Len(s) + 1
        /\ \A i \in 1..Len(s) : stack'[i] = s[i]
        /\ stack'[Len(s) + 1] = f
    BY <1>1, <1>2, AppendProperties
  <1> QED
    BY <1>1, <1>3 DEF Grows, Narrowed

(* A call through executeTemplate has the shape, whatever frame it enters. *)
LEMMA ExecuteShape ==
  ASSUME TypeInv, ~Idle, ~failing, NEW t \in Objects, t \in Top.left,
         NEW form \in Forms, NEW name \in Names,
         NEW bare \in BOOLEAN, NEW receiverTree \in Trees \cup {"nil"},
         NEW cur \in Trees \cup {"nil"},
         NEW f, f = Frame(form, name, resolveIncludeTree(name, receiverTree), t, bare, cur),
         Handed(f, Top.tree, Top.cur), Honoured(f), Tested(f, bare),
         executeTemplate(Visited(t), page, rendered, form, name, t, bare, receiverTree, cur),
         UNCHANGED <<userDefinedNames, cfg>>
  PROVE  CallShape
  <1> DEFINE s == Visited(t)
             tree == resolveIncludeTree(name, receiverTree)
  <1>1. /\ s \in Seq(Frames)
        /\ s # <<>>
        /\ Len(s) = Len(stack)
        /\ \A i \in 1..Len(stack) :
              /\ Same(s[i], stack[i]) /\ s[i].wrote = stack[i].wrote
              /\ s[i].claims = stack[i].claims /\ s[i].left \subseteq stack[i].left
    BY VisitedStack DEF TypeInv, TypeOK
  <1>2. page \in Pages /\ rendered \in SUBSET Objects
    BY DEF TypeInv, TypeOK
  <1>3. executeTemplate(s, page, rendered, form, name, t, bare, receiverTree, cur)
    OBVIOUS
  <1> HIDE DEF s
  <1>4. /\ tree \in Trees
        /\ f \in Frames
        /\ \/ AlreadyPrinted(name, t, bare, rendered) /\ Skipped(s, page, rendered, t)
           \/ /\ ~AlreadyPrinted(name, t, bare, rendered)
              /\ rendered' = checkAdd(rendered, t, bare /\ IsKindTemplate(name, t))
              /\ \/ Lookup(tree, name) = "none" /\ Missing(s, page)
                 \/ /\ Lookup(tree, name) # "none"
                    /\ Entered(s, page, f)
    BY <1>1, <1>2, <1>3, ExecuteTemplateCases
  <1>5. CASE AlreadyPrinted(name, t, bare, rendered) /\ Skipped(s, page, rendered, t)
    <2>1. Steady
      BY <1>1, <1>5 DEF Skipped, Steady, Same
    <2>2. /\ SamePage /\ failing' \in BOOLEAN
          /\ rendered' = rendered /\ rendered' \subseteq Objects
      BY <1>2, <1>5 DEF Skipped, SamePage
    <2>3. t \in rendered
      BY <1>5 DEF AlreadyPrinted
    <2>4. Narrowed
      BY <1>1, <1>5, <2>3 DEF Skipped, Narrowed
    <2> QED
      BY <2>1, <2>2, <2>4 DEF CallShape
  <1>6. CASE ~AlreadyPrinted(name, t, bare, rendered)
    <2>1. /\ rendered \subseteq rendered' /\ rendered' \subseteq Objects
          /\ bare /\ IsKindTemplate(name, t) => t \in rendered'
          /\ rendered' # rendered => bare /\ IsKindTemplate(name, t) /\ rendered' = rendered \cup {t}
      BY <1>2, <1>4, <1>6 DEF checkAdd
    <2>2. CASE Missing(s, page)
      <3>1. stack' = Visited(t) /\ page' = page /\ failing' = TRUE
        BY <2>2 DEF Missing, s
      <3>2. Steady /\ Narrowed
        BY <3>1, VisitedSteady DEF TypeInv, TypeOK
      <3>3. SamePage
        BY <1>2, <3>1 DEF SamePage
      <3> QED
        BY <2>1, <3>1, <3>2, <3>3 DEF CallShape
    <2>3. CASE Lookup(tree, name) # "none" /\ Entered(s, page, f)
      <3>1. stack' = Append(Visited(t), f) /\ page' = page /\ failing' \in BOOLEAN
        BY <2>3 DEF Entered, s
      <3>2. Grows(f) /\ Narrowed
        BY <1>4, <3>1, VisitedGrows DEF TypeInv, TypeOK
      <3>3. SamePage
        BY <1>2, <3>1 DEF SamePage
      <3>4. /\ f.tree = tree /\ f.name = name /\ f.obj = t
            /\ bare /\ IsKindTemplate(name, t) => f.wrote = {t}
            /\ Fresh(f)
        BY DEF Frame, Fresh
      <3>5. \A o \in f.wrote :
               Deduplicated(o) /\ ~cfg.watching => o \notin rendered /\ o \in rendered'
        BY <1>6, <2>1, <3>4 DEF Tested, AlreadyPrinted
      <3>6. Callee(f)
        BY <1>4, <2>1, <2>3, <3>4, <3>5 DEF Callee
      <3> QED
        BY <2>1, <3>1, <3>2, <3>3, <3>6 DEF CallShape
    <2> QED
      BY <1>4, <1>6, <2>2, <2>3
  <1> QED
    BY <1>4, <1>5, <1>6

(* Each of the four ways of calling a template has the shape.              *)
LEMMA CallsShape ==
  ASSUME TypeInv, Calls
  PROVE  CallShape
  <1>1. ASSUME NEW t \in Objects, NEW form, Calling(form, t)
        PROVE  ~Idle /\ Site(Top) \in Sites /\ Site(Top).name \in Names
               /\ Site(Top).bare \in BOOLEAN /\ ~failing /\ t \in Top.left
    BY <1>1, SitesType DEF Calling, Sites
  <1>2. userDefinedNames \subseteq Overlay /\ page \in Pages /\ rendered \subseteq Objects
    BY DEF TypeInv, TypeOK
  <1>3. ASSUME StaticCall PROVE CallShape
    <2>1. PICK t \in Objects :
             /\ Calling("template", t)
             /\ IF Lookup(Top.tree, Site(Top).name) = "none"
                THEN stack' = Visited(t) /\ failing' = TRUE
                ELSE /\ stack' = Append(Visited(t),
                                      Frame("template", Site(Top).name, Top.tree, t,
                                            FALSE, DataTree))
                     /\ UNCHANGED failing
             /\ UNCHANGED <<userDefinedNames, cfg, rendered, page>>
      BY <1>3 DEF StaticCall
    <2> DEFINE f == Frame("template", Site(Top).name, Top.tree, t, FALSE, DataTree)
    <2>2. ~Idle /\ Site(Top).name \in Names /\ ~failing /\ t \in Top.left
      BY <1>1, <2>1
    <2>3. Top.tree \in Trees /\ DataTree \in {Top.cur, "nil"} /\ DataTree \in Trees \cup {"nil"}
      BY <2>2, TopIsFrame, DataTreeType DEF TypeInv, TypeOK, Frames
    <2>4. f \in Frames
      BY <2>2, <2>3, FrameType DEF Forms
    <2>5. Handed(f, Top.tree, Top.cur) /\ Honoured(f)
      BY <2>3, StaticFrame
    <2>6. SamePage /\ page' = page /\ rendered' = rendered /\ rendered' \subseteq Objects
      BY <1>2, <2>1 DEF SamePage
    <2>7. CASE Lookup(Top.tree, Site(Top).name) = "none"
      <3>1. stack' = Visited(t) /\ failing' \in BOOLEAN
        BY <2>1, <2>7
      <3>2. Steady /\ Narrowed
        BY <2>2, <2>6, <3>1, VisitedSteady DEF TypeInv, TypeOK
      <3> QED
        BY <2>1, <2>2, <2>6, <3>1, <3>2 DEF CallShape
    <2>8. CASE Lookup(Top.tree, Site(Top).name) # "none"
      <3>1. stack' = Append(Visited(t), f) /\ failing' \in BOOLEAN
        BY <2>1, <2>8 DEF TypeInv, TypeOK
      <3>2. Grows(f) /\ Narrowed
        BY <2>2, <2>4, <2>6, <3>1, VisitedGrows DEF TypeInv, TypeOK
      <3>3. /\ f.tree = Top.tree /\ f.name = Site(Top).name /\ f.obj = t /\ f.wrote = {}
            /\ Fresh(f)
        BY DEF Frame, Fresh
      <3>4. Callee(f)
        BY <2>2, <2>4, <2>5, <2>6, <2>8, <3>3 DEF Callee
      <3> QED
        BY <2>1, <2>2, <2>6, <3>1, <3>2, <3>4 DEF CallShape
    <2> QED
      BY <2>7, <2>8
  <1>4. ASSUME Include PROVE CallShape
    <2>1. PICK t \in Objects :
             /\ Calling("include", t)
             /\ executeTemplate(Visited(t), page, rendered, "include", Site(Top).name,
                                t, Site(Top).bare, Top.cur, DataTree)
             /\ UNCHANGED <<userDefinedNames, cfg>>
      BY <1>4 DEF Include
    <2> DEFINE f == Frame("include", Site(Top).name,
                          resolveIncludeTree(Site(Top).name, Top.cur), t,
                          Site(Top).bare, DataTree)
    <2>2. /\ ~Idle /\ ~failing /\ t \in Top.left
          /\ Site(Top).name \in Names /\ Site(Top).bare \in BOOLEAN
      BY <1>1, <2>1
    <2>3. Top.cur \in Trees \cup {"nil"} /\ DataTree \in {Top.cur, "nil"}
          /\ DataTree \in Trees \cup {"nil"}
      BY <2>2, DataTreeType
    <2>4. Handed(f, Top.tree, Top.cur) /\ Honoured(f) /\ Tested(f, Site(Top).bare)
      BY <2>3, IncludeFrame
    <2>5. "include" \in Forms
      BY DEF Forms
    <2> QED
      BY <2>1, <2>2, <2>3, <2>4, <2>5, ExecuteShape
  <1>5. ASSUME IncludeRenderableObject PROVE CallShape
    <2>1. PICK t \in Objects :
             /\ Calling("render", t)
             /\ render(Visited(t), page, rendered, t)
             /\ UNCHANGED <<userDefinedNames, cfg>>
      BY <1>5 DEF IncludeRenderableObject
    <2> DEFINE found == findTemplateName(KindOf[t], GroupOf[t])
               f == Frame("render", found.name, found.tree, t, TRUE, found.tree)
    <2>2. ~Idle /\ ~failing /\ t \in Top.left
      BY <1>1, <2>1
    <2>3. /\ found.name \in Names /\ found.tree \in Trees \cup {"nil"}
          /\ resolveIncludeTree(found.name, found.tree) = found.tree
      BY <1>2, FoundTemplate
    <2>4. Handed(f, Top.tree, Top.cur) /\ Honoured(f) /\ Tested(f, TRUE)
      BY <1>2, RenderFrame
    <2>5. executeTemplate(Visited(t), page, rendered, "render", found.name, t, TRUE,
                          found.tree, found.tree)
      BY <2>1 DEF render
    <2>6. "render" \in Forms /\ TRUE \in BOOLEAN
      BY DEF Forms
    <2> HIDE DEF found
    <2>7. f = Frame("render", found.name, resolveIncludeTree(found.name, found.tree),
                    t, TRUE, found.tree)
      BY <2>3
    <2> HIDE DEF f
    <2> QED
      BY <2>1, <2>2, <2>3, <2>4, <2>5, <2>6, <2>7, ExecuteShape
  <1>6. ASSUME SummaryCall PROVE CallShape
    <2>1. PICK t \in Objects :
             /\ Calling("summary", t)
             /\ HealthSummary(Visited(t), page, rendered, "summary", t, DataTree)
             /\ UNCHANGED <<userDefinedNames, cfg>>
      BY <1>6 DEF SummaryCall
    <2> DEFINE name == findSummaryTemplateName(KindOf[t], GroupOf[t])
               f == Frame("summary", name, resolveIncludeTree(name, DataTree), t,
                          FALSE, DataTree)
    <2>2. ~Idle /\ ~failing /\ t \in Top.left
      BY <1>1, <2>1
    <2>3. DataTree \in {Top.cur, "nil"} /\ DataTree \in Trees \cup {"nil"}
      BY <2>2, DataTreeType
    <2>4. name \in Names
      BY <1>2, FoundSummary
    <2>5. Handed(f, Top.tree, Top.cur) /\ Honoured(f) /\ Tested(f, FALSE)
      BY <2>3, SummaryFrame
    <2>6. executeTemplate(Visited(t), page, rendered, "summary", name, t, FALSE,
                          DataTree, DataTree)
      BY <2>1 DEF HealthSummary
    <2>7. "summary" \in Forms /\ FALSE \in BOOLEAN
      BY DEF Forms
    <2> HIDE DEF name
    <2> QED
      BY <2>1, <2>2, <2>3, <2>4, <2>5, <2>6, <2>7, ExecuteShape
  <1> QED
    BY <1>3, <1>4, <1>5, <1>6 DEF Calls

(* The caller's buffer, or the page, takes what the ending frame wrote.    *)
LEMMA WriteSeq ==
  ASSUME NEW frames \in Seq(Frames), page \in Pages,
         NEW v, NEW c, v \subseteq Objects, c \subseteq Objects
  PROVE  /\ Write(frames, page, v, c).page \in Pages
         /\ Write(frames, page, v, c).stack \in Seq(Frames)
         /\ Len(Write(frames, page, v, c).stack) = Len(frames)
         /\ \A i \in 1..Len(frames) :
               /\ Same(Write(frames, page, v, c).stack[i], frames[i])
               /\ i # Len(frames) =>
                     Write(frames, page, v, c).stack[i].wrote = frames[i].wrote
               /\ i = Len(frames) =>
                     Write(frames, page, v, c).stack[i].wrote = frames[i].wrote \cup v
               /\ Write(frames, page, v, c).stack[i].left = frames[i].left
               /\ Write(frames, page, v, c).stack[i].claims \subseteq frames[i].claims \cup c
         /\ Write(frames, page, v, c).page.top = page.top
         /\ Write(frames, page, v, c).page.short = page.short
         /\ Write(frames, page, v, c).page.erred = page.erred
         /\ Write(frames, page, v, c).page.claims \subseteq page.claims \cup c
         /\ page.wrote \subseteq Write(frames, page, v, c).page.wrote
         /\ Len(frames) = 0 => Write(frames, page, v, c).page.wrote = page.wrote \cup v
  <1>1. CASE frames = <<>>
    <2>1. /\ Write(frames, page, v, c).stack = frames
          /\ Write(frames, page, v, c).page = Noted(page, v, c)
      BY <1>1 DEF Write
    <2>2. Len(frames) = 0
      BY <1>1, EmptySeq
    <2> QED
      BY <2>1, <2>2, NotedPage
  <1>2. CASE frames # <<>>
    <2> DEFINE n == Len(frames)
               f == Noted(frames[n], v, c)
               s == WithTop(frames, f)
    <2>1. /\ Write(frames, page, v, c).stack = s
          /\ Write(frames, page, v, c).page = page
      BY <1>2 DEF Write
    <2>2. n \in 1..n /\ frames[n] \in Frames
      BY <1>2, LenProperties, EmptySeq, ElementOfSeq
    <2>3. /\ f \in Frames /\ Same(f, frames[n]) /\ f.wrote = frames[n].wrote \cup v
          /\ f.claims = frames[n].claims \cup c /\ f.left = frames[n].left
      BY <2>2, NotedFrame
    <2> HIDE DEF f
    <2>4. /\ s \in Seq(Frames)
          /\ Len(s) = n
          /\ \A i \in 1..n : s[i] = IF i = n THEN f ELSE frames[i]
      BY <1>2, <2>3, WithTopSeq
    <2> HIDE DEF s
    <2>5. /\ s \in Seq(Frames)
          /\ Len(s) = Len(frames)
          /\ \A i \in 1..Len(frames) :
                /\ Same(s[i], frames[i])
                /\ i # Len(frames) => s[i].wrote = frames[i].wrote
                /\ i = Len(frames) => s[i].wrote = frames[i].wrote \cup v
                /\ s[i].left = frames[i].left
                /\ s[i].claims \subseteq frames[i].claims \cup c
      BY <2>3, <2>4 DEF Same
    <2> QED
      BY <1>2, <2>1, <2>2, <2>5
  <1> QED
    BY <1>1, <1>2

LEMMA CallersSeq ==
  ASSUME stack \in Seq(Frames), ~Idle
  PROVE  /\ Callers \in Seq(Frames)
         /\ Len(Callers) = Len(stack) - 1
         /\ \A i \in 1..Len(Callers) : Callers[i] = stack[i]
  <1> DEFINE n == Len(stack) - 1
  <1>1. n \in Nat /\ n \in Int /\ 1 \in Int
    BY TopIsFrame
  <1>2. \A i \in 1..n : stack[i] \in Frames
    BY <1>1, ElementOfSeq
  <1>3. Callers = SubSeq(stack, 1, n)
    BY DEF Callers
  <1> HIDE DEF n
  <1>4. /\ SubSeq(stack, 1, n) \in Seq(Frames)
        /\ Len(SubSeq(stack, 1, n)) = IF 1 <= n THEN n - 1 + 1 ELSE 0
        /\ \A i \in 1..(n - 1 + 1) : SubSeq(stack, 1, n)[i] = stack[1 + i - 1]
    BY <1>1, <1>2, SubSeqProperties
  <1>5. n = Len(stack) - 1
    BY DEF n
  <1> QED
    BY <1>1, <1>3, <1>4, <1>5

Shrinks ==
    /\ stack' \in Seq(Frames)
    /\ Len(stack') = Len(stack) - 1
    /\ \A i \in 1..Len(stack') :
          /\ Same(stack'[i], stack[i])
          /\ i # Len(stack') => stack'[i].wrote = stack[i].wrote
          /\ i = Len(stack') => stack'[i].wrote \subseteq stack[i].wrote \cup Top.wrote

\* What the frame that returns had written goes to its caller, or to the page.
HandedUp ==
    /\ page'.top = page.top /\ page'.short = page.short
    /\ page'.erred = (page.erred \/ failing)
    /\ page.wrote \subseteq page'.wrote
    /\ page'.claims \subseteq page.claims \cup Top.claims
    /\ \A i \in 1..Len(stack') :
          /\ stack'[i].left = stack[i].left
          /\ stack[i].wrote \subseteq stack'[i].wrote
          /\ stack'[i].claims \subseteq stack[i].claims \cup Top.claims
    /\ Kept(Top) =>
          IF Len(stack') = 0 THEN Top.wrote \subseteq page'.wrote
                             ELSE Top.wrote \subseteq stack'[Len(stack')].wrote

LEMMA ReturnShape ==
  ASSUME TypeInv, Return
  PROVE  /\ ~Idle
         /\ Shrinks
         /\ HandedUp
         /\ page' \in Pages
         /\ failing' \in BOOLEAN
         /\ UNCHANGED <<userDefinedNames, cfg, rendered>>
  <1>1. ~Idle /\ UNCHANGED <<userDefinedNames, cfg, rendered>>
    BY DEF Return
  <1>2. stack \in Seq(Frames) /\ page \in Pages /\ failing \in BOOLEAN
    BY DEF TypeInv, TypeOK
  <1>3. /\ Callers \in Seq(Frames)
        /\ Len(Callers) = Len(stack) - 1
        /\ \A i \in 1..Len(Callers) : Callers[i] = stack[i]
    BY <1>1, <1>2, CallersSeq
  <1>4. Top.wrote \subseteq Objects /\ Top.claims \subseteq Objects
    BY <1>1, <1>2, TopIsFrame DEF Frames
  <1>5. PICK v, c :
           /\ v \subseteq Top.wrote /\ c \subseteq Top.claims
           /\ Kept(Top) => v = Top.wrote
           /\ stack' = Write(Callers, page, v, c).stack
           /\ page' = [Write(Callers, page, v, c).page EXCEPT !.erred = @ \/ failing]
    <2>1. CASE Kept(Top)
      BY <2>1 DEF Return
    <2>2. CASE ~Kept(Top)
      BY <2>2 DEF Return
    <2> QED
      BY <2>1, <2>2
  <1>6. failing' \in BOOLEAN
    BY <1>2 DEF Return
  <1>7. v \subseteq Objects /\ c \subseteq Objects
    BY <1>4, <1>5
  <1> DEFINE frames == Callers
             out == Write(frames, page, v, c)
  <1>8. /\ out.page \in Pages
        /\ out.stack \in Seq(Frames)
        /\ Len(out.stack) = Len(frames)
        /\ \A i \in 1..Len(frames) :
              /\ Same(out.stack[i], frames[i])
              /\ i # Len(frames) => out.stack[i].wrote = frames[i].wrote
              /\ i = Len(frames) => out.stack[i].wrote = frames[i].wrote \cup v
              /\ out.stack[i].left = frames[i].left
              /\ out.stack[i].claims \subseteq frames[i].claims \cup c
        /\ out.page.top = page.top /\ out.page.short = page.short
        /\ out.page.erred = page.erred
        /\ out.page.claims \subseteq page.claims \cup c
        /\ page.wrote \subseteq out.page.wrote
        /\ Len(frames) = 0 => out.page.wrote = page.wrote \cup v
    <2>1. frames \in Seq(Frames) /\ page \in Pages
      BY <1>2, <1>3
    <2> HIDE DEF frames
    <2> QED
      BY <2>1, <1>7, WriteSeq
  <1>9. stack' = out.stack /\ page' = [out.page EXCEPT !.erred = @ \/ failing]
    BY <1>5
  <1> HIDE DEF out
  <1>10. page' \in Pages
    <2> DEFINE pg == out.page
    <2>1. pg \in Pages /\ page' = [pg EXCEPT !.erred = @ \/ failing]
      BY <1>8, <1>9
    <2> HIDE DEF pg
    <2>2. pg.erred \in BOOLEAN /\ (pg.erred \/ failing) \in BOOLEAN
      BY <1>2, <2>1 DEF Pages
    <2> QED
      BY <2>1, <2>2 DEF Pages
  <1>11. Shrinks
    <2> DEFINE s == out.stack
    <2>1. /\ s \in Seq(Frames)
          /\ Len(s) = Len(Callers)
          /\ \A i \in 1..Len(Callers) :
                /\ Same(s[i], Callers[i])
                /\ i # Len(Callers) => s[i].wrote = Callers[i].wrote
                /\ i = Len(Callers) => s[i].wrote = Callers[i].wrote \cup v
          /\ stack' = s
      BY <1>8, <1>9
    <2> HIDE DEF s
    <2> QED
      BY <1>3, <1>5, <2>1 DEF Shrinks
  <1>12. HandedUp
    <2> DEFINE s == out.stack
               pg == out.page
               n == Len(Callers)
    <2>1. /\ stack' = s /\ Len(s) = n /\ n \in Nat
          /\ \A i \in 1..n :
                /\ i # n => s[i].wrote = stack[i].wrote
                /\ i = n => s[i].wrote = stack[i].wrote \cup v
                /\ s[i].left = stack[i].left
                /\ s[i].claims \subseteq stack[i].claims \cup c
      BY <1>1, <1>2, <1>3, <1>8, <1>9, TopIsFrame
    <2>2. /\ pg \in Pages /\ page' = [pg EXCEPT !.erred = @ \/ failing]
          /\ pg.top = page.top /\ pg.short = page.short
          /\ pg.erred = page.erred
          /\ pg.claims \subseteq page.claims \cup c
          /\ page.wrote \subseteq pg.wrote
          /\ n = 0 => pg.wrote = page.wrote \cup v
      BY <1>8, <1>9
    <2> HIDE DEF s, pg, n
    <2>3. /\ page'.top = pg.top /\ page'.short = pg.short /\ page'.wrote = pg.wrote
          /\ page'.claims = pg.claims
          /\ page'.erred = (pg.erred \/ failing)
      BY <2>2 DEF Pages
    <2>4. \A i \in 1..Len(stack') :
             /\ stack'[i].left = stack[i].left
             /\ stack[i].wrote \subseteq stack'[i].wrote
             /\ stack'[i].claims \subseteq stack[i].claims \cup Top.claims
      BY <1>5, <2>1
    <2>5. ASSUME Kept(Top)
          PROVE  IF Len(stack') = 0 THEN Top.wrote \subseteq page'.wrote
                                    ELSE Top.wrote \subseteq stack'[Len(stack')].wrote
      <3>1. v = Top.wrote
        BY <1>5, <2>5
      <3> QED
        BY <2>1, <2>2, <2>3, <3>1
    <2> QED
      BY <1>5, <2>2, <2>3, <2>4, <2>5 DEF HandedUp
  <1> QED
    BY <1>1, <1>6, <1>10, <1>11, <1>12

(* Going on within a template changes which targets are left, no more.     *)
LEMMA AdvanceShape ==
  ASSUME TypeInv, Advance
  PROVE  /\ ~Idle /\ ~failing /\ Steady
         /\ \A i \in 1..Len(stack) :
               /\ stack'[i].claims = stack[i].claims
               /\ LiveQueriesDisabled => stack'[i].left \subseteq stack[i].left \cup {stack[i].obj}
  <1>1. ~Idle /\ ~failing /\ stack \in Seq(Frames) /\ stack # <<>>
    BY DEF Advance, TypeInv, TypeOK, Idle
  <1>2. Top \in Frames /\ Len(stack) \in Nat /\ Top = stack[Len(stack)]
    BY <1>1, TopIsFrame DEF Top
  <1> DEFINE next == [Top EXCEPT !.pc = @ + 1]
  <1>3. /\ next \in Frames /\ Same(next, Top)
        /\ next.wrote = Top.wrote /\ next.claims = Top.claims
    BY <1>2 DEF Frames, Same
  <1>4. /\ AtSite(next) => Targets(Site(next), Top.obj) \subseteq Objects
        /\ LiveQueriesDisabled => Targets(Site(next), Top.obj) \subseteq {Top.obj}
    <2>1. CallSites(next) = CallSites(Top)
      BY <1>3 DEF CallSites, Same
    <2>2. AtSite(next) => Site(next) \in Sites
      BY <1>1, <2>1, SitesType, ElementOfSeq DEF AtSite, Site
    <2>3. Top.obj \in Objects
      BY <1>2 DEF Frames
    <2> HIDE DEF next
    <2> QED
      BY <2>2, <2>3, RenderAssumption DEF Targets, Sites
  <1>5. PICK visit \in SUBSET (IF AtSite(next) /\ Open(Site(next))
                               THEN Targets(Site(next), Top.obj) ELSE {}) :
           stack' = WithTop(stack, [next EXCEPT !.left = visit])
    BY DEF Advance
  <1> DEFINE f == [next EXCEPT !.left = visit]
  <1>6. visit \subseteq Objects
    BY <1>4, <1>5
  <1> HIDE DEF next
  <1>7. /\ f \in Frames /\ Same(f, next)
        /\ f.wrote = next.wrote /\ f.claims = next.claims /\ f.left = visit
    BY <1>3, <1>6 DEF Frames, Same
  <1>8. stack' = WithTop(stack, f)
    BY <1>5
  <1> HIDE DEF f
  <1>9. /\ stack' \in Seq(Frames)
        /\ Len(stack') = Len(stack)
        /\ \A i \in 1..Len(stack) : stack'[i] = IF i = Len(stack) THEN f ELSE stack[i]
    BY <1>1, <1>7, <1>8, WithTopSeq
  <1>10. LiveQueriesDisabled => visit \subseteq {Top.obj}
    BY <1>4, <1>5
  <1>11. Steady
    BY <1>1, <1>2, <1>3, <1>7, <1>9 DEF Steady, Same
  <1> QED
    BY <1>1, <1>2, <1>3, <1>7, <1>9, <1>10, <1>11

\* An object's rendering starts: on an empty stack the frame of its view or
\* summary is entered.
Starts(f) ==
    /\ stack' \in Seq(Frames)
    /\ Len(stack') = 1 /\ stack'[1] = f
    /\ f \in Frames
    /\ Lookup(f.tree, f.name) # "none"
    /\ Handed(f, "embedded", "nil")
    /\ Honoured(f)
    /\ \A o \in f.wrote : Deduplicated(o) => o \in rendered'
    /\ Fresh(f) /\ f.obj = page'.top /\ rendered' \subseteq f.wrote
    /\ f.form = "render" => page'.top \in f.wrote
    /\ f.form = "render" \/ page'.short

ProcessShape ==
    /\ Idle
    /\ \/ stack' \in Seq(Frames) /\ Len(stack') = 0 /\ failing' /\ page'.short
       \/ \E f : Starts(f)
    /\ page'.claims = {}
    /\ page' \in Pages
    /\ rendered' \subseteq Objects
    /\ failing' \in BOOLEAN
    /\ UNCHANGED <<userDefinedNames, cfg>>

LEMMA StartShape ==
  ASSUME TypeInv, Idle, NEW t \in Objects, NEW form \in Forms, NEW name \in Names,
         NEW bare \in BOOLEAN, NEW receiverTree \in Trees \cup {"nil"},
         NEW cur \in Trees \cup {"nil"},
         NEW f, f = Frame(form, name, resolveIncludeTree(name, receiverTree), t, bare, cur),
         Handed(f, "embedded", "nil"), Honoured(f), Tested(f, bare),
         cfg.short \/ (form = "render" /\ Lookup(receiverTree, name) # "none"
                                        /\ resolveIncludeTree(name, receiverTree) = receiverTree),
         executeTemplate(<<>>, NewPage(t), {}, form, name, t, bare, receiverTree, cur),
         UNCHANGED <<userDefinedNames, cfg>>
  PROVE  ProcessShape
  <1> DEFINE tree == resolveIncludeTree(name, receiverTree)
             s == <<>>
             pg == NewPage(t)
             done == {}
  <1>1. s \in Seq(Frames) /\ done \in SUBSET Objects
    BY EmptySeq
  <1>2. pg \in Pages /\ pg.top = t /\ pg.claims = {} /\ pg.short = cfg.short
    BY DEF NewPage, Pages, TypeInv, TypeOK, Settings
  <1>3. executeTemplate(s, pg, done, form, name, t, bare, receiverTree, cur)
    OBVIOUS
  <1>4. ~AlreadyPrinted(name, t, bare, done)
    BY DEF AlreadyPrinted
  <1> HIDE DEF s, pg, done
  <1>5. /\ tree \in Trees
        /\ f \in Frames
        /\ rendered' = checkAdd(done, t, bare /\ IsKindTemplate(name, t))
        /\ \/ Lookup(tree, name) = "none" /\ Missing(s, pg)
           \/ /\ Lookup(tree, name) # "none"
              /\ Entered(s, pg, f)
    BY <1>1, <1>2, <1>3, <1>4, ExecuteTemplateCases
  <1>6. /\ rendered' \subseteq Objects
        /\ bare /\ IsKindTemplate(name, t) => t \in rendered'
        /\ rendered' \subseteq {t}
        /\ ~(bare /\ IsKindTemplate(name, t)) => rendered' = {}
    BY <1>1, <1>5 DEF checkAdd, done
  <1>7. CASE Lookup(tree, name) = "none" /\ Missing(s, pg)
    <2>1. stack' \in Seq(Frames) /\ Len(stack') = 0
      BY <1>7, EmptySeq DEF Missing, s
    <2> QED
      BY <1>2, <1>6, <1>7, <2>1 DEF Missing, ProcessShape
  <1>8. CASE Lookup(tree, name) # "none" /\ Entered(s, pg, f)
    <2>1. stack' = <<f>> /\ page' = pg /\ failing' = FALSE
      BY <1>8 DEF Entered, s
    <2>2. /\ f.tree = tree /\ f.name = name /\ f.obj = t /\ f.form = form
          /\ form = "render" \/ (bare /\ IsKindTemplate(name, t)) => f.wrote = {t}
          /\ Fresh(f)
      BY DEF Frame, Fresh
    <2>3. \A o \in f.wrote : Deduplicated(o) => o \in rendered'
      BY <1>6, <2>2 DEF Tested
    <2> HIDE DEF tree
    <2>4. Starts(f)
      <3>1. stack' \in Seq(Frames) /\ Len(stack') = 1 /\ stack'[1] = f
        BY <1>5, <2>1
      <3> QED
        BY <1>2, <1>5, <1>6, <1>8, <2>1, <2>2, <2>3, <3>1 DEF Starts
    <2>5. page' \in Pages /\ page'.claims = {} /\ failing' \in BOOLEAN
      BY <1>2, <2>1
    <2> QED
      BY <1>6, <2>4, <2>5 DEF ProcessShape
  <1> QED
    BY <1>5, <1>7, <1>8

LEMMA ProcessObjShape ==
  ASSUME TypeInv, processObj
  PROVE  ProcessShape
  <1>1. PICK t \in Objects :
           /\ Idle
           /\ IF cfg.short
              THEN HealthSummary(<<>>, NewPage(t), {}, "short", t, "nil")
              ELSE render(<<>>, NewPage(t), {}, t)
           /\ UNCHANGED <<userDefinedNames, cfg>>
    BY DEF processObj, freshUIDs
  <1>2. userDefinedNames \subseteq Overlay
    BY DEF TypeInv, TypeOK
  <1>3. CASE cfg.short
    <2> DEFINE name == findSummaryTemplateName(KindOf[t], GroupOf[t])
               f == Frame("short", name, resolveIncludeTree(name, "nil"), t, FALSE, "nil")
    <2>1. name \in Names
      BY <1>2, FoundSummary
    <2>2. Handed(f, "embedded", "nil") /\ Honoured(f) /\ Tested(f, FALSE)
      BY SummaryFrame
    <2>3. executeTemplate(<<>>, NewPage(t), {}, "short", name, t, FALSE, "nil", "nil")
      BY <1>1, <1>3 DEF HealthSummary
    <2>4. "short" \in Forms /\ FALSE \in BOOLEAN /\ "nil" \in Trees \cup {"nil"}
      BY DEF Forms
    <2> HIDE DEF name
    <2> QED
      BY <1>1, <1>3, <2>1, <2>2, <2>3, <2>4, StartShape
  <1>4. CASE ~cfg.short
    <2> DEFINE found == findTemplateName(KindOf[t], GroupOf[t])
               f == Frame("render", found.name, found.tree, t, TRUE, found.tree)
    <2>1. /\ found.name \in Names /\ found.tree \in Trees \cup {"nil"}
          /\ resolveIncludeTree(found.name, found.tree) = found.tree
          /\ Lookup(found.tree, found.name) # "none"
      BY <1>2, FoundTemplate
    <2>2. Handed(f, "embedded", "nil") /\ Honoured(f) /\ Tested(f, TRUE)
      BY <1>2, RenderFrame
    <2>3. executeTemplate(<<>>, NewPage(t), {}, "render", found.name, t, TRUE,
                          found.tree, found.tree)
      BY <1>1, <1>4 DEF render
    <2>4. "render" \in Forms /\ TRUE \in BOOLEAN
      BY DEF Forms
    <2> HIDE DEF found
    <2>5. f = Frame("render", found.name, resolveIncludeTree(found.name, found.tree),
                    t, TRUE, found.tree)
      BY <2>1
    <2> HIDE DEF f
    <2> QED
      BY <1>1, <2>1, <2>2, <2>3, <2>4, <2>5, StartShape
  <1> QED
    BY <1>3, <1>4

-----------------------------------------------------------------------------
(***************************************************************************)
(* Type correctness.                                                       *)
(***************************************************************************)
LEMMA TypeInit == Init => TypeInv
  <1> SUFFICES ASSUME Init PROVE TypeInv
    OBVIOUS
  <1>1. userDefinedNames \subseteq Overlay
    BY DEF Init, buildTemplateSet, parseUserOverlay
  <1>2. cfg \in Settings
    BY RenderAssumption DEF Init
  <1>3. stack \in Seq(Frames) /\ Len(stack) = 0
    BY EmptySeq DEF Init
  <1>4. rendered \subseteq Objects /\ failing \in BOOLEAN /\ page \in Pages
    BY DEF Init, Pages
  <1>5. FramesDefined
    BY <1>3 DEF FramesDefined
  <1> QED
    BY <1>1, <1>2, <1>3, <1>4, <1>5 DEF TypeInv, TypeOK

LEMMA TypeStep == TypeInv /\ [Next]_vars => TypeInv'
  <1> SUFFICES ASSUME TypeInv, [Next]_vars PROVE TypeInv'
    OBVIOUS
  <1> USE DEF TypeInv
  <1>1. ASSUME Steady, userDefinedNames' = userDefinedNames PROVE FramesDefined'
    <2>1. \A i \in 1..Len(stack') : Lookup(stack'[i].tree, stack'[i].name) # "none"
      BY <1>1 DEF Steady, Same, FramesDefined
    <2> QED
      BY <1>1, <2>1 DEF FramesDefined, Lookup
  <1>2. CASE Calls
    <2>1. CallShape
      BY <1>2, CallsShape
    <2>2. TypeOK'
      BY <2>1 DEF CallShape, SamePage, Steady, Grows, TypeOK
    <2>3. FramesDefined'
      <3>1. CASE Steady
        BY <1>1, <2>1, <3>1 DEF CallShape
      <3>2. CASE \E f : Grows(f) /\ Callee(f)
        <4>1. PICK f : Grows(f) /\ Callee(f)
          BY <3>2
        <4>2. Len(stack) \in Nat
          BY LenProperties DEF TypeOK
        <4>3. \A i \in 1..Len(stack') :
                 Lookup(stack'[i].tree, stack'[i].name) # "none"
          BY <4>1, <4>2 DEF Grows, Callee, Same, FramesDefined
        <4> QED
          BY <2>1, <4>3 DEF FramesDefined, Lookup, CallShape
      <3> QED
        BY <2>1, <3>1, <3>2 DEF CallShape
    <2> QED
      BY <2>2, <2>3
  <1>3. CASE Advance
    <2>1. Steady
      BY <1>3, AdvanceShape
    <2>2. UNCHANGED <<userDefinedNames, cfg, rendered, failing, page>>
      BY <1>3 DEF Advance
    <2> QED
      BY <1>1, <2>1, <2>2 DEF TypeOK, Steady
  <1>4. CASE Fail
    BY <1>4 DEF Fail, TypeOK, FramesDefined, Lookup
  <1>5. CASE Return
    <2>1. /\ Shrinks /\ page' \in Pages /\ failing' \in BOOLEAN
          /\ UNCHANGED <<userDefinedNames, cfg, rendered>>
      BY <1>5, ReturnShape
    <2>2. TypeOK'
      BY <2>1 DEF Shrinks, TypeOK
    <2>3. Len(stack) \in Nat
      BY LenProperties DEF TypeOK
    <2>4. \A i \in 1..Len(stack') : Lookup(stack'[i].tree, stack'[i].name) # "none"
      BY <2>1, <2>3 DEF Shrinks, Same, FramesDefined
    <2> QED
      BY <2>1, <2>2, <2>4 DEF FramesDefined, Lookup
  <1>6. CASE processObj
    <2>1. ProcessShape
      BY <1>6, ProcessObjShape
    <2>2. /\ stack' \in Seq(Frames)
          /\ \A i \in 1..Len(stack') : Lookup(stack'[i].tree, stack'[i].name) # "none"
      BY <2>1, EmptySeq DEF ProcessShape, Starts
    <2> QED
      BY <2>1, <2>2 DEF ProcessShape, TypeOK, FramesDefined, Lookup
  <1>7. CASE runWatch
    <2>1. cfg' \in Settings
      BY <1>7 DEF runWatch, TypeOK, Settings
    <2> QED
      BY <1>7, <2>1 DEF runWatch, TypeOK, FramesDefined, Lookup
  <1>8. CASE UNCHANGED vars
    BY <1>8 DEF vars, TypeOK, FramesDefined, Lookup
  <1> QED
    BY <1>2, <1>3, <1>4, <1>5, <1>6, <1>7, <1>8 DEF Next, Execute, Calls

(* Types; in particular every template that runs is defined in its tree,   *)
(* and the engine believes in no overlay name the overlay does not define. *)
THEOREM RenderTypeOK == Spec => []TypeOK
  <1>1. TypeInv => TypeOK
    BY DEF TypeInv
  <1> QED
    BY <1>1, TypeInit, TypeStep, PTL DEF Spec

-----------------------------------------------------------------------------
(***************************************************************************)
(* Overlay isolation.  That a definition of the overlay runs is not        *)
(* inductive by itself: a built-in template whose object was rendered from *)
(* the user's tree may hand that tree on.  The invariant therefore speaks  *)
(* of both trees of a frame.                                               *)
(***************************************************************************)
\* Frame i of the stack s runs inside a render() that entered the overlay.
InOverlay(s, i) ==
    \E j \in 1..i : OverlayEntry(s[j]) /\ \A k \in (j + 1)..i : s[k].form # "render"

UserTreesEntered ==
    \A i \in 1..Len(stack) :
        stack[i].tree = "user" \/ stack[i].cur = "user" => InOverlay(stack, i)

(* Whether a frame is inside the overlay depends on the frames up to it.   *)
LEMMA InOverlaySame ==
  ASSUME NEW s, NEW t, NEW i \in Nat, \A j \in 1..i : Same(t[j], s[j]), InOverlay(s, i)
  PROVE  InOverlay(t, i)
  <1>1. PICK j \in 1..i : OverlayEntry(s[j]) /\ \A k \in (j + 1)..i : s[k].form # "render"
    BY DEF InOverlay
  <1>2. OverlayEntry(t[j])
    BY <1>1 DEF OverlayEntry, Same
  <1>3. \A k \in (j + 1)..i : t[k].form # "render"
    BY <1>1 DEF Same
  <1> QED
    BY <1>2, <1>3 DEF InOverlay

(* A call that does not open a render() stays where its caller is.         *)
LEMMA InOverlayNext ==
  ASSUME NEW s, NEW i \in Nat, InOverlay(s, i), s[i + 1].form # "render"
  PROVE  InOverlay(s, i + 1)
  <1>1. PICK j \in 1..i : OverlayEntry(s[j]) /\ \A k \in (j + 1)..i : s[k].form # "render"
    BY DEF InOverlay
  <1>2. j \in 1..(i + 1) /\ \A k \in (j + 1)..(i + 1) : s[k].form # "render"
    BY <1>1
  <1> QED
    BY <1>1, <1>2 DEF InOverlay

LEMMA InOverlayHere ==
  ASSUME NEW s, NEW i \in Nat \ {0}, OverlayEntry(s[i])
  PROVE  InOverlay(s, i)
  BY DEF InOverlay

\* UserTreesEntered, of any stack.
EnteredIn(s) ==
    \A i \in 1..Len(s) : s[i].tree = "user" \/ s[i].cur = "user" => InOverlay(s, i)

(* A stack whose frames are the old ones up to its length keeps it.        *)
LEMMA EnteredPrefix ==
  ASSUME NEW s, NEW t, Len(s) \in Nat, Len(t) \in Nat, Len(t) <= Len(s),
         \A i \in 1..Len(t) : Same(t[i], s[i]), EnteredIn(s)
  PROVE  EnteredIn(t)
  <1> SUFFICES ASSUME NEW i \in 1..Len(t), t[i].tree = "user" \/ t[i].cur = "user"
               PROVE  InOverlay(t, i)
    BY DEF EnteredIn
  <1>1. i \in Nat /\ i \in 1..Len(s) /\ \A j \in 1..i : Same(t[j], s[j])
    OBVIOUS
  <1>2. InOverlay(s, i)
    BY <1>1 DEF EnteredIn, Same
  <1> QED
    BY <1>1, <1>2, InOverlaySame

(* So does one that grew by a frame its caller hands the tree to.          *)
LEMMA EnteredGrows ==
  ASSUME stack \in Seq(Frames), ~Idle, EnteredIn(stack),
         NEW t, Len(t) = Len(stack) + 1,
         \A i \in 1..Len(stack) : Same(t[i], stack[i]),
         Handed(t[Len(stack) + 1], Top.tree, Top.cur)
  PROVE  EnteredIn(t)
  <1> DEFINE n == Len(stack)
  <1>1. n \in Nat \ {0} /\ Top = stack[n]
    BY TopIsFrame DEF Top
  <1> SUFFICES ASSUME NEW i \in 1..Len(t), t[i].tree = "user" \/ t[i].cur = "user"
               PROVE  InOverlay(t, i)
    BY DEF EnteredIn
  <1>2. CASE i \in 1..n
    <2>1. i \in Nat /\ \A j \in 1..i : Same(t[j], stack[j])
      BY <1>1, <1>2
    <2>2. InOverlay(stack, i)
      BY <1>2, <2>1 DEF EnteredIn, Same
    <2> QED
      BY <2>1, <2>2, InOverlaySame
  <1>3. CASE i = n + 1
    <2>1. CASE OverlayEntry(t[i])
      BY <1>1, <1>3, <2>1, InOverlayHere
    <2>2. CASE t[i].form # "render" /\ (Top.tree = "user" \/ Top.cur = "user")
      <3>1. InOverlay(stack, n)
        BY <1>1, <2>2 DEF EnteredIn
      <3>2. InOverlay(t, n)
        BY <1>1, <3>1, InOverlaySame
      <3> QED
        BY <1>1, <1>3, <2>2, <3>2, InOverlayNext
    <2> QED
      BY <1>3, <2>1, <2>2 DEF Handed
  <1> QED
    BY <1>1, <1>2, <1>3

(* The invariant, restated of the next stack with the tables of this state. *)
LEMMA EnteredNext ==
  ASSUME userDefinedNames' = userDefinedNames, EnteredIn(stack')
  PROVE  UserTreesEntered'
  BY DEF UserTreesEntered, EnteredIn, InOverlay, OverlayEntry

IsolationInv == TypeInv /\ UserTreesEntered

LEMMA IsolationStep == IsolationInv /\ [Next]_vars => UserTreesEntered'
  <1> SUFFICES ASSUME IsolationInv, [Next]_vars PROVE UserTreesEntered'
    OBVIOUS
  <1>1. TypeInv /\ stack \in Seq(Frames) /\ Len(stack) \in Nat /\ EnteredIn(stack)
    BY LenProperties DEF IsolationInv, TypeInv, TypeOK, UserTreesEntered, EnteredIn
  <1>2. ASSUME Steady PROVE EnteredIn(stack')
    BY <1>1, <1>2, EnteredPrefix DEF Steady
  <1>3. CASE Calls
    <2>1. CallShape
      BY <1>1, <1>3, CallsShape
    <2>2. CASE \E f : Grows(f) /\ Callee(f)
      <3>1. PICK f : Grows(f) /\ Callee(f)
        BY <2>2
      <3>2. Handed(stack'[Len(stack) + 1], Top.tree, Top.cur)
        BY <3>1 DEF Grows, Callee
      <3>3. EnteredIn(stack')
        BY <1>1, <2>1, <3>1, <3>2, EnteredGrows DEF CallShape, Grows
      <3> QED
        BY <2>1, <3>3, EnteredNext DEF CallShape
    <2> QED
      BY <1>2, <2>1, <2>2, EnteredNext DEF CallShape
  <1>4. CASE Advance
    <2>1. Steady /\ userDefinedNames' = userDefinedNames
      BY <1>1, <1>4, AdvanceShape DEF Advance
    <2> QED
      BY <1>2, <2>1, EnteredNext
  <1>5. CASE Return
    <2>1. Shrinks /\ userDefinedNames' = userDefinedNames
      BY <1>1, <1>5, ReturnShape
    <2>2. EnteredIn(stack')
      <3>1. Len(stack') \in Nat
        BY <2>1, LenProperties DEF Shrinks
      <3> QED
        BY <1>1, <2>1, <3>1, EnteredPrefix DEF Shrinks
    <2> QED
      BY <2>1, <2>2, EnteredNext
  <1>6. CASE processObj
    <2>1. ProcessShape
      BY <1>1, <1>6, ProcessObjShape
    <2>2. CASE Len(stack') = 0
      BY <2>2 DEF UserTreesEntered
    <2>3. CASE \E f : Starts(f)
      <3>1. PICK f : Starts(f)
        BY <2>3
      <3>2. \A i \in 1..Len(stack') : i = 1 /\ stack'[i] = f
        BY <3>1 DEF Starts
      <3>3. f.tree = "user" \/ f.cur = "user" => OverlayEntry(f)
        BY <3>1 DEF Starts, Handed
      <3>4. EnteredIn(stack')
        BY <3>2, <3>3, InOverlayHere DEF EnteredIn
      <3> QED
        BY <2>1, <3>4, EnteredNext DEF ProcessShape
    <2> QED
      BY <2>1, <2>2, <2>3 DEF ProcessShape
  <1>7. CASE Fail \/ runWatch \/ UNCHANGED vars
    <2>1. stack' = stack /\ userDefinedNames' = userDefinedNames
      BY <1>7 DEF Fail, runWatch, vars
    <2> QED
      BY <1>1, <2>1, EnteredNext
  <1> QED
    BY <1>3, <1>4, <1>5, <1>6, <1>7 DEF Next, Execute, Calls

(* A definition of the overlay runs only inside a render() that entered    *)
(* the overlay by a view or summary the user overrides: the promise of     *)
(* resolveIncludeTree's comment, for every overlay and nesting of calls.   *)
THEOREM OverlayIsolation == Spec => []Isolation
  <1>1. Init => IsolationInv
    <2> SUFFICES ASSUME Init PROVE IsolationInv
      OBVIOUS
    <2>1. TypeInv
      BY TypeInit
    <2>2. Len(stack) = 0
      BY EmptySeq DEF Init
    <2> QED
      BY <2>1, <2>2 DEF IsolationInv, UserTreesEntered
  <1>2. IsolationInv /\ [Next]_vars => IsolationInv'
    BY TypeStep, IsolationStep DEF IsolationInv
  <1>3. IsolationInv => Isolation
    BY DEF IsolationInv, UserTreesEntered, InOverlay, Isolation, RunsOverlay, Lookup
  <1> QED
    BY <1>1, <1>2, <1>3, PTL DEF Spec

-----------------------------------------------------------------------------
(***************************************************************************)
(* Overrides are honoured, a property of each frame on its own.            *)
(***************************************************************************)
HonouredIn(s) == \A i \in 1..Len(s) : Honoured(s[i])

LEMMA HonouredSame ==
  ASSUME NEW f, NEW g, Same(g, f), Honoured(f)
  PROVE  Honoured(g)
  BY DEF Honoured, Same, RunsOverlay

LEMMA HonouredNext ==
  ASSUME userDefinedNames' = userDefinedNames, HonouredIn(stack')
  PROVE  OverrideHonoured'
  BY DEF OverrideHonoured, HonouredIn, Honoured, RunsOverlay, UserDefines, Lookup

LEMMA HonouredStep == TypeInv /\ OverrideHonoured /\ [Next]_vars => OverrideHonoured'
  <1> SUFFICES ASSUME TypeInv, OverrideHonoured, [Next]_vars PROVE OverrideHonoured'
    OBVIOUS
  <1>1. stack \in Seq(Frames) /\ Len(stack) \in Nat
    BY LenProperties DEF TypeInv, TypeOK
  <1>2. HonouredIn(stack)
    BY DEF OverrideHonoured, HonouredIn, Honoured
  <1>3. ASSUME Steady PROVE HonouredIn(stack')
    BY <1>1, <1>2, <1>3, HonouredSame DEF HonouredIn, Steady
  <1>4. CASE Calls
    <2>1. CallShape
      BY <1>4, CallsShape
    <2>2. CASE \E f : Grows(f) /\ Callee(f)
      <3>1. PICK f : Grows(f) /\ Callee(f)
        BY <2>2
      <3>2. HonouredIn(stack')
        <4> SUFFICES ASSUME NEW i \in 1..Len(stack') PROVE Honoured(stack'[i])
          BY DEF HonouredIn
        <4>1. CASE i \in 1..Len(stack)
          BY <1>2, <3>1, <4>1, HonouredSame DEF Grows, HonouredIn
        <4>2. CASE i = Len(stack) + 1
          BY <3>1, <4>2 DEF Grows, Callee
        <4> QED
          BY <1>1, <3>1, <4>1, <4>2 DEF Grows
      <3> QED
        BY <2>1, <3>2, HonouredNext DEF CallShape
    <2> QED
      BY <1>3, <2>1, <2>2, HonouredNext DEF CallShape
  <1>5. CASE Advance
    <2>1. Steady /\ userDefinedNames' = userDefinedNames
      BY <1>5, AdvanceShape DEF Advance
    <2> QED
      BY <1>3, <2>1, HonouredNext
  <1>6. CASE Return
    <2>1. Shrinks /\ userDefinedNames' = userDefinedNames
      BY <1>6, ReturnShape
    <2>2. HonouredIn(stack')
      BY <1>1, <1>2, <2>1, HonouredSame DEF Shrinks, HonouredIn
    <2> QED
      BY <2>1, <2>2, HonouredNext
  <1>7. CASE processObj
    <2>1. ProcessShape
      BY <1>7, ProcessObjShape
    <2>2. HonouredIn(stack')
      BY <2>1 DEF ProcessShape, Starts, HonouredIn
    <2> QED
      BY <2>1, <2>2, HonouredNext DEF ProcessShape
  <1>8. CASE Fail \/ runWatch \/ UNCHANGED vars
    <2>1. stack' = stack /\ userDefinedNames' = userDefinedNames
      BY <1>8 DEF Fail, runWatch, vars
    <2> QED
      BY <1>2, <2>1, HonouredNext
  <1> QED
    BY <1>4, <1>5, <1>6, <1>7, <1>8 DEF Next, Execute, Calls

(* Wherever the Go code is asked for a view or summary the user defines,   *)
(* the user's definition is the one that runs (TEMPLATE-API.md:82-92).     *)
THEOREM OverridesApply == Spec => []OverrideHonoured
  <1>1. Init => TypeInv /\ OverrideHonoured
    BY TypeInit, EmptySeq DEF Init, OverrideHonoured
  <1>2. (TypeInv /\ OverrideHonoured) /\ [Next]_vars => (TypeInv /\ OverrideHonoured)'
    BY TypeStep, HonouredStep
  <1> QED
    BY <1>1, <1>2, PTL DEF Spec

-----------------------------------------------------------------------------
(***************************************************************************)
(* Nothing is printed twice.  The strengthening: what a buffer holds of    *)
(* the deduplicated objects is in renderedUIDs, so that a frame entered    *)
(* later cannot hold it as well.                                           *)
(***************************************************************************)
\* Of stack s: the buffers are accounted for in done, and disjoint.
Accounted(s, done) ==
    \A i \in 1..Len(s) : \A o \in s[i].wrote : Deduplicated(o) => o \in done

Disjoint(s) ==
    \A i, j \in 1..Len(s) :
        i # j => \A o \in s[i].wrote \cap s[j].wrote : ~Deduplicated(o)

OnceInv ==
    ~cfg.watching => Accounted(stack, rendered) /\ Disjoint(stack)

LEMMA OnceNext ==
  ASSUME userDefinedNames' = userDefinedNames, NEW s, s = stack',
         NEW done, done = rendered',
         ~cfg'.watching => Accounted(s, done) /\ Disjoint(s)
  PROVE  OnceInv'
  BY DEF OnceInv, Accounted, Disjoint, Deduplicated, findTemplateName, Defined, treeFor

LEMMA OnceStep == TypeInv /\ OnceInv /\ [Next]_vars => OnceInv'
  <1> SUFFICES ASSUME TypeInv, OnceInv, [Next]_vars PROVE OnceInv'
    OBVIOUS
  <1>1. stack \in Seq(Frames) /\ Len(stack) \in Nat
    BY LenProperties DEF TypeInv, TypeOK
  <1>2. ASSUME Steady, rendered \subseteq rendered', cfg' = cfg
        PROVE  ~cfg'.watching => Accounted(stack', rendered') /\ Disjoint(stack')
    BY <1>1, <1>2 DEF OnceInv, Steady, Accounted, Disjoint
  <1>3. CASE Calls
    <2>1. CallShape
      BY <1>3, CallsShape
    <2>2. CASE \E f : Grows(f) /\ Callee(f)
      <3>1. PICK f : Grows(f) /\ Callee(f)
        BY <2>2
      <3> DEFINE s == stack'
                 n == Len(stack)
      <3>2. /\ Len(s) = n + 1 /\ n \in Nat
            /\ \A i \in 1..n : s[i].wrote = stack[i].wrote
            /\ s[n + 1].wrote = f.wrote
        BY <1>1, <3>1 DEF Grows
      <3>3. rendered \subseteq rendered' /\ cfg' = cfg
            /\ userDefinedNames' = userDefinedNames
        BY <2>1 DEF CallShape
      <3> SUFFICES ASSUME ~cfg'.watching
                   PROVE  Accounted(s, rendered') /\ Disjoint(s)
        BY <3>3, OnceNext
      <3>4. \A o \in f.wrote : Deduplicated(o) => o \notin rendered /\ o \in rendered'
        BY <3>1, <3>3 DEF Callee
      <3>5. Accounted(stack, rendered) /\ Disjoint(stack)
        BY <3>3 DEF OnceInv
      <3> HIDE DEF s, n
      <3>6. \A i \in 1..n : \A o \in s[i].wrote : Deduplicated(o) => o \in rendered
        BY <3>2, <3>5 DEF Accounted, n
      <3>7. Accounted(s, rendered')
        BY <3>2, <3>3, <3>4, <3>6 DEF Accounted
      <3>8. Disjoint(s)
        <4> SUFFICES ASSUME NEW i \in 1..Len(s), NEW j \in 1..Len(s), i # j,
                            NEW o \in s[i].wrote \cap s[j].wrote, Deduplicated(o)
                     PROVE  FALSE
          BY DEF Disjoint
        <4>1. CASE i \in 1..n /\ j \in 1..n
          BY <3>2, <3>5, <4>1 DEF Disjoint, n
        <4>2. CASE i = n + 1 /\ j \in 1..n
          BY <3>2, <3>4, <3>6, <4>2
        <4>3. CASE j = n + 1 /\ i \in 1..n
          BY <3>2, <3>4, <3>6, <4>3
        <4> QED
          BY <3>2, <4>1, <4>2, <4>3
      <3> QED
        BY <3>7, <3>8
    <2>3. CASE Steady
      BY <1>2, <2>1, <2>3, OnceNext DEF CallShape
    <2> QED
      BY <2>1, <2>2, <2>3 DEF CallShape
  <1>4. CASE Advance
    <2>1. Steady /\ UNCHANGED <<userDefinedNames, cfg, rendered>>
      BY <1>4, AdvanceShape DEF Advance
    <2> QED
      BY <1>2, <2>1, OnceNext
  <1>5. CASE Return
    <2>1. Shrinks /\ UNCHANGED <<userDefinedNames, cfg, rendered>> /\ ~Idle
      BY <1>5, ReturnShape
    <2> DEFINE s == stack'
               n == Len(stack)
    <2>2. /\ n \in Nat \ {0} /\ Len(s) = n - 1
          /\ \A i \in 1..Len(s) :
                /\ i # Len(s) => s[i].wrote = stack[i].wrote
                /\ i = Len(s) => s[i].wrote \subseteq stack[i].wrote \cup stack[n].wrote
      BY <1>1, <2>1, TopIsFrame DEF Shrinks, Top
    <2> SUFFICES ASSUME ~cfg'.watching
                 PROVE  Accounted(s, rendered') /\ Disjoint(s)
      BY <2>1, OnceNext
    <2>3. Accounted(stack, rendered) /\ Disjoint(stack) /\ rendered' = rendered
      BY <2>1 DEF OnceInv
    <2> HIDE DEF s
    <2>4. Accounted(s, rendered')
      BY <2>2, <2>3 DEF Accounted
    <2>5. Disjoint(s)
      <3> SUFFICES ASSUME NEW i \in 1..Len(s), NEW j \in 1..Len(s), i # j,
                          NEW o \in s[i].wrote \cap s[j].wrote, Deduplicated(o)
                   PROVE  FALSE
        BY DEF Disjoint
      <3>1. i \in 1..n /\ j \in 1..n /\ i # n /\ j # n /\ n \in 1..n
        BY <2>2
      <3>2. CASE i # Len(s) /\ j # Len(s)
        BY <2>2, <2>3, <3>1, <3>2 DEF Disjoint
      <3>3. CASE i = Len(s)
        <4>1. o \in stack[j].wrote
          BY <2>2, <3>3
        <4>2. o \in stack[i].wrote \/ o \in stack[n].wrote
          BY <2>2, <3>3
        <4> QED
          BY <2>3, <3>1, <4>1, <4>2 DEF Disjoint
      <3>4. CASE j = Len(s)
        <4>1. o \in stack[i].wrote
          BY <2>2, <3>4
        <4>2. o \in stack[j].wrote \/ o \in stack[n].wrote
          BY <2>2, <3>4
        <4> QED
          BY <2>3, <3>1, <4>1, <4>2 DEF Disjoint
      <3> QED
        BY <3>2, <3>3, <3>4
    <2> QED
      BY <2>4, <2>5
  <1>6. CASE processObj
    <2>1. ProcessShape
      BY <1>6, ProcessObjShape
    <2>2. Accounted(stack', rendered') /\ Disjoint(stack')
      BY <2>1 DEF ProcessShape, Starts, Accounted, Disjoint
    <2> QED
      BY <2>1, <2>2, OnceNext DEF ProcessShape
  <1>7. CASE Fail \/ UNCHANGED vars
    <2>1. stack' = stack /\ rendered' = rendered /\ cfg' = cfg
          /\ userDefinedNames' = userDefinedNames
      BY <1>7 DEF Fail, vars
    <2> QED
      BY <2>1, OnceNext DEF OnceInv
  <1>8. CASE runWatch
    <2>1. cfg'.watching = TRUE /\ userDefinedNames' = userDefinedNames
      BY <1>8 DEF runWatch, TypeInv, TypeOK, Settings
    <2> QED
      BY <2>1, OnceNext
  <1> QED
    BY <1>3, <1>4, <1>5, <1>6, <1>7, <1>8 DEF Next, Execute, Calls

(* Outside watch mode no two buffers hold the view of one deduplicated     *)
(* object, whatever circles the objects' references form.                  *)
THEOREM NothingPrintedTwice == Spec => []PrintedOnce
  <1>1. Init => TypeInv /\ OnceInv
    <2> SUFFICES ASSUME Init PROVE OnceInv
      BY TypeInit
    <2>1. Len(stack) = 0
      BY EmptySeq DEF Init
    <2> QED
      BY <2>1 DEF OnceInv, Accounted, Disjoint
  <1>2. (TypeInv /\ OnceInv) /\ [Next]_vars => (TypeInv /\ OnceInv)'
    BY TypeStep, OnceStep
  <1>3. OnceInv => PrintedOnce
    BY DEF OnceInv, Disjoint, PrintedOnce
  <1> QED
    BY <1>1, <1>2, <1>3, PTL DEF Spec

-----------------------------------------------------------------------------
(***************************************************************************)
(* Without live queries.  The strengthening: neither is any other object   *)
(* left to visit, and watching means that there are no live queries.       *)
(***************************************************************************)
OnlyTop(s, top) == \A i \in 1..Len(s) : s[i].obj = top /\ s[i].left \subseteq {top}

FlatInv ==
    /\ cfg.watching => LiveQueriesDisabled
    /\ LiveQueriesDisabled => OnlyTop(stack, page.top)

LEMMA FlatNext ==
  ASSUME FlatInv, cfg' = cfg, NEW s, s = stack', NEW top, top = page'.top,
         LiveQueriesDisabled => OnlyTop(s, top)
  PROVE  FlatInv'
  BY DEF FlatInv, LiveQueriesDisabled, OnlyTop

LEMMA FlatStep == TypeInv /\ FlatInv /\ [Next]_vars => FlatInv'
  <1> SUFFICES ASSUME TypeInv, FlatInv, [Next]_vars PROVE FlatInv'
    OBVIOUS
  <1>1. stack \in Seq(Frames) /\ Len(stack) \in Nat
    BY LenProperties DEF TypeInv, TypeOK
  <1>2. LiveQueriesDisabled => OnlyTop(stack, page.top)
    BY DEF FlatInv
  <1>3. CASE Calls
    <2>1. CallShape
      BY <1>3, CallsShape
    <2>2. cfg' = cfg /\ page'.top = page.top /\ Narrowed /\ ~Idle
      BY <2>1 DEF CallShape, SamePage
    <2>3. CASE Steady
      <3>1. LiveQueriesDisabled => OnlyTop(stack', page'.top)
        BY <1>1, <1>2, <2>2, <2>3 DEF OnlyTop, Steady, Narrowed, Same
      <3> QED
        BY <2>2, <3>1, FlatNext
    <2>4. CASE \E f : Grows(f) /\ Callee(f)
      <3>1. PICK f : Grows(f) /\ Callee(f)
        BY <2>4
      <3>2. f.obj \in Top.left /\ f.left = {}
        BY <3>1 DEF Callee, Fresh
      <3>3. ASSUME LiveQueriesDisabled PROVE OnlyTop(stack', page'.top)
        <4>1. f.obj = page.top
          BY <1>1, <1>2, <2>2, <3>2, <3>3, TopIsFrame DEF OnlyTop, Top
        <4>2. ASSUME NEW i \in 1..Len(stack)
              PROVE  stack'[i].obj = page.top /\ stack'[i].left \subseteq {page.top}
          BY <1>2, <2>2, <3>1, <3>3, <4>2 DEF OnlyTop, Grows, Narrowed, Same
        <4>3. Len(stack') = Len(stack) + 1 /\ stack'[Len(stack) + 1] = f
          BY <3>1 DEF Grows
        <4> QED
          BY <1>1, <2>2, <3>2, <4>1, <4>2, <4>3 DEF OnlyTop
      <3> QED
        BY <2>2, <3>3, FlatNext
    <2> QED
      BY <2>1, <2>3, <2>4 DEF CallShape
  <1>4. CASE Advance
    <2>1. /\ Steady /\ page' = page /\ cfg' = cfg
          /\ \A i \in 1..Len(stack) :
                LiveQueriesDisabled => stack'[i].left \subseteq stack[i].left \cup {stack[i].obj}
      BY <1>4, AdvanceShape DEF Advance
    <2>2. ASSUME LiveQueriesDisabled PROVE OnlyTop(stack', page'.top)
      BY <1>1, <1>2, <2>1, <2>2 DEF OnlyTop, Steady, Same
    <2> QED
      BY <2>1, <2>2, FlatNext
  <1>5. CASE Return
    <2>1. Shrinks /\ HandedUp /\ cfg' = cfg
      BY <1>5, ReturnShape
    <2>2. LiveQueriesDisabled => OnlyTop(stack', page'.top)
      BY <1>1, <1>2, <2>1 DEF OnlyTop, Shrinks, HandedUp, Same
    <2> QED
      BY <2>1, <2>2, FlatNext
  <1>6. CASE processObj
    <2>1. ProcessShape
      BY <1>6, ProcessObjShape
    <2>2. OnlyTop(stack', page'.top)
      BY <2>1 DEF ProcessShape, Starts, Fresh, OnlyTop
    <2> QED
      BY <2>1, <2>2, FlatNext DEF ProcessShape
  <1>7. CASE runWatch
    <2>1. stack' = stack /\ stack = <<>> /\ cfg'.shallow
      BY <1>7 DEF runWatch, Idle, TypeInv, TypeOK, Settings
    <2>2. Len(stack') = 0
      BY <2>1, EmptySeq
    <2> QED
      BY <2>1, <2>2 DEF FlatInv, LiveQueriesDisabled, OnlyTop
  <1>8. CASE Fail \/ UNCHANGED vars
    BY <1>2, <1>8, FlatNext DEF Fail, vars
  <1> QED
    BY <1>3, <1>4, <1>5, <1>6, <1>7, <1>8 DEF Next, Execute, Calls

(* Without live queries, and so in watch mode whatever the command line    *)
(* said, no other object's template ever runs (plugin.go:71).              *)
THEOREM WatchingStaysFlat == Spec => []FlatWithoutLiveQueries
  <1>1. Init => TypeInv /\ FlatInv
    <2> SUFFICES ASSUME Init PROVE FlatInv
      BY TypeInit
    <2>1. Len(stack) = 0 /\ ~cfg.watching
      BY EmptySeq, RenderAssumption DEF Init
    <2> QED
      BY <2>1 DEF FlatInv, OnlyTop
  <1>2. (TypeInv /\ FlatInv) /\ [Next]_vars => (TypeInv /\ FlatInv)'
    BY TypeStep, FlatStep
  <1>3. FlatInv => FlatWithoutLiveQueries
    BY DEF FlatInv, OnlyTop, FlatWithoutLiveQueries
  <1> QED
    BY <1>1, <1>2, <1>3, PTL DEF Spec

-----------------------------------------------------------------------------
(***************************************************************************)
(* The object asked for is printed.  The strengthening: while it is being  *)
(* rendered its view is in the buffer of the outermost frame, which is     *)
(* kept whether it ends in an error or not.                                *)
(***************************************************************************)
Holds(s, pg) ==
    pg.top # "none" /\ ~pg.short =>
        IF Len(s) = 0 THEN pg.top \in pg.wrote
                      ELSE s[1].form = "render" /\ pg.top \in s[1].wrote

LEMMA HeldStep ==
  ASSUME TypeInv, Holds(stack, page), [Next]_vars
  PROVE  Holds(stack', page')
  <1>1. stack \in Seq(Frames) /\ Len(stack) \in Nat
    BY LenProperties DEF TypeInv, TypeOK
  <1>2. Idle <=> Len(stack) = 0
    BY <1>1, EmptySeq DEF Idle
  <1>3. CASE Calls
    <2>1. CallShape
      BY <1>3, CallsShape
    <2>2. page'.top = page.top /\ page'.short = page.short /\ ~Idle
      BY <2>1 DEF CallShape, SamePage
    <2>3. Steady \/ \E f : Grows(f)
      BY <2>1 DEF CallShape
    <2>4. Len(stack') >= Len(stack) /\ stack'[1].form = stack[1].form
          /\ stack'[1].wrote = stack[1].wrote /\ Len(stack') \in Nat
      BY <1>1, <1>2, <2>2, <2>3 DEF Steady, Grows, Same
    <2> QED
      BY <1>1, <1>2, <2>2, <2>4 DEF Holds
  <1>4. CASE Advance
    <2>1. Steady /\ page' = page /\ ~Idle
      BY <1>4, AdvanceShape DEF Advance
    <2> QED
      BY <1>1, <1>2, <2>1 DEF Holds, Steady, Same
  <1>5. CASE Return
    <2>1. Shrinks /\ HandedUp /\ ~Idle
      BY <1>5, ReturnShape
    <2>2. SUFFICES ASSUME page.top # "none", ~page.short PROVE Holds(stack', page')
      BY <2>1 DEF HandedUp, Holds
    <2>3. stack[1].form = "render" /\ page.top \in stack[1].wrote
      BY <1>2, <2>1, <2>2 DEF Holds
    <2>4. CASE Len(stack') = 0
      <3>1. Top = stack[1]
        <4>1. Len(stack') = Len(stack) - 1
          BY <2>1 DEF Shrinks
        <4>2. Len(stack) = 1
          BY <1>1, <2>4, <4>1
        <4> QED
          BY <4>2 DEF Top
      <3>2. Kept(Top)
        BY <2>3, <3>1 DEF Kept
      <3> QED
        BY <2>1, <2>3, <2>4, <3>1, <3>2 DEF HandedUp, Holds
    <2>5. CASE Len(stack') # 0
      <3>1. 1 \in 1..Len(stack')
        BY <1>1, <1>2, <2>1, <2>5 DEF Shrinks
      <3>2. stack'[1].form = stack[1].form /\ stack[1].wrote \subseteq stack'[1].wrote
        BY <2>1, <3>1 DEF Shrinks, HandedUp, Same
      <3> QED
        BY <2>1, <2>3, <2>5, <3>2 DEF HandedUp, Holds
    <2> QED
      BY <2>4, <2>5
  <1>6. CASE processObj
    <2>1. ProcessShape
      BY <1>6, ProcessObjShape
    <2> QED
      BY <2>1 DEF ProcessShape, Starts, Holds
  <1>7. CASE Fail \/ runWatch \/ UNCHANGED vars
    BY <1>7 DEF Fail, runWatch, vars
  <1> QED
    BY <1>3, <1>4, <1>5, <1>6, <1>7 DEF Next, Execute, Calls

(* The page of an object holds its view when it is done, whatever failed   *)
(* or was printed before (plugin.go:112).                                  *)
THEOREM TopLevelIsPrinted == Spec => []TopLevelPrinted
  <1> DEFINE HeldInv == Holds(stack, page)
  <1>1. Init => TypeInv /\ HeldInv
    BY TypeInit DEF Init, Holds
  <1>2. (TypeInv /\ HeldInv) /\ [Next]_vars => (TypeInv /\ HeldInv)'
    BY TypeStep, HeldStep
  <1>3. HeldInv => TopLevelPrinted
    BY EmptySeq DEF Holds, TopLevelPrinted, Idle
  <1> QED
    BY <1>1, <1>2, <1>3, PTL DEF Spec

-----------------------------------------------------------------------------
(***************************************************************************)
(* "Already printed" is true while nothing failed.  The strengthening: the *)
(* view of whatever is in renderedUIDs is on the page or in a buffer.      *)
(***************************************************************************)
InBuffer(o, s, pg) == o \in pg.wrote \/ \E i \in 1..Len(s) : o \in s[i].wrote

Backed(s, pg, done) ==
    /\ \A o \in pg.claims : InBuffer(o, s, pg)
    /\ \A i \in 1..Len(s) : \A o \in s[i].claims : InBuffer(o, s, pg)
    /\ \A o \in done : InBuffer(o, s, pg)

BackedInv == ~page.erred /\ ~failing => Backed(stack, page, rendered)

LEMMA BackedStep == TypeInv /\ BackedInv /\ [Next]_vars => BackedInv'
  <1> SUFFICES ASSUME TypeInv, BackedInv, [Next]_vars, ~page'.erred, ~failing'
               PROVE  Backed(stack', page', rendered')
    BY DEF BackedInv
  <1>1. stack \in Seq(Frames) /\ Len(stack) \in Nat
    BY LenProperties DEF TypeInv, TypeOK
  <1>2. CASE Calls
    <2>1. CallShape
      BY <1>2, CallsShape
    <2>2. /\ ~failing /\ ~page.erred /\ page'.wrote = page.wrote
          /\ page'.claims \subseteq page.claims \cup rendered
          /\ \A i \in 1..Len(stack) : stack'[i].claims \subseteq stack[i].claims \cup rendered
      BY <2>1 DEF CallShape, SamePage, Narrowed
    <2>3. Backed(stack, page, rendered)
      BY <2>2 DEF BackedInv
    <2>4. CASE Steady /\ (failing' \/ rendered' = rendered)
      <3>1. \A o : InBuffer(o, stack, page) => InBuffer(o, stack', page')
        BY <2>2, <2>4 DEF Steady, InBuffer
      <3>2. Len(stack') = Len(stack) /\ rendered' = rendered
        BY <2>4 DEF Steady
      <3> QED
        BY <2>2, <2>3, <3>1, <3>2 DEF Backed
    <2>5. CASE \E f : Grows(f) /\ Callee(f)
      <3>1. PICK f : Grows(f) /\ Callee(f)
        BY <2>5
      <3>2. /\ Len(stack') = Len(stack) + 1 /\ stack'[Len(stack) + 1] = f
            /\ \A i \in 1..Len(stack) : stack'[i].wrote = stack[i].wrote
            /\ f.claims = {} /\ rendered' \subseteq rendered \cup f.wrote
        BY <3>1 DEF Grows, Callee, Fresh
      <3>3. \A o : InBuffer(o, stack, page) => InBuffer(o, stack', page')
        BY <1>1, <2>2, <3>2 DEF InBuffer
      <3>4. \A o \in f.wrote : InBuffer(o, stack', page')
        BY <1>1, <3>2 DEF InBuffer
      <3>5. \A o \in page'.claims : InBuffer(o, stack', page')
        BY <2>2, <2>3, <3>3 DEF Backed
      <3>6. \A i \in 1..Len(stack') : \A o \in stack'[i].claims : InBuffer(o, stack', page')
        BY <1>1, <2>2, <2>3, <3>2, <3>3 DEF Backed
      <3>7. \A o \in rendered' : InBuffer(o, stack', page')
        BY <2>3, <3>2, <3>3, <3>4 DEF Backed
      <3> QED
        BY <3>5, <3>6, <3>7 DEF Backed
    <2> QED
      BY <2>1, <2>4, <2>5 DEF CallShape
  <1>3. CASE Advance
    <2>1. /\ Steady /\ page' = page /\ rendered' = rendered /\ failing' = failing
          /\ \A i \in 1..Len(stack) : stack'[i].claims = stack[i].claims
      BY <1>3, AdvanceShape DEF Advance
    <2>2. Backed(stack, page, rendered)
      BY <2>1 DEF BackedInv
    <2>3. \A o : InBuffer(o, stack, page) => InBuffer(o, stack', page')
      BY <2>1 DEF Steady, InBuffer
    <2>4. Len(stack') = Len(stack)
      BY <2>1 DEF Steady
    <2> QED
      BY <2>1, <2>2, <2>3, <2>4 DEF Backed
  <1>4. CASE Return
    <2>1. Shrinks /\ HandedUp /\ ~Idle /\ rendered' = rendered
      BY <1>4, ReturnShape
    <2>2. ~page.erred /\ ~failing
      BY <2>1 DEF HandedUp
    <2>3. Backed(stack, page, rendered)
      BY <2>2 DEF BackedInv
    <2> DEFINE n == Len(stack)
    <2>4. n \in Nat \ {0} /\ Len(stack') = n - 1 /\ Top = stack[n]
      BY <1>1, <2>1, TopIsFrame DEF Shrinks, Top
    <2>5. Kept(Top)
      BY <2>2 DEF Kept
    <2>6. \A o \in Top.wrote : InBuffer(o, stack', page')
      <3>1. IF Len(stack') = 0 THEN Top.wrote \subseteq page'.wrote
                               ELSE Top.wrote \subseteq stack'[Len(stack')].wrote
        BY <2>1, <2>5 DEF HandedUp
      <3>2. Len(stack') # 0 => Len(stack') \in 1..Len(stack')
        BY <2>4
      <3> QED
        BY <3>1, <3>2 DEF InBuffer
    <2>7. \A o : InBuffer(o, stack, page) => InBuffer(o, stack', page')
      <3> SUFFICES ASSUME NEW o, InBuffer(o, stack, page) PROVE InBuffer(o, stack', page')
        OBVIOUS
      <3>1. CASE o \in page.wrote
        BY <2>1, <3>1 DEF HandedUp, InBuffer
      <3>2. ASSUME NEW i \in 1..n, o \in stack[i].wrote PROVE InBuffer(o, stack', page')
        <4>1. CASE i = n
          BY <2>4, <2>6, <3>2, <4>1
        <4>2. CASE i # n
          <5>1. i \in 1..Len(stack')
            BY <2>4, <4>2
          <5> QED
            BY <2>1, <3>2, <5>1 DEF HandedUp, InBuffer
        <4> QED
          BY <4>1, <4>2
      <3> QED
        BY <3>1, <3>2 DEF InBuffer
    <2>8. \A o \in Top.claims : InBuffer(o, stack, page)
      BY <2>3, <2>4 DEF Backed
    <2>9. \A o \in page'.claims : InBuffer(o, stack', page')
      BY <2>1, <2>3, <2>7, <2>8 DEF Backed, HandedUp
    <2>10. ASSUME NEW i \in 1..Len(stack'), NEW o \in stack'[i].claims
           PROVE  InBuffer(o, stack', page')
      <3>1. o \in stack[i].claims \/ o \in Top.claims
        BY <2>1, <2>10 DEF HandedUp
      <3>2. i \in 1..n
        BY <2>4, <2>10
      <3> QED
        BY <2>3, <2>7, <2>8, <3>1, <3>2 DEF Backed
    <2> QED
      BY <2>1, <2>3, <2>7, <2>9, <2>10 DEF Backed
  <1>5. CASE processObj
    <2>1. ProcessShape
      BY <1>5, ProcessObjShape
    <2>2. PICK f : Starts(f)
      BY <2>1 DEF ProcessShape
    <2>3. /\ Len(stack') = 1 /\ stack'[1] = f /\ f.claims = {}
          /\ rendered' \subseteq f.wrote /\ page'.claims = {}
      BY <2>1, <2>2 DEF ProcessShape, Starts, Fresh
    <2> QED
      BY <2>3 DEF Backed, InBuffer
  <1>6. CASE Fail
    BY <1>6 DEF Fail
  <1>7. CASE runWatch \/ UNCHANGED vars
    BY <1>7 DEF runWatch, vars, BackedInv
  <1> QED
    BY <1>2, <1>3, <1>4, <1>5, <1>6, <1>7 DEF Next, Execute, Calls

(* As long as nothing failed on the page, the view of whatever is said to  *)
(* be already printed is on the page or in a buffer that will reach it     *)
(* (renderable.go:206-209).                                                *)
THEOREM ClaimsAreTrue == Spec => []ClaimsBacked
  <1>1. Init => TypeInv /\ BackedInv
    <2> SUFFICES ASSUME Init PROVE BackedInv
      BY TypeInit
    <2>1. Len(stack) = 0 /\ page.claims = {} /\ rendered = {}
      BY EmptySeq DEF Init
    <2> QED
      BY <2>1 DEF BackedInv, Backed
  <1>2. (TypeInv /\ BackedInv) /\ [Next]_vars => (TypeInv /\ BackedInv)'
    BY TypeStep, BackedStep
  <1>3. BackedInv => ClaimsBacked
    <2> SUFFICES ASSUME Backed(stack, page, rendered) PROVE Claimed \subseteq Buffered
      BY DEF BackedInv, ClaimsBacked
    <2> QED
      BY DEF Backed, InBuffer, Claimed, Buffered
  <1> QED
    BY <1>1, <1>2, <1>3, PTL DEF Spec
=============================================================================
