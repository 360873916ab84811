# kubectl-status, specified and verified

TLA+ modules, TLC configurations and TLAPS proofs for the logic of
kubectl-status (`cmd/`, `pkg/plugin/`, `pkg/input/`). Paths below are relative
to the repository; module names refer to files of this directory.

## 1. Inventory of the system

kubectl-status lists objects of a cluster and prints a status view of each,
produced by Go text templates that query further objects and render those in
place. It then optionally watches. One invocation is one goroutine; several
invocations may run in one process (the parallel e2e tests do, `cmd/main.go:81-83`).

| Component | State it keeps | Operations | Talks to |
|---|---|---|---|
| Command, `cmd/main.go` | viper settings of the invocation; process-global `fatalMu` and cmdutil's fatal handler | `complete`, `validate`, `RunE`, `checkErr` | `plugin.Run`; errors come back through `checkErr` |
| Run and watch, `pkg/plugin/plugin.go` | settings `shallow`, `watching`; process-global `color.NoColor` | `Run`, `processObj`, `processObjShort`, `runWatch` | callbacks from `results.Visit` and from the watch |
| Template set, `render_engine.go` | the embedded tree, the user tree, `userDefinedNames` (immutable once built) | `buildTemplateSet`, `findTemplateName`, `findSummaryTemplateName`, `resolveIncludeTree` | read by every template call |
| Render engine, `renderable.go`, `template_functions_static.go` | `renderedUIDs` (reset per object), `currentTree` carried by each `RenderableObject`, the Go stack with its buffers | `render`, `renderString`, `HealthSummary`, `executeTemplate`, `Include`, `IncludeRenderableObject` | recursion through templates, objects found by queries |
| Cluster queries, `template_functions_dynamic.go` | none | the `KubeGet*` methods, `StatefulSetRollbackTrap` | resource repository; answer nothing under `LiveQueriesDisabled` |
| Quota headroom, `quota.go` | none | `quotaRolloutHeadroom` | the workload as fetched, the quotas of its namespace |
| Resource repository, `pkg/input/input.go` | caches of query results, errors, pod metrics and API service reasons, for the life of the process | `CLIQueryResults`, `resolvePartialNameArgs`, `Objects`, `Owners`, `AllNamespacesPodMetrics`, ... | API server |
| Selectors, `node_selector.go`, `network_policy.go`, `calicoselector/`, `karpenter.go`, `hostname.go` | none | matching of labels, nodes, pools, policies; the parser of Calico's expressions | called from templates and from the queries |
| Algorithms: conditions, drift, certificates, ... | none | pure functions | called from templates |
| Formatting, coverage instrumentation | none that matters | wording, colours, tables | - |

### What is hard, and what makes each part correct

* **Template set / render engine.** Templates call each other in three ways
  (`{{template}}`, `Include`, `IncludeRenderableObject`/`HealthSummary`), which
  resolve a name differently, depending on the tree the receiver was rendered
  from, the kind of name, and what the user's overlay defines. Kind templates
  inline each other in circles (a Service and its routes, a snapshot and its
  content). Correct means: a user's redefinition of a shared partial is seen only by
  what the user overrode (#809); an override of a Kind or a summary is always
  honoured; an object is printed once per page; "already printed" is true; an
  error in an inlined object keeps the page; watch mode, in which deduplication
  is off, still terminates.
* **Error reporting.** `checkErr` borrows a process-global handler. Correct
  means: each invocation returns its own error, none ends the process, the
  handler does not leak, nobody waits for ever.
* **Watch.** The version the watch starts at is fetched after the objects were
  printed; the settings change between printing and watching; the end of the
  channel is swallowed. Correct means no change is lost, the flags mean what the
  help says.
* **Repository.** Caches are never invalidated; partial failures (forbidden,
  not found) are told apart. Correct means one render sees one answer per query,
  and an owner is declared gone only on evidence.
* **Advice.** Two checks draw conclusions from objects read one after the other
  while controllers act on them: which Pod of a stuck StatefulSet to delete, and
  whether a rollout fits the quotas. Correct means that the advice is of use and its
  reasons are true, whatever was going on when it was read.
* **Neighbours.** What surrounds an object (policies, Services, endpoint slices, routes,
  autoscalers, Gatekeeper constraints) is listed request by request, some of them called for by
  the answers of others, and matched by five different rules, one of which is a language
  that the program parses itself. Correct means that the page names what was a neighbour at
  some moment while it was made, leaves out nothing that was one all the time, and says which
  traffic is restricted.
* **NodePools.** From the requirements of pools the page concludes that none can
  run a Pod. Correct means that no node refutes it.
* **Options.** `--shallow`, `--deep` and explicit settings interact.
* **Algorithms.** Calico's selectors, the comparison of a Crossplane resource with its
  observed state, hostnames of listeners, routes and certificates: boundary cases of parsing, matching and
  arithmetic. Correct means what a definition written from the other side says.

`PROJECT.json` lists each hazard at its line with the properties that cover it.

## 2. The modules

| Module | Models | Status |
|---|---|---|
| `TemplateSet` | both trees and every lookup of `render_engine.go` | done |
| `Render` (extends `TemplateSet`) | rendering, deduplication, error propagation, the switch to watch mode | done |
| `MCRender` | a small cluster and a digest of the shipped templates | done |
| `Render_proof` | theorems about `Render` | seven theorems |
| `Invocation` | abstract: invocations that run as if each were alone | done |
| `Invocations` (implements `Invocation`) | `RunE`'s stages, `checkErr`, the colour switch, concurrently | done |
| `MCInvocations`, `Invocations_proof` | its model checking and theorems | done |
| `Session` | `complete`, `validate`, the listing, the watch's resource version, settings in the watch, over a changing cluster | done |
| `MCSession`, `Session_proof` | its model checking and theorems | done |
| `Ledger` | abstract: what a page may rest on: answers the cluster gave, and those that are kept | done |
| `ResourceRepo` (implements `Ledger`) | the queries of a page, the repository's caches, partial names, owners and pod metrics, over a changing cluster | done |
| `MCResourceRepo`, `ResourceRepo_proof` | its model checking and theorems | done |
| `RollbackTrap` | `StatefulSetRollbackTrap` beside the StatefulSet controller (external) it gives advice about | done |
| `MCRollbackTrap`, `RollbackTrap_proof` | its model checking and theorems | done |
| `QuotaHeadroom` | `quotaRolloutHeadroom` beside the workload controller and quota admission (external) | done |
| `MCQuotaHeadroom`, `QuotaHeadroom_proof` | its model checking and theorems | done |
| `Scheduling` | node selection and the claim "No NodePool can satisfy", beside Karpenter and the scheduler (external) | done |
| `MCScheduling`, `Matching_proof` | its model checking and theorems | done |
| `CalicoSelector` | tokenizer, parser and evaluation of `pkg/plugin/calicoselector` | done |
| `SelectorLanguage` (extends `CalicoSelector`) | abstract: the grammar of the language and what it means | done |
| `Neighbours` | the requests of a Pod's, workload's, Service's and Namespace's page for what is around it, while all of it changes | done |
| `MCNeighbours` (with `CalicoSelector`), `Neighbours_proof` | its model checking and theorems | done |
| `CrossplaneDrift` | the comparison of `pkg/plugin/crossplanedrift`, and what the documents mean | done |
| `DriftDocuments` (extends `CrossplaneDrift`) | the documents of the rendered difference, and what is in them | done |
| `Hostnames` | `hostname.go` and the names of a certificate, as the page of a route combines them | done |
| `Matching` (extends `SelectorLanguage`, `Hostnames`, `DriftDocuments`) | one question at a time: whom a selector selects, whether a certificate covers what is served, where two documents differ and what is shown of it | done |
| `Matching_proof` (extends `Scheduling`, `Matching`) | theorems about what selects, covers or equals what, `Scheduling`'s among them | done |
| `MCAlgorithms` (extends `Matching`) | all three on bounded inputs, each against its own reference definition | done |

### Correspondence: `TemplateSet` and `Render`

* A template *name* is a record `[base, group, part]`; the code asks of a name
  only how it was composed and whether it ends in `.summary`.
* `userDefinedNames` is the whole state of the template set. `buildTemplateSet`
  chooses the outcomes of the three steps that can fail (files match, the probe
  parses, the overlay parses into the clone).
* A template *body* is the constant `Body[version][name]`, a sequence of call
  sites: how the call is made, what it calls, on which objects (`Rel`, the answers
  of the cluster) and under which flag. Conditions a template has
  beyond that are a free choice of `Advance`: it visits any subset of the
  targets.
* `stack` is the Go call stack: one frame per template execution with the tree
  it runs in, the object and its `currentTree`, and of its buffer the two things
  the properties need: whose views it holds (`wrote`) and of whom it says that it
  "is already printed" (`claims`). `page` is the same of the command's output.
* `executeTemplate` is `renderable.go:204-214`, including that the UID is added
  before the template runs and even in watch mode, and that only a template named
  exactly as the object's Kind is deduplicated. `StaticCall`, `Include`,
  `IncludeRenderableObject` and `SummaryCall` are the four ways into it (the first
  one past it). `Fail` raises an error in a running template, `Return` ends a
  frame: a `{{template}}` call shares its caller's buffer, `Include` and
  `HealthSummary` lose what was buffered when they fail, `renderString`'s output
  is kept and its error dropped.
* `processObj` is the callback of both the listing and the watch; `runWatch`
  sets `shallow` and `watching`.
* Not kept: what text is printed; `Sprintf`-level formatting; results of
  queries other than which objects they contain; `--include-*` flags other than
  the ones call sites of the digest are gated by.

### Correspondence: `Invocations`

`pc[p]` walks through `RunE`: `work` (complete, validate), `render` (inside
`plugin.Run`), then for a stage that returned an error `lock`, `install`,
`consume`, `restore`, `unlock`: one action for each line of `checkErr`, the
deferred calls in reverse order of their registration. `out[p]` is the variable
that the closure of `p` assigns; calling a handler assigns the `out` of the
invocation whose closure is *installed*, whoever calls it. The default handler
ends the process (`exited`). `color.NoColor` is read anew by each print.

`Invocation` has the stages and the outcomes only. `ImplementsIndependent` maps `outcome`, of which
`Invocation` knows `running`, `ok` and `failed`: an invocation has failed when the error it returned is
*its own*; one that returned another's would be no outcome at all. The mutex, the
handler and the steps of `checkErr` are stutters.

### Correspondence: `Session`

* The cluster is an event log: version `n` is the `n`-th change, `history[n]` the
  object it changed, and `cluster[o]` the version `o` was last changed by and
  whether it still exists. `Change` is the environment and may happen between any
  two steps.
* `viper` is the table of settings, each a record of what `viper.IsSet` and
  `viper.GetBool` answer. `RunE` applies `complete` and `validate`; the
  loops of `allowExplicitIncludesOnly` and `enableAllIncludes` are set operations.
* `phase` follows `Run` and `runWatch`: `listing` (`results.Visit`), `refetch`
  (`results.Object`, whose list version is where the watch starts), `connect`
  (`results.Watch`), `watching` (`UntilWithoutRetry`). A query is a sequence of
  sources, an object asked for by name or all of a type; `Fetch` asks for one and
  collects the failure of one (`ContinueOnError`), `PrintObject` is one callback.
* `rv` is the version asked for and `pos` the version the watch has come to;
  `Deliver` is one event. `WatchEnds` is the end of the channel, whose error is
  dropped, or Ctrl-C.
* Not kept: `--local` and `--filename` (objects without a version, nothing to
  watch), label selectors (objects that move in and out of a query), an ERROR
  event as anything but the end of a watch, and what is printed of an object, which is
  `Render`'s subject. `Session` and `Render` meet at `processObj`: one
  `PrintObject` or `Deliver` is one page of `Render`.

### Correspondence: `ResourceRepo`

* `history` is the sequence of the states the cluster has been in; `Change`
  appends one and may happen between any two requests. An object's `rv` is the moment of its
  last change and `uid` that of its creation, so an object created anew under an old
  name is told from the one before.
* A *question* is a request together with the cache it goes through. The struct's
  seven caches (`objectsCache`, `ownerCache`, ...) are the one function
  `cache` from questions to answers: the `cache` field of a key keeps them apart.
  An answer has the objects and the error, as the `...CacheEntry` structs do; errors
  are kept like objects (`store`).
* `RepliesAt` is what the server may say: lists are answered or fail as a
  whole, several names are answered one by one (`ContinueOnError`), a single object is
  found, not found, or the request fails.
* `task` is the operation under way. `GetName` and `MatchName` are the two requests of
  one turn of the loop of `resolvePartialNameArgs`; `KubeGetPodMetrics` is the attempt
  on all namespaces and `FallBack` the request for one; `NextOwner` is one turn of the loop of
  `Owners`. `KubeGet`, `KubeGetFirst`, `KubeList` and `KubeCheck` are the four things
  the methods make of an error: keep what there is, nothing, nothing, report it.
* `names`, `metrics`, `owners` and `told` are what has been said so far. They grow
  only, so that a property can compare any two parts of a page.
* Not kept: order and repetition of the names and of an answer's objects (but for
  `FirstObject`, the oldest); label and field selectors, which are part of a question
  and nothing else; the order of the arguments of a query, which is part of a key; the test of
  `LiveQueriesDisabled`, which is `Render`'s `FlatWithoutLiveQueries`; what
  is decoded from the bodies of a kubelet's answers; `getObjectDetailsForDiff`.
* `Ledger` is what all of that promises. A statement of the page (`StatementsOn`) is a report, a
  metrics value or an owner's verdict made from one answer; `Unfounded` are the references
  that are not parsed, of which the page says so without a request. `ImplementsLedger` takes
  the caches for the ledger's kept answers, and `metrics`, `owners` and `told`
  for its page; tasks, keys and loops are hidden. It says at once that a question with a cache is asked once, that
  everybody is given that answer, a failure like any other, and that nothing is said that no answer bears out.
* A `start` is a command, what it is given and what its templates will ask for. Templates ask
  in any order and any number of times.

### Correspondence: `RollbackTrap`

* `ReadStatefulSet` and `ListPods` are the two moments of `StatefulSetRollbackTrap`:
  the object is the one fetched earlier (`seen`), the Pods are listed now. `Trapped` is
  `statefulSetRollbackTrapBlocker`: the lowest ordinal in the range that is not Ready, and then
  partition, termination, revision and age of that one Pod.
* Everything else is external: the controller's sync (`Create`, `Condemn`, `Update`,
  `Complete`) as `template_functions_dynamic.go:801-816` and `:877-890` describe it, the
  kubelets, time, and a user who changes the template, scales and follows the advice
  (`FollowAdvice`, the `kubectl delete pod` that `StatefulSet.tmpl:53` prints).
* The check looks at one Pod only, and not at one below the partition (`:912`), as that would be on
  `status.currentRevision` again. `RolloutCompletes` therefore excepts one case (`HeldBelowPartition`): scaled to nothing, a
  StatefulSet is rolled out by definition, so a bad template becomes the current revision; scaled up after
  the repair, it makes the Pods below the partition on the bad one, and they are never Ready.
* Not kept: `spec.ordinals.start` (ordinals begin at 0), Pods without a revision label,
  and the test of the template that the rollout is not done, which the code calls
  unnecessary for correctness (`:820-821`).

### Correspondence: `QuotaHeadroom`

* `ReadWorkload` is the gate of the template and `rolloutPendingPods`; `ListQuotas` is the query
  for the quotas and the rest of `quotaRolloutHeadroom`. A quota is the set of its
  entries, `what` and `resource` of which stand for the forms of a name
  (`quotaResourcePerPod`): the Pods, a request, a limit, and counts of objects. Of the last, which are charged nothing here, admission
  charges one for each Pod to `count/pods`; the code calls that intended (`quota.go:144-145`), and `RoomAsReported` excepts it. `Short` is the comparison, `multiplyQuantity` a product.
* External: the controller creates Pods up to the same allowance, removes old ones and writes
  `status.replicas` later; admission charges each quota that applies and
  refuses what does not fit; the quota controller recalculates. `actual` is what it
  would find, `used` what `status.used` says.
* `since`, `taken` and `freed` are history: how many of the Pods reported on were
  created since, and whether others took or returned quota.
* Not kept: what a Pod requests is a number for each template (the sums of containers
  are a library's); names and order of the resources; conversion failures, which
  report nothing; availability as distinct from readiness in the Deployment's status.

### Correspondence: `Scheduling`

* `podHardConstraintRequirements`, `nodePoolCanPossiblySatisfy` and
  `karpenterUnsatisfiableKeys` are the functions of those names; `ReportPod` is the template
  `pod_karpenter_compatibility`, whose query answers nothing when the list fails. Under
  `--deep` a reason is given for each pool: the first of the keys kept here.
* `nodeSelectorTermsMatch`, which mirrors the scheduler's rules (the repository calls it from its tests only),
  says which nodes the Pod fits. `Launch` is Karpenter: a node has the labels of its pool and others
  that satisfy every requirement of it.
* A value is a model value with the `Number` that `strconv.Atoi` makes of it, or `NaN`.
* Not kept: taints and tolerations, resources, and the labels Karpenter itself puts on each node
  (zone, instance type). Neither these nor the labels of a pool's template are looked at by
  the code; `ReportedBlocks` speaks of keys that nodes have through requirements only.

### Correspondence: `Neighbours`

* `page` says whose page it is. `OwnRequests` is the order in which the templates ask:
  `workloads_common.tmpl` for Pods and workloads, `Service.tmpl` (which asks for no slices of a Service of
  type ExternalName: the page `"ExternalName"`), `Namespace.tmpl`. `Due` is the next request:
  one that an answer called for (`CalledFor`: the Service of a slice, the
  constraints of a declared kind, the Namespace of the first GlobalNetworkPolicy) before the page's own. Several
  that are called for at once are made in any order.
* `Names` is one `KubeGet*` call: list or get, filter (`Picks`), append. `ListGlobals`, `GetNamespace`
  are the two requests of `KubeGetCalicoGlobalNetworkPoliciesMatchingPod`; `RequestFails` is a request that the server
  refuses or does not answer, whatever the caller makes of that: an empty list, no Service, a
  Namespace without labels. `IngressPanics` is the dereference of a backend without a Service
  (`doesIngressUseService`), which ends the page.
* What matches is written as in the code: `selectorSelects` (Kubernetes label selectors, an invalid one selects nothing),
  `isSubset` (a Service's selector), `doesRouteUseService`, `Targets`,
  `gatekeeperConstraintMatchesNamespace`, and for Calico the operator `SelectorSelects`,
  which `MCNeighbours` gives the parser of `CalicoSelector`. The proofs hold for any.
* `ever`, `always` and `everNs` are history: what was there at some moment, and at every moment, since
  the page began. `named` remembers by which request an object was found. `failed` are the requests that
  failed.
* The properties say of each kind of neighbour in its own words (`NeighbourBy`, `Concerned`) what makes it one.
* Not kept: the order within an answer; a spec whose fields have the wrong types (reads as absent, or
  nothing is selected); reserved label prefixes of Cilium, which the code documents as not matching;
  `LiveQueriesDisabled` (nothing is asked), which is `Render`'s subject.

### Correspondence: `CalicoSelector`, `SelectorLanguage`

* A selector is a sequence of lexemes: what the tokenizer cuts off the string in one step, a
  word, a quoted string, a symbol, or a word with the parenthesis that must follow at once.
  That a word is an operator only after a label, and which words make one, is the tokenizer's
  (`nextToken`, `OperatorToken`). What fails is the empty set.
* The parser is recursive descent as in the code, one operator per function. Its loops are recursion on the tokens left:
  a conjunction is an operation alone, or one, `&&` and a conjunction; a negation is `!` and an operation. All of it is one recursive
  function, `parse`, from a list of tokens to what each of the functions makes of it; so is the tokenizer (`tokenizeFrom`).
* A node of the tree is the set of the labels on which it is true: nothing else is ever asked of it.
* `SelectorLanguage` says what a text means without a parser: `phrases` are *all* the beginnings of a text that the grammar
  allows, with what each means, whatever is after them; a selector's meaning is that of the phrase that is the whole text, if there is only one.
  It is written from Calico's grammar, which the package comment describes. The parser, which never goes back, is compared with it.
* `Matching` asks: `EvaluateSelector` is `calicoPolicySelectsPod` (any labels), `CheckCertificate` the template's check,
  `CompareDocuments` is `crossplaneManagedResourceDrift`, of documents that are not empty: of others
  the template does not ask (`crossplane_common.tmpl:85-87`).

### Correspondence: `CrossplaneDrift`, `DriftDocuments`, `Hostnames`

* A value is a map, a list, a number or another scalar; whether a number was decoded as int or float makes no
  difference. `asFloat64` is the rounding that the comparison of numbers does, with a mantissa of
  `Precision` bits. A key is the sequence of its dot-separated parts, so that joining and
  splitting a path (`walkLeaves`, `setPath`) is faithful to what dots in a key do.
* `Contents` are the values of documents with all that is in them, and `Depth` how deep each is: the recursive functions of
  the code (`walkLeaves`, `valuesEqual`) are recursive functions on `Contents` here, that ask for what is less deep.
* The order of paths is that of strings. Two paths differ first in a part, and what follows the part counts too: the end of the path or a
  dot, which comes after `-` and before letters, so that `a-b` is before `a.b`. `Before` orders such `Segments`.
* `Diff` counts and lists as the function of that name does; `UnifiedDiff` stops at the two documents,
  of which a library prints the difference. `setPath` writes into maps that it goes down into; here `MapsAlong` are the maps on the
  way (each the one that is there, or a new one, as in the loop) and the document is put together from the last of them upwards.
* `DriftIsShown` looks into the documents by keys (`Along`, `Lookup`), not by paths: each listed field that is not
  redacted is found in both with its own value, the two values differ, and the maps on the way have
  no keys but those of listed fields (`LeadsOnlyTo`).
* The reference definitions `Denotes`, `Differing` and `LeavesOf` say what a configured field means and when the
  provider has another value for it, from the documents' own keys, not from paths.
* A hostname pattern is a name or the wildcard of one. `CertCheck` is
  `gwapi_listener_tls_cert_check` with `hostnameIntersections` and `MatchesHostname`. The reference
  definitions are sets of hosts: `Accepts` (a wildcard of the Gateway API reaches any depth) and
  `Covers` (a certificate's reaches one label).
* Not kept: invalid hostnames, addresses of a certificate beyond their being there, validity dates.

## 3. What TLC checks

| Run | Configuration | Shows |
|---|---|---|
| `render` | `Render.cfg`: 6 objects, 11 embedded names, 6 overlay names, 10 settings; about 11 000 states | `TypeOK`, `Isolation`, `OverrideHonoured`, `PrintedOnce`, `TopLevelPrinted`, `ClaimsBacked`, `FlatWithoutLiveQueries`, `RenderTerminates` |
| `invocations` | `Invocations.cfg`: 2 invocations, every assignment of colours and failing stages; about 13 000 states | `TypeOKInvocations`, `HandlerScoped`, `ColorWithoutConflict`, `EveryInvocationReturns`, and `ImplementsIndependent`, the refinement of `Invocation` |
| `session` | `Session.cfg`: 2 objects, 4 changes, 4 queries, 2 settings, 24 command lines; about 426 000 states | `TypeOKSession`, `SettingsAsAsked`, `NothingLost`, `ListingComplete`, `NeverBackwards`, `CommandProgresses` |
| `repo` | `ResourceRepo.cfg`: 7 objects of 3 types in 2 namespaces, history of 3 states, 19 commands; about 62 000 states | `TypeOKRepo`, `MetricsOfOneMoment`, `OwnersOnEvidence`, `NamesResolved`, and `ImplementsLedger`, the refinement of `Ledger` |
| `rollback` | `RollbackTrap.cfg`: 3 replicas, one below the partition, 3 revisions of which one is bad, 4 changes, 1 outage; about 507 000 states | `TypeOKTrap`, `OnlyTheAdviceReplacesIt`, `RecreatedOnTarget`, `RolloutCompletes` |
| `quota` | `QuotaHeadroom.cfg`: 4 workloads of up to 2 replicas, 2 templates, 3 quota entries, 2 changes; about 2 650 000 states | `TypeOKQuota`, `RoomAsReported`, `ShortfallIsReal` |
| `scheduling` | `Scheduling.cfg`: 5 Pods, any of 5 NodePools, 1 node at a time; about 56 000 states | `TypeOKScheduling`, `ReportedBlocks` |
| `neighbours` | `Neighbours.cfg`: 7 clusters, 33 objects, 1 to 3 changes or failures; about 346 000 states | `TypeOKNeighbours`, `PageWithinWindow`, `DirectionsWithinWindow` |
| `algorithms` | `Algorithms.cfg`: about 10 000 selectors on 4 sets of labels, 9 600 pairs of documents, 6 000 listeners, routes and certificates | `SelectsAsWritten`, `DriftReported`, `DriftRendered`, `MismatchReported` |
| `nesting`, `karpenter`, `dotted_keys` | violations, see the findings | a claim of a comment or a document that the code does not live up to |

**Bounds and why they are enough.** The cluster of `MCRender` has each structure
the engine treats differently: two objects that inline each other by Kind
name and by `Include` (`vs`/`vsc`), a circle that mixes `Include` and
`IncludeRenderableObject` (`svc`/`route`), an object reached twice (`svc` by way
of `pod` and of `route`), an object without a shipped template that refers back to its owner
(`widget`), a shipped Kind the user overrides, a Kind only the user has,
a summary only the user has, a helper redefined and one added, the hook, a template that fails in
the embedded and in the user's tree. The settings are every combination the
command line can produce of depth, `--short`, `--watch`, `--local`. The graph of
`MCRender` has no circle of objects that are rendered by a template not
named after their Kind: with one, rendering does not end, which is run
`nesting` and a finding. `RenderTerminates` therefore speaks of circles of
deduplicated objects, and of every circle once live queries are off. Two
invocations are enough for every race on one mutex and one handler
(each failing invocation passes through `checkErr` once); the proofs cover any
number.

In `MCSession` two objects distinguish "the object that changed" from
another one of the same list; four changes are one in each of the intervals the
code separates: before the listing, during it, between it and the second
fetch, and after that. The queries are the shapes `results.Watch` and the version of
a list tell apart (one type, one name, two names, two types). One
setting is on by default and one is off, and each is left alone, set to true and set to
false under every combination of `--shallow` and `--deep`.

In `MCResourceRepo` a history of three states has one change before and one after any
request that matters: a property relates at most a first answer, a second one
and the state between them. The metrics are those of two pods in one namespace and of a third
elsewhere with the name of the first. The owner references are each way
`ownerReferenceMapping` goes: fully specified, of a cluster-scoped owner, without a
group, with the group where the version belongs, not parsed, and of a kind nobody serves; two of
them lead to the same key of `ownerCache`. The queries come in pairs that would
share an answer if the key forgot the namespace or the cache. `web` is part
of `web-2`: with both given, a name can be exact, partial, ambiguous or missing.

In `MCRollbackTrap` three Pods are one below the partition and two above it, so that the
Pod reported can have a higher and a lower neighbour on either side of it. Four changes are a bad
template, its repair (by the old one or a new one) and two scalings, in any order: down to nothing before the bad template and up
again after its repair is what leads to `HeldBelowPartition`, which is reached (a run that denies it fails in eight steps), and without
which `RolloutCompletes` would fail. An outage makes a Pod of an old revision unready while a newer one is. More
changes repeat these: the current revision, the one rolled out and the Pods' own are what a state remembers of
them. A threshold of one tick is
"not yet old enough" and "old enough".

In `MCQuotaHeadroom` the entries are one of each kind that is judged differently: the
limits of a resource, its requests in a quota with a scope, which is not judged, and `count/pods`, which is judged and never short; each
may be unreported, and use may be above the hard limit. The two templates differ in requests and in limits, so a
comparison of one with the other shows. Rounding up 25% of 2 replicas gives the one surge
Pod that a Deployment has in addition.

In `MCScheduling` the pools are the ways a requirement meets a constraint (a shared value, an excluded one,
a comparison, none, two on the same key, a label of the template) and the Pods use `nodeSelector`,
one term, two terms and a field. One node at a time is enough, as a claim is refuted by one.

In `MCNeighbours` each cluster has the neighbours of one page, of each kind one that is one and one that is not for
each reason the code tells apart: another namespace, group, kind or name, a selector in error, an
absent one, a rule that does not select, an ExternalName Service (as a neighbour of a workload, and with its own page), a dual-stack Service with two slices, a declared kind of
constraints that two templates declare. A change and a failure, before, between and after any two requests, need a
budget of two; the requests that answers call for come in pairs (slice and Service, template and constraints), for which
there is one more. The workload with everything around it has a budget of one, being the largest.

In `MCAlgorithms` the selectors are every sequence of up to three lexemes of 18, of four of 8,
formulas of up to three tests with every connective, negation and pair of parentheses, and
tests and formulas that a lexeme was dropped from. A parser of this form can confuse two neighbouring levels of the
grammar, which takes two connectives, and so at most three tests. The documents compare any two of about 30 values under one
key (every scalar, every list of up to two of three scalars, duplicates on one side or both, numbers below
and beyond the precision, of 3 bits instead of 53: 8, 9 and 10 are the case) and any two of about 130 documents of up to three keys, one of them
secret, one with a dot and one with a hyphen, with `MaxDriftEntries` 2 instead of 20, so that entries are left out. Hostnames have up to three labels of two, hosts up to
four: one label more than any name, which is what tells a wildcard of one label from one of any depth.

**Deadlock.** `Invocations.cfg`, `Session.cfg`, `ResourceRepo.cfg`, `Neighbours.cfg`,
`Algorithms.cfg` and `DottedKeys.cfg`
switch the check off: an invocation that returned takes no more steps, a command
that was asked nothing but names ends when they are resolved, a page ends with its last request, and an algorithm with
its answer. `Render` never stops: another object can always be
listed or arrive in a watch event. Nor do `RollbackTrap`, `QuotaHeadroom` and `Scheduling`.

**Fairness.** `Render`: weak fairness of `Execute`, the steps of executing a
template, a single goroutine that nothing in the model can block. Nothing is
assumed of when the next object or event arrives. `Invocations`: weak fairness of
`Step(p)` for each invocation: goroutines run. It suffices for the mutex because
each invocation takes it at most once, so it is eventually free for good.
`Session`: weak fairness of `Command`, the steps of the program. It blocks on
nothing but the API server, of which it is assumed that it answers (possibly with
an error) and delivers events. Nothing is assumed of `Change`, nor of
`WatchEnds`: a watch may stay open for ever. `RollbackTrap`: weak fairness of
the controller, of each Pod's kubelet, of time, and of the check and the user who follows it;
nothing of changes and outages, which are bounded. Without a user who follows the
advice a trapped rollout stays trapped, which is what the check is for. `ResourceRepo`,
`QuotaHeadroom`, `Scheduling` and `Neighbours` state safety only and assume no fairness.

**Mutations.** Definitions commented "Mutation" are the plausible bugs that each
property has been shown to detect: a dropped `checkAdd`, one UID set for
all objects, one namespace for all names, a lost reset of the handler, ...

## 4. Findings

1. **`nesting`** - *code bug.* `executeTemplate` deduplicates an object only if
   its template is named exactly after its Kind (`renderable.go:206`). Two objects
   rendered by `DefaultResource` (or by `<Kind>.<group>`) that refer to each other, as a composite
   resource that composes a managed resource and owns it, are under `--deep`
   rendered inside one another until the stack is exhausted.
2. **`karpenter`** - *code bug.* `karpenter.go:12-14` promises never to say "cannot satisfy" falsely.
   `nodePoolCanPossiblySatisfy` rules a pool out when it has no requirement on the key, also where the Pod's operator is
   `NotIn` or `DoesNotExist` and a node without the label is what it wants.
3. **`dotted_keys`** - *code bug.* `crossplanedrift.go:128-129` says that the rendered difference is of documents "built
   from just the drifted leaf paths". A path is its keys joined by dots (`:248`) and is split again at the dots
   (`:189`): of two labels `app` and `app.kubernetes.io/name` that both drifted, the second is written over the first, and
   the difference shows nothing of it (`DriftRendered` excepts such keys).

More divergences are visible in the models and have no run of their own:

* `TEMPLATE-API.md:278-283` says a redefined `custom_application_details` runs for every object. Built-in templates call it
  with a static `{{template}}` (`common.tmpl:283`), which never leaves the embedded tree.
* `main.go:249-250` promises to watch "after listing/getting the requested object". `runWatch` fetches the objects a second
  time to learn the version to start from (`plugin.go:74`) and does not print them: a change between the two fetches is
  not shown until the object changes again. `NothingLost` counts from the second fetch and `ListingComplete` up to the start of the
  listing: what is lost changed last between the two.
* `runWatch` drops the error of a watch whose channel was closed (`plugin.go:94`): the command ends as if it had been interrupted.
* `isSubset` takes a label that is absent for one with an empty value: a Service that selects `zone: ""` is named for a workload
  without the label (`SelectsAbsence` excepts it from `PageWithinWindow`).
* `doesIngressUseService` dereferences a backend's Service also where the backend is a resource
  (`template_functions_dynamic.go:161`): one such Ingress in the namespace, whatever it has to do with the Service, ends the
  page of the Service in an error (`IngressPanics`; the properties speak of pages that are done).
* The group of an autoscaler's target is not compared (`Targets`), and routes are listed in the Service's own
  namespace only, though one of another namespace may refer to it.
* A Pod behind a Service of two address families is behind two slices: the Service is found, and named, twice.
* `renderable.go:209` says "is already printed" of any object whose UID is in `renderedUIDs`. The UID is added
  before the template runs and stays when the template fails and `Include`'s caller drops the
  output (`checkAdd`, `Kept`): the page may then say so of an object it does not show.
* `TEMPLATE-API.md:122` promises an `Orphan` line for any reference whose target no longer exists. `resolveOwner`
  (`input.go:370-388`) looks the owner up by name and does not compare UIDs: an owner deleted and created anew, or
  another object of its name, is shown in its place.
* `quota.go:210-211` defines the Pods counted as those the controller still has to create. `rolloutPendingPods`
  counts the surge of a Deployment also when all Pods of the current template exist; the warning is then
  shown while one of them is not Ready, for Pods nobody will create.
* A Namespace that cannot be fetched has no labels for `calicoNamespaceSelectorMatches`: a negative
  `namespaceSelector` then selects the Pod whatever its namespace (`Known` excepts it from `PageWithinWindow`).
* A StatefulSet that was scaled to nothing while its template was bad, and up again with a good one, has Pods below the
  partition on the bad revision. The rollout waits for them for ever and nothing is reported
  (`template_functions_dynamic.go:912`; `HeldBelowPartition`).
* Numbers are compared as floats (`crossplanedrift.go:376`): of integers beyond 2^53 a drift can be missed, and a list of
  them, taken for one with duplicates, can be said to drift when only its order differs (`Exact` excepts them from `DriftReported`).
* Claims about NodePools do not consider labels that a pool's template sets: a Pod that selects one is told that no
  pool can satisfy it (`RestsOnRequirements` excepts it from `ReportedBlocks`).
* `TEMPLATE-API.md:101-109` calls `{{template}}` and `Include` interchangeable. In a user
  template reached through `Include` or as a summary the object has no `currentTree`
  (`resolveIncludeTree`), and the two find different definitions.
* `main.go:81-83` says that concurrent invocations never share mutable state;
  `color.NoColor` is shared. What is true of it is `ColorWithoutConflict`.
* `plugin.go:70` says the watch switches to shallow mode; `runWatch` sets the key after
  `complete`, so every `--include-*` setting keeps its listing value.

## 5. What is proved

All theorems hold for every value of the constants that meets the named
assumptions (`FallbacksEmbedded`: `common.tmpl` defines the two fallback
templates; `RenderAssumption`: the constants have their types, and no invocation starts out watching; `ProcAssumption`:
invocations are not confused with the words used for results).

`Render_proof`:

* `RenderTypeOK`: `TypeOK`. Invariant `TypeInv` adds `FramesDefined`, that
  every running template is defined in the tree it runs in; without it its body
  has no type.
* `OverlayIsolation`: `Isolation`. "Overlay code runs only inside an overlay
  entry" is not inductive: a built-in partial may be running inside an override
  and pass the user's tree on with its object. `UserTreesEntered` says of each
  frame that runs in the user tree *or* whose object carries it that it is
  inside a `render()` that entered the overlay.
* `OverridesApply`: `OverrideHonoured`, a property of each frame on its own.
* `NothingPrintedTwice`: `PrintedOnce`. `OnceInv` adds that what any
  buffer holds of the deduplicated objects is in `renderedUIDs`.
* `ClaimsAreTrue`: `ClaimsBacked`. The other direction, `BackedInv`: while nothing has failed, whatever is in
  `renderedUIDs` has its view on the page or in a buffer. It needs that a buffer is lost only with an
  error that is seen as one on the page.
* `TopLevelIsPrinted`: `TopLevelPrinted`. The view of the object asked for is in the outermost frame's buffer, which is the
  one whose output is kept even when rendering fails.
* `WatchingStaysFlat`: `FlatWithoutLiveQueries`, from `FlatInv`: watching implies no live queries (`runWatch` sets both, and the
  assumption excludes it before), and then all objects on the stack and left to visit are the one at hand.

The proofs share one argument: `ExecuteTemplateCases` reduces a call of
`executeTemplate` to skipped, missing or entered; the shape lemmas
(`CallsShape`, `AdvanceShape`, `ReturnShape`, `ProcessObjShape`) say how each action
changes the stack (same length, one frame more, one less) and what is known of
the frame entered; each invariant is then shown to survive each shape.

`Invocations_proof`:

* `InvocationsInvariant`: the inductive invariant: types, mutual exclusion (who is
  between lock and unlock holds `fatalMu`, and the handler is that invocation's exactly
  between install and restore) and progress (`err`, `out` and `outcome` agree with
  the location).
* `InvocationsTypeOK`, `HandlerIsScoped`: the safety properties of the run; `EachGetsItsOwnError`: the error that is
  returned is the invocation's own, on which the refinement rests.
* `ColorHonoured`: `ColorWithoutConflict`, with `ColorInv`: while an invocation that nobody opposes
  prints, the global is as it asked.
* `Refinement`: each step is a step of `Invocation` or leaves it unchanged:
  `SpecInvocations => ImplementsIndependent`.

`Session_proof`, for any objects, settings, command lines, queries and number of changes
(`SessionAssumption`: they have their types, the value of a setting nobody gave is its default, a named
source names one object):

* `SessionTypeOK`: `TypeOKSession`.
* `ExplicitSettingsKept`: `SettingsAsAsked`. `CompleteSettings` states what `complete`
  does to one setting; it is then kept because `runWatch` sets only
  `shallow` and `watching`, which are no `--include-*` settings.
* `SessionInvariant`: `LogInv` (an object's version is that of its last entry in the log) and
  `OrderInv`: printed is not newer than fetched, nor fetched than the cluster; nothing is
  half printed when a watch is opened; and a watch from a version starts where
  everything printed of its objects is past. The last part is what makes
  `NeverBackwards` inductive: an event delivers the version `pos + 1`, which is newer than
  what is shown only because nothing shown is beyond `pos`.
* `PagesNeverGoBack`: `NeverBackwards`, an action property, from the same invariant.
* `WatchLosesNothing`: `NothingLost`, with `WatchInv`: the version asked for is not
  beyond the second fetch.
* `ListingIsComplete`: `ListingComplete`, with `ListingInv`: of the sources
  before `source`, what has not changed since the start is shown or in the batch.

`ResourceRepo_proof`, for any types, objects, references, commands and length of the history
(`RepoAssumption`: the constants have their types, and metrics are asked of pods):

* `RepoTypeOK`: `TypeOKRepo`, with `TypeInv`.
* `AskedOnce`: `OneRequest`. `CacheInv`: a question sent is in the cache unless
  it has none, and every cached answer is one the server gave at some moment.
* `RepoInvariant`: `CacheInv` with `PageInv`, which says of each part of the page
  which cached answer it was made from. That is what the properties need: two results
  for one question come from one entry of the cache (`PageConsistent`: `OneAnswer`),
  all metrics of a namespace from the list of all namespaces or from its own
  (`MetricsAgree`: `MetricsOfOneMoment`), an owner's verdict from an answer of a moment
  (`OwnersJustified`: `OwnersOnEvidence`), a result from an answer of a moment
  (`AnswersAreWhole`: `WholeAnswers`, with `ReplyShape` on what the server may say).
* `RepoImplementsLedger`: every step consults one question of the ledger, says what needs no answer, or
  is hidden: `Spec => ImplementsLedger`, from the same invariant.
* `NamesAreResolved`: `NamesResolved`, with `NamesInv`: the names given that are not left
  to resolve are settled, each listed one is justified, and while `MatchName` is due there was a
  moment at which the name did not exist.

The proofs about a history rest on `HistoryGrows`: moments are added, never changed.

`RollbackTrap_proof`, for any replicas, partition, threshold, revisions and bounds
(`RollbackTrapAssumption`):

* `TrapTypes`: `TypeOKTrap`, which says of a report that its Pod was, when it was read, unready for long
  enough, not terminating and not below the partition. `ReportScope` adds that the StatefulSet is one
  the check looks at.
* `ReportIsATrap`: `OnlyTheAdviceReplacesIt`. While the report is in force the Pod it names is in
  range and not Running, so an OrderedReady sync neither recreates it nor gets past it
  (`StaysUntilAdvised`, action by action).
* `AdviceMovesTheRollout`: `RecreatedOnTarget`, as only an ordinal at or above the
  partition is ever advised.

`QuotaHeadroom_proof`, for any workloads, templates, quotas and bounds (`QuotaAssumption`):

* `SilenceMeansRoom` and `WarningMeansShortage`: `RoomAsReported` and `ShortfallIsReal`, from one
  invariant `QuotaInv`. For an entry reported short the charge of the Pods
  outstanding exceeds what is left (`Tight`), for any other judged one it does not (`Roomy`); a
  Pod created moves the same amount from one side to the other, which is all the
  arithmetic there is (`OneLess`), and `Recalculate` only ever lowers `used`. That a quota entry
  is charged what `quotaResourcePerPod` says, `count/pods` apart (`PerPodIsCharge`), is where the
  code's naming rules enter.
* `QuotaTyped`: `TypeOKQuota`. That no number falls below zero is what is hard in it: `actual` goes down with every Pod that
  is deleted, by its charge. `PodInv` says that the Pods there are, and what they are charged, are covered by the counters. The sum over
  the templates is written as the number of elements of a set (`Units`: as many units of each template as its Pods weigh), of
  which the library's theorems say what one Pod more does (`CountOneMore`), where a sum would take an induction.

`Matching_proof`, of `Scheduling`, for any keys, values, Pods, pools and number of nodes (`SchedulingAssumption`):

* `SchedulingTyped`: `TypeOKScheduling`.
* `ClaimsSound`: `ReportedBlocks`. What the Pod must have is necessary (`HardRequirementsAreHard`: a node that
  fits satisfies each of them, whatever the alternatives), and a node of a pool that cannot
  satisfy a requirement fails it (`FailingPoolLaunchesNone`, by operators); `ClaimIsSound` puts
  them together. The invariant adds that every node in `since` was launched by a pool that is there, unless
  pools were edited.

`Matching_proof`, of `Hostnames`, for any labels of names, patterns and hosts (`HostsAssumption`: what a pattern names can be asked for, and
so can that name with another label before it):

* `MismatchesReported`: `MismatchReported`, from `CheckIsRight`. The code compares patterns with patterns; the property speaks of hosts. `NarrowerAccepts`:
  two patterns accept together what the narrower of them does, as of two names above the same host one is above the
  other (`SuffixesCompare`). `ServesIsOverlap`: a certificate's name serves a pattern exactly when there is a host that both cover;
  where there is one it is one label below the certificate's name, which is where the assumption is needed.

`Matching_proof`, of `CalicoSelector` and `SelectorLanguage`, for any strings, any labels and any text, however long:

* `SelectorMeans`: the parser selects what the grammar says, and no text has two meanings; from it
  `SelectorsSelectAsWritten`: `SelectsAsWritten`.
* The three recursive functions, `tokenizeFrom`, `parse` and `phrases`, are `CHOOSE`s of a function that satisfies its definition; that there
  is one is to be shown. `RecursiveFunction`: if each value is made of those at arguments that a measure says are smaller, there is. The
  induction it needs is over the numbers, as a fact about sets (`Least`: a non-empty set of them has a least one; an assertion
  that fails has a least place where it does). `TokenizeStepTyped`, `ParseStepTyped`, `PhrasesStepTyped` say what is made, that
  it is shorter than what it is made of, and in the code that there is at most one; `...StepLocal` that only
  shorter arguments are asked; `TokenizeEquation`, `ParseEquation`, `PhrasesEquation` that the functions are what their definitions say.
* `SymbolToken`, `StringToken`, `LabelToken`, `OperatorWordToken`, `CallTokens` say of which lexemes a text's first token is made, and their
  `...Made` twins the converse.
* `ParserReadsPhrases` is the invariant of the induction on the length of the text: for sets, operations, conjunctions and disjunctions, what the parser makes
  of *the tokens of* a text, with the tokens that are left, are the phrases of the text, with the tokens of its rest. A phrase that stops
  before a `&&` the parser would have taken is one of the grammar's and none of the parser's: the invariant therefore leaves out the phrases that go on
  (`SaysAnd`, `SaysOr`). One lemma for each kind of phrase: `SetAgrees`, `AndAgrees`, `OrAgrees`, `NotAgrees`, `ParenthesesAgree`, `CallsAgree`, `LabelsAgree`.
* `ParseIsMeaning`: a text that is read to its end is a phrase that is all of it, and the only one.

`Matching_proof`, of `CrossplaneDrift`, for any documents, keys, order of strings, limit of what is listed and sensitive parts
(`OrderAssumption`: the order is a strict one of all segments; `ContentsAssumption`: what is in a value is a value, less deep, a
document is finite and no key is empty):

* `EqualityIsMeaning`: `valuesEqual` holds of two values exactly when they denote the same, if their numbers are within a float's
  precision. By the depth of the first: `ListsEqual`, with `ScalarSetsEqual` (lists without a duplicate have as many
  items as places, so that one half of set equality and equal lengths are enough, `ItemsOfSet`) and `SetIsMeant` (what the code takes as a set
  denotes one).
* `WalkCorresponds`: the walk of a document without dots in its keys lists each of its leaves once, at the path of its keys: `Flattened` says what one list after the other
  holds, `SortedKeys` that a map's keys are each walked once, `FirstParts` that leaves below different keys have different paths.
* `DifferencesFound`: for every two documents, `Diff` reports what differs, as `DriftIsDifference` says; from it `DriftsReported`: `DriftReported`.
  The leaves' places, their keys and their paths are as many (`PlacesAndKeys`, `PlacesAndPaths`); a place is drifted exactly when its keys are
  among those that differ (`PlacesByKeys`); the places are split in three (`PlacesAreCounted`); and the first of a list in order
  are the first of all (`ListedFirst`, from `InOrderLists`: a finite set with a strict order of all its members is listed by one
  sequence, each member once).
* `walkLeaves`, `valuesEqual`, `KeyedLeaves`, `Numbers` and `Denotes` are shown to be what their definitions say by `RecursiveFunction`, but for
  `Denotes`: what values denote is in no set known beforehand, so `DenotesDefined` puts one function together from those that are right up to a depth.
* `DifferencesShown`: the documents of the rendered difference have of every listed field what is configured and what is observed, and nothing else;
  from it `DriftsRendered`: `DriftRendered`. Setting a path puts its value at its keys (`SetIsFound`), leaves what is at keys
  that part from them (`SetElsewhere`) and adds no other key (`SetAddsOnlyItself`). No leaf of a document is on the way to another (`LeavesApart`), so
  no entry is written over another: `DocumentHolds` says of the first so many entries what their document has, and is the invariant of the
  induction on them. That the maps lead only to what is listed (`OnlyTheWays`) follows, as every key has then a listed field below it.
  The two values differ because whatever is found drifted is not `valuesEqual`, and a value is equal to itself (`EqualToItself`).
* Keys with dots are excepted, as two leaves may then have one path (finding 3); so are integers that a float does not tell apart.

`Neighbours_proof`, for any objects, labels, clusters, budgets and Calico selectors (`NeighboursAssumption`: the clusters are
made of the objects and labels there are, and no template declares a built-in kind):

* `TypeCorrect`: `TypeOKNeighbours`.
* `Invariant`: nothing is asked without reason (`Grounded`: it is the page's own request, or the word of an object that was
  there calls for it); what is named was found by such a request (`Found`); and of every request made,
  what was there all the time and matched is named, unless the request failed (`Settled`, which for a slice or a template says it of the
  request it calls for, made or still due). That history is only ever added to (`Persists`) is what keeps each
  of the three through the steps that are not about it.
* `PageInWindow`: `PageWithinWindow`. When the page is done nothing is due, so what is settled is named.
* `DirectionsInWindow`: `DirectionsWithinWindow`, from the two halves of `PageWithinWindow` for
  policies, and that a policy's directions as the code reads them are the ones it restricts.

Every invariant and every action property that a passing run checks is stated by a theorem, and so are the two refinements. Only model-checked is
liveness (`RenderTerminates`, `EveryInvocationReturns`, `CommandProgresses`, `RolloutCompletes`): it rests on
fairness, and so on ENABLED, of which the provers used here know nothing.

## 6. Not modelled

Not to be modelled: wording, colours and table layout; decoding of certificates and
secrets (`secret.go`, most of `certificate.go`) and field sets, which are formats of bytes and dates without state; template coverage
instrumentation (inactive in normal use); the API server and client-go beyond the
outcomes of their calls; the texts of the templates beyond the digest in `MCRender`.

Left for whoever goes on: the match of taints and tolerations (`node_selector.go:20-79`), a component beside `Scheduling`'s;
the classification of conditions (`conditions.go`); the rest of the data helpers
(default resource detectors, container and node summaries), pure functions of one object.
