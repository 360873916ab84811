------------------------------ MODULE ResourceRepo -----------------------------
(***************************************************************************)
(* The queries templates make (pkg/plugin/template_functions_dynamic.go)   *)
(* and the repository that answers them (pkg/input/input.go), over an API  *)
(* server whose objects may change between any two requests.               *)
(*                                                                         *)
(* history is the sequence of the states the cluster has been in.  The     *)
(* caches of the repository are one function from keys to answers: a       *)
(* question says which cache it goes through.  metrics, owners and told    *)
(* are what the page has said so far.  Label selectors are left out: they  *)
(* are one more field of a question.                                       *)
(***************************************************************************)
EXTENDS Integers, Sequences

CONSTANTS
    Types,          \* what the server serves: [kind, version, group, namespaced]
    Ids,            \* names of objects: [type, ns, name]
    PodMetrics,     \* the type of pod metrics
    References,     \* owner references with the namespace of who has them
    Substring,      \* pairs of names, the first contained in the second
    CLIType,        \* the type and the namespace of the command line
    CLINamespace,
    Starts,         \* commands: what they are given, find and will ask
    MaxVersion      \* bound on the length of history

VARIABLES
    history,    \* the states of the cluster
    start,      \* the command
    task,       \* the operation under way and what it has left to do
    names,      \* what resolvePartialNameArgs makes of the names given
    cache,      \* the caches
    asked,      \* history: questions sent to the server
    again,      \* history: questions sent more than once
    metrics,    \* pod metrics shown: [id, rv], rv = 0 for none
    owners,     \* owner references shown: [ref, verdict, uid]
    told        \* results of other queries: [caller, question, objects, err]

page_vars  == <<metrics, owners, told>>
cache_vars == <<cache, asked, again>>
vars == <<history, start, task, names, cache_vars, page_vars>>

cluster == history[Len(history)]

Gone  == [exists |-> FALSE, uid |-> 0, rv |-> 0]
State == [exists : BOOLEAN, uid : Nat, rv : Nat]

CacheNames == {"objects", "allPodMetrics", "owner", "slices", "stats", "configz", "healthz",
               "reason", "none"}
Names      == {id.name : id \in Ids}
Namespaces == {id.ns : id \in Ids} \cup {""}
Question   == [cache : CacheNames, type : Types, ns : Namespaces, named : SUBSET Names]
Errors     == {"none", "notfound", "failed"}

\* A command is given names, or a query of a form that is left as it is.  Its
\* templates ask for the metrics of pods, for the owners of dependents, each a
\* sequence of references, and queries.  moving are the objects that change.
Start == [state : [Ids -> State], args : Seq(Names), exact : BOOLEAN, moving : SUBSET Ids,
          pods : SUBSET Ids, dependents : SUBSET Seq(References), queries : SUBSET Question]

ASSUME RepoAssumption ==
    /\ Types \subseteq [kind : STRING, version : STRING, group : STRING, namespaced : BOOLEAN]
    /\ Ids \subseteq [type : Types, ns : STRING, name : STRING]
    /\ PodMetrics \in Types /\ CLIType \in Types
    /\ CLINamespace \in Namespaces
    /\ References \subseteq [ns : Namespaces, parsed : BOOLEAN, kind : STRING, version : STRING,
                             group : STRING, name : Names, uid : Nat]
    /\ Substring \subseteq Names \X Names
    /\ Starts \subseteq Start
    /\ \A s \in Starts : \A id \in s.pods : id.type = PodMetrics
    /\ MaxVersion \in Nat

-----------------------------------------------------------------------------
(***************************************************************************)
(* The cluster.  An object that is created anew has another UID.           *)
(***************************************************************************)
Change ==
    LET v == Len(history) + 1 IN
    \E id \in start.moving, exists \in BOOLEAN :
        /\ v <= MaxVersion /\ (exists \/ cluster[id].exists)
        /\ history' = Append(history, [cluster EXCEPT ![id] =
              IF exists THEN [exists |-> TRUE, rv |-> v,
                              uid |-> IF cluster[id].exists THEN cluster[id].uid ELSE v]
              ELSE Gone])
        /\ UNCHANGED <<start, task, names, cache_vars, page_vars>>

-----------------------------------------------------------------------------
(***************************************************************************)
(* Questions.  named = {} asks for all objects of a type, ns = "" for      *)
(* those of every namespace.                                               *)
(***************************************************************************)
Ask(c, type, ns, named) == [cache |-> c, type |-> type, ns |-> ns, named |-> named]

Objects(type, ns, named)            == Ask("objects", type, ns, named)
AllNamespacesPodMetrics             == Ask("allPodMetrics", PodMetrics, "", {})
NamespacePodMetrics(ns)             == Objects(PodMetrics, ns, {})
EndpointSlices(type, ns)            == Ask("slices", type, ns, {})
KubeGetNodeStatsSummary(type, node) == Ask("stats", type, "", {node})
KubeGetNodeConfigz(type, node)      == Ask("configz", type, "", {node})
KubeGetNodeHealthz(type, node)      == Ask("healthz", type, "", {node})
MetricsUnavailableReason(type, api) == Ask("reason", type, "", {api})
DynamicObject(type, ns, name)       == Ask("none", type, ns, {name})
Ingresses(type, ns)                 == Ask("none", type, ns, {})

\* A cluster-scoped owner is asked for without the namespace.
\* Mutation: it is asked for in the namespace of the dependent.
ownerInNamespace(type, ref) == Ask("owner", type, ref.ns, {ref.name})
resolveOwner(type, ref) ==
    Ask("owner", type, IF type.namespaced THEN ref.ns ELSE "", {ref.name})

Matching(state, q) ==
    {id \in Ids : /\ state[id].exists /\ id.type = q.type
                  /\ q.ns = "" \/ id.ns = q.ns
                  /\ q.named = {} \/ id.name \in q.named}

Answer(state, S, err) ==
    [objects |-> {[id |-> id, uid |-> state[id].uid, rv |-> state[id].rv] : id \in S},
     err |-> err]

\* A list is answered or fails as a whole; a query by names gets each of them
\* or an error for it (ContinueOnError); a single object may not be found.
\* Everything may fail: forbidden, unreachable, a kind that is not installed.
RepliesAt(state, q) ==
    LET found == Matching(state, q)
        failed == Answer(state, {}, "failed")
    IN  IF q.named = {} THEN {Answer(state, found, "none"), failed}
        ELSE IF q.cache = "objects"
        THEN {Answer(state, S, IF q.named = {id.name : id \in S} THEN "none" ELSE "failed") :
                 S \in SUBSET found}
        ELSE {failed, IF found = {} THEN Answer(state, {}, "notfound")
                      ELSE Answer(state, found, "none")}

Replies(q) == RepliesAt(cluster, q)

\* Mutations: two namespaces share a key; errors are not kept.
cacheKeyNoNamespace(q) == [q EXCEPT !.ns = ""]
cacheKey(q) == q
storeSuccess(q, a) ==
    IF q.cache = "none" \/ a.err # "none" THEN cache
    ELSE [k \in DOMAIN cache \cup {cacheKey(q)} |-> IF k = cacheKey(q) THEN a ELSE cache[k]]
store(q, a) ==
    IF q.cache = "none" THEN cache
    ELSE [k \in DOMAIN cache \cup {cacheKey(q)} |-> IF k = cacheKey(q) THEN a ELSE cache[k]]

\* The question q is answered from its cache, or by the server.
AnswersTo(q) == IF cacheKey(q) \in DOMAIN cache THEN {cache[cacheKey(q)]} ELSE Replies(q)

Keep(q, a) ==
    IF cacheKey(q) \in DOMAIN cache THEN UNCHANGED cache_vars
    ELSE /\ cache' = store(q, a)
         /\ asked' = asked \cup {q}
         /\ again' = again \cup (asked \cap {q})

-----------------------------------------------------------------------------
(***************************************************************************)
(* resolvePartialNameArgs, before anything is listed.  The requests are    *)
(* the dynamic client's own, which keeps no answers.                       *)
(***************************************************************************)
Task(step, left) == [step |-> step, left |-> left]
Idle == Task("idle", <<>>)

\* The loop over left goes on.  Mutation: it goes one too far.
RestAndOne(step, left) == Task(step, Tail(left))
Rest(step, left) == IF Len(left) = 1 THEN Idle ELSE Task(step, Tail(left))

CLIQuery(named) ==
    Ask("none", CLIType, IF CLIType.namespaced THEN CLINamespace ELSE "", named)

Given == {start.args[i] : i \in DOMAIN start.args}

\* Nothing to resolve, or the query is not of the form TYPE name...
LeaveArgs ==
    /\ task.step = "resolve"
    /\ start.exact \/ start.args = <<>>
    /\ names' = Given
    /\ task' = Idle
    /\ UNCHANGED <<history, start, cache_vars, page_vars>>

Resolved(S) ==
    /\ names' = names \cup S
    /\ task' = Rest("resolve", task.left)

GetName ==
    /\ task.step = "resolve" /\ task.left # <<>> /\ ~start.exact
    /\ \E a \in Replies(CLIQuery({Head(task.left)})) :
          IF a.err = "notfound"
          THEN task' = Task("match", task.left) /\ UNCHANGED names
          ELSE Resolved({Head(task.left)})
    /\ UNCHANGED <<history, start, cache_vars, page_vars>>

namesContaining(a, name) ==
    {o.id.name : o \in {x \in a.objects : <<name, x.id.name>> \in Substring}}

\* Mutation: a name that matches nothing is dropped.
matchesOnly(a, name) == IF a.err # "none" THEN {name} ELSE namesContaining(a, name)
matches(a, name) ==
    IF a.err # "none" \/ namesContaining(a, name) = {} THEN {name} ELSE namesContaining(a, name)

MatchName ==
    /\ task.step = "match"
    /\ \E a \in Replies(CLIQuery({})) : Resolved(matches(a, Head(task.left)))
    /\ UNCHANGED <<history, start, cache_vars, page_vars>>

-----------------------------------------------------------------------------
(***************************************************************************)
(* Pod metrics: one list of all namespaces for the whole process, and if   *)
(* that failed one for each namespace asked for.                           *)
(***************************************************************************)
metricsIn(objects, id) ==
    [id |-> id, rv |-> IF \E o \in objects : o.id = id
                       THEN (CHOOSE o \in objects : o.id = id).rv ELSE 0]

\* Mutation: an answer from the cache is not looked at for its error.
KnownAsAnswered(a) == a.err = "none" \/ AllNamespacesPodMetrics \in asked
Known(a) == a.err = "none"

KubeGetPodMetrics ==
    /\ task = Idle
    /\ \E id \in start.pods, a \in AnswersTo(AllNamespacesPodMetrics) :
          /\ Keep(AllNamespacesPodMetrics, a)
          /\ IF Known(a)
             THEN metrics' = metrics \cup {metricsIn(a.objects, id)} /\ UNCHANGED task
             ELSE task' = Task("metrics", <<id>>) /\ UNCHANGED metrics
    /\ UNCHANGED <<history, start, names, owners, told>>

FallBack ==
    /\ task.step = "metrics"
    /\ LET q == NamespacePodMetrics(Head(task.left).ns) IN
       \E a \in AnswersTo(q) :
          /\ Keep(q, a)
          /\ metrics' = metrics \cup {metricsIn(a.objects, Head(task.left))}
    /\ task' = Idle
    /\ UNCHANGED <<history, start, names, owners, told>>

-----------------------------------------------------------------------------
(***************************************************************************)
(* Owners.                                                                 *)
(***************************************************************************)
\* The served types of a kind; "" stands for any version, and any group.
mappingFor(kind, version, group) ==
    {t \in Types : /\ t.kind = kind
                   /\ version = "" \/ t.version = version
                   /\ group = "" \/ t.group = group}

\* An apiVersion that lacks its group is tried as a group, and then ignored.
ownerReferenceMapping(ref) ==
    IF ~ref.parsed THEN mappingFor(ref.kind, "", "")
    ELSE IF ref.group = "" /\ ref.version # "v1"
    THEN LET m == mappingFor(ref.kind, "", ref.version) IN
         IF m # {} THEN m ELSE mappingFor(ref.kind, "", "")
    ELSE mappingFor(ref.kind, ref.version, ref.group)

ownerQuestion(ref) == resolveOwner(CHOOSE t \in ownerReferenceMapping(ref) : TRUE, ref)

GetOwners ==
    /\ task = Idle
    /\ \E d \in start.dependents : d # <<>> /\ task' = Task("owners", d)
    /\ UNCHANGED <<history, start, names, cache_vars, page_vars>>

Verdict(ref, verdict, uid) == [ref |-> ref, verdict |-> verdict, uid |-> uid]

\* Mutation: whatever goes wrong, the owner is taken to be gone.
verdictGone(ref, a) ==
    IF a.err # "none" THEN Verdict(ref, "orphan", 0)
    ELSE Verdict(ref, "owner", (CHOOSE o \in a.objects : TRUE).uid)
verdict(ref, a) ==
    CASE a.err = "none"     -> Verdict(ref, "owner", (CHOOSE o \in a.objects : TRUE).uid)
      [] a.err = "notfound" -> Verdict(ref, "orphan", 0)
      [] OTHER              -> Verdict(ref, "skipped", 0)

\* The loop of Owners, one reference at a time.
NextOwner ==
    /\ task.step = "owners"
    /\ LET ref == Head(task.left) IN
       \/ /\ ownerReferenceMapping(ref) = {}
          /\ owners' = owners \cup {Verdict(ref, "skipped", 0)}
          /\ UNCHANGED cache_vars
       \/ /\ ownerReferenceMapping(ref) # {}
          /\ LET q == ownerQuestion(ref) IN
             \E a \in AnswersTo(q) :
                /\ Keep(q, a)
                /\ owners' = owners \cup {verdict(ref, a)}
    /\ task' = Rest("owners", task.left)
    /\ UNCHANGED <<history, start, names, metrics, told>>

-----------------------------------------------------------------------------
(***************************************************************************)
(* The other methods, by what they make of an error.                       *)
(***************************************************************************)
\* Objects sorts by creation, so FirstObject is an oldest one.
FirstObject(a) ==
    IF a.err # "none" \/ a.objects = {} THEN {}
    ELSE {CHOOSE o \in a.objects : \A x \in a.objects : o.uid <= x.uid}

AllOrNothing(a) == IF a.err = "none" THEN a.objects ELSE {}

\* KubeList stands for KubeGetByLabelsMap, kubeListPolicies,
\* KubeGetNodeStatsSummary, KubeGetNodeConfigz, the methods without a cache, and
\* the requests of KubeGetServicesMatchingPod, the list of slices and each
\* Service they name, one by one; KubeCheck for KubeGetNodeHealthz and
\* KubeMetricsUnavailableReason, which report an error.
Callers == {"KubeGet", "KubeGetFirst", "KubeList", "KubeCheck"}
Through(caller) ==
    CASE caller \in {"KubeGet", "KubeGetFirst"} -> {"objects"}
      [] caller = "KubeList"  -> {"objects", "slices", "stats", "configz", "none"}
      [] caller = "KubeCheck" -> {"healthz", "reason"}

Result(caller, a) ==
    CASE caller = "KubeGetFirst" -> FirstObject(a)
      [] caller = "KubeList"     -> AllOrNothing(a)
      [] OTHER                   -> a.objects

Report(caller, q, a) ==
    [caller |-> caller, question |-> q, objects |-> Result(caller, a),
     err |-> IF caller = "KubeCheck" THEN a.err ELSE "none"]

Query(caller) ==
    /\ task = Idle
    /\ \E q \in start.queries : \E a \in AnswersTo(q) :
          /\ q.cache \in Through(caller)
          /\ Keep(q, a)
          /\ told' = told \cup {Report(caller, q, a)}
    /\ UNCHANGED <<history, start, task, names, metrics, owners>>

KubeGet      == Query("KubeGet")
KubeGetFirst == Query("KubeGetFirst")
KubeList     == Query("KubeList")
KubeCheck    == Query("KubeCheck")

-----------------------------------------------------------------------------
Init ==
    /\ start \in Starts
    /\ history = <<start.state>>
    /\ task = Task("resolve", start.args)
    /\ names = {}
    /\ cache = <<>>
    /\ asked = {} /\ again = {}
    /\ metrics = {} /\ owners = {} /\ told = {}

Next == \/ LeaveArgs \/ GetName \/ MatchName
        \/ KubeGetPodMetrics \/ FallBack
        \/ GetOwners \/ NextOwner
        \/ KubeGet \/ KubeGetFirst \/ KubeList \/ KubeCheck
        \/ Change

Spec == Init /\ [][Next]_vars

-----------------------------------------------------------------------------
(***************************************************************************)
(* Properties.                                                             *)
(***************************************************************************)
Moments == 1..Len(history)

Seen == [id : Ids, uid : Nat, rv : Nat]

TypeOKRepo ==
    /\ history \in Seq([Ids -> State]) /\ Len(history) >= 1
    /\ start \in Starts
    /\ \/ task.step \in {"resolve", "match"} /\ task.left \in Seq(Names)
       \/ task.step = "metrics" /\ \E id \in start.pods : task.left = <<id>>
       \/ task.step = "owners" /\ task.left \in Seq(References)
       \/ task = Idle
    /\ task.step \in {"match", "owners"} => task.left # <<>>
    /\ names \subseteq Names
    /\ DOMAIN cache \subseteq Question
    /\ \A k \in DOMAIN cache : cache[k] \in [objects : SUBSET Seen, err : Errors]
    /\ again \subseteq asked /\ asked \subseteq Question
    /\ metrics \subseteq [id : Ids, rv : Nat]
    /\ owners \subseteq [ref : References, verdict : {"owner", "orphan", "skipped"}, uid : Nat]
    /\ told \subseteq [caller : Callers, question : Question,
                       objects : SUBSET Seen, err : Errors]

(***************************************************************************)
(* The page rests on the answers of a Ledger: the caches are its kept      *)
(* answers, and what has been said of metrics, owners and the rest its     *)
(* page.  Tasks, keys and the loops of Owners and KubeGetPodMetrics are    *)
(* hidden (input.go:36-44 and the Once* caches: "callers never retry it"). *)
(***************************************************************************)
StatementsOn(q, a) ==
    {Report(caller, q, a) : caller \in {c \in Callers : q.cache \in Through(c)}}
        \cup {metricsIn(a.objects, id) : id \in {i \in Ids : \/ q = NamespacePodMetrics(i.ns)
                                                           \/ /\ q = AllNamespacesPodMetrics
                                                              /\ a.err = "none"}}
        \cup {verdict(ref, a) : ref \in {r \in References :
                                    ownerReferenceMapping(r) # {} /\ q = ownerQuestion(r)}}

Unfounded == {Verdict(ref, "skipped", 0) : ref \in References}

OnTheLedger ==
    INSTANCE Ledger WITH
        Questions <- Question, Kept <- {q \in Question : q.cache # "none"},
        AnswersAt <- RepliesAt, StatementsOn <- StatementsOn, Unfounded <- Unfounded,
        kept <- cache, page <- metrics \cup owners \cup told

ImplementsLedger == OnTheLedger!Spec

(***************************************************************************)
(* What has a cache is asked of the server once, however the answer turned *)
(* out and however many objects are rendered (AllNamespacesPodMetrics:     *)
(* "callers never retry it").                                              *)
(***************************************************************************)
OneRequest == \A q \in again : q.cache = "none"

(***************************************************************************)
(* A page does not contradict itself: a cached question has one answer for *)
(* each caller, a reference one verdict, a pod one set of metrics.         *)
(***************************************************************************)
OneAnswer ==
    /\ \A f, g \in told : /\ f.caller = g.caller /\ f.question = g.question
                          /\ f.question.cache # "none"
                          => f = g
    /\ \A f, g \in owners : f.ref = g.ref => f = g
    /\ \A f, g \in metrics : f.id = g.id => f = g

(***************************************************************************)
(* The metrics shown of the pods of a namespace were the cluster's at one  *)
(* moment, and a pod shown without had none then; unless both the list of  *)
(* all namespaces and the namespace's own failed (KubeGetPodMetrics).      *)
(***************************************************************************)
MetricsOfOneMoment ==
    \A ns \in Namespaces :
        \/ \E n \in Moments : \A f \in metrics :
              f.id.ns = ns => f.rv = IF history[n][f.id].exists THEN history[n][f.id].rv ELSE 0
        \/ /\ AllNamespacesPodMetrics \in DOMAIN cache
           /\ NamespacePodMetrics(ns) \in DOMAIN cache
           /\ cache[AllNamespacesPodMetrics].err = "failed"
           /\ cache[NamespacePodMetrics(ns)].err = "failed"
           /\ \A f \in metrics : f.id.ns = ns => f.rv = 0

(***************************************************************************)
(* An owner is called gone, or shown, on evidence only: there was a moment *)
(* since the command began at which no object of that kind and name        *)
(* existed where the reference points, or that one did (Owners: "that's    *)
(* not evidence the owner is gone").                                       *)
(***************************************************************************)
Target(id, ref) == /\ id.type \in ownerReferenceMapping(ref) /\ id.name = ref.name
                   /\ ref.ns \in {"", id.ns} \/ ~id.type.namespaced

OwnersOnEvidence ==
    \A f \in owners : \E n \in Moments :
        /\ f.verdict = "orphan" => \E t \in ownerReferenceMapping(f.ref) :
              \A id \in Ids : id.type = t /\ Target(id, f.ref) => ~history[n][id].exists
        /\ f.verdict = "owner" => \E id \in Ids :
              /\ Target(id, f.ref)
              /\ history[n][id].exists /\ history[n][id].uid = f.uid

(***************************************************************************)
(* A result is what the cluster held at one moment: nothing in it is       *)
(* older or newer than the rest, and a list that is shown is whole.        *)
(***************************************************************************)
WholeAnswers ==
    \A f \in told : \E n \in Moments :
        LET there == Matching(history[n], f.question) IN
        /\ \A o \in f.objects : /\ o.id \in there
                                /\ o.rv = history[n][o.id].rv /\ o.uid = history[n][o.id].uid
        /\ f.caller = "KubeList" /\ f.question.named = {} /\ f.objects # {} =>
              {o.id : o \in f.objects} = there

(***************************************************************************)
(* A name that exists all along is listed as it is given.  Every name      *)
(* given stands for at least one that is listed, itself or one it is part  *)
(* of; and nothing else is listed (resolvePartialNameArgs).                *)
(***************************************************************************)
CLIExists(n, name) ==
    \E id \in Matching(history[n], CLIQuery({name})) : TRUE

NamesResolved ==
    task.step \notin {"resolve", "match"} =>
        /\ \A g \in Given : \/ g \in names
                            \/ /\ \E x \in names : <<g, x>> \in Substring
                               /\ \E n \in Moments : ~CLIExists(n, g)
        /\ \A x \in names \ Given : \E g \in Given :
              /\ <<g, x>> \in Substring
              /\ \E n, m \in Moments : n <= m /\ ~CLIExists(n, g) /\ CLIExists(m, x)

=============================================================================
