--------------------------- MODULE ResourceRepo_proof --------------------------
(***************************************************************************)
(* Theorems about ResourceRepo, for any objects, commands, questions and   *)
(* number of changes.                                                      *)
(***************************************************************************)
EXTENDS ResourceRepo, TLAPS, WellFoundedInduction

-----------------------------------------------------------------------------
(***************************************************************************)
(* Caches.  Answering a question adds its answer, and disturbs no other.   *)
(***************************************************************************)
LEMMA KeepShape ==
    ASSUME NEW q, NEW a \in AnswersTo(q), Keep(q, a)
    PROVE  /\ \A k \in DOMAIN cache : k \in DOMAIN cache' /\ cache'[k] = cache[k]
           /\ \A k \in DOMAIN cache' : k \in DOMAIN cache \/ k = q
           /\ q.cache # "none" => q \in DOMAIN cache' /\ cache'[q] = a
           /\ q \notin DOMAIN cache /\ q \in DOMAIN cache' =>
                 q.cache # "none" /\ a \in Replies(q)
           /\ asked \subseteq asked' /\ asked' \subseteq asked \cup {q}
           /\ again' \subseteq again \cup (asked \cap {q})
           /\ q \in DOMAIN cache => UNCHANGED cache_vars
<1>1. CASE q \in DOMAIN cache
  BY <1>1 DEF Keep, AnswersTo, cacheKey, cache_vars
<1>2. CASE q \notin DOMAIN cache /\ q.cache = "none"
  BY <1>2 DEF Keep, AnswersTo, cacheKey, store
<1>3. CASE q \notin DOMAIN cache /\ q.cache # "none"
  <2>1. cache' = [k \in DOMAIN cache \cup {q} |-> IF k = q THEN a ELSE cache[k]]
    BY <1>3 DEF Keep, cacheKey, store
  <2> QED
    BY <1>3, <2>1 DEF Keep, AnswersTo, cacheKey
<1> QED
  BY <1>1, <1>2, <1>3

\* What a step does to the caches: nothing, or it answers one question.
CacheStep == \/ UNCHANGED cache_vars
             \/ \E q : \E a \in AnswersTo(q) : Keep(q, a)

LEMMA StepsOnCache == [Next]_vars => CacheStep
<1> SUFFICES ASSUME [Next]_vars PROVE CacheStep
  OBVIOUS
<1>1. CASE UNCHANGED vars
  BY <1>1 DEF vars, CacheStep
<1>2. CASE LeaveArgs \/ GetName \/ MatchName \/ GetOwners \/ Change
  BY <1>2 DEF LeaveArgs, GetName, MatchName, GetOwners, Change, CacheStep
<1>3. CASE KubeGetPodMetrics \/ FallBack
  BY <1>3 DEF KubeGetPodMetrics, FallBack, CacheStep
<1>4. CASE NextOwner
  BY <1>4 DEF NextOwner, CacheStep
<1>5. ASSUME NEW caller, Query(caller) PROVE CacheStep
  BY <1>5 DEF Query, CacheStep
<1> QED
  BY <1>1, <1>2, <1>3, <1>4, <1>5 DEF Next, KubeGet, KubeGetFirst, KubeList, KubeCheck

\* The log only grows.
LEMMA HistoryGrows ==
    ASSUME history \in Seq([Ids -> State]), history # <<>>, [Next]_vars
    PROVE  /\ \A n \in Moments : n \in Moments' /\ history'[n] = history[n]
           /\ cluster = history[Len(history)] /\ Len(history) \in Moments
<1>1. CASE UNCHANGED history
  BY <1>1 DEF Moments, cluster
<1>2. CASE Change
  <2>1. \E s : history' = Append(history, s)
    BY <1>2 DEF Change
  <2> QED
    BY <2>1 DEF Moments, cluster
<1> QED
  BY <1>1, <1>2 DEF Next, LeaveArgs, GetName, MatchName, KubeGetPodMetrics, FallBack, GetOwners,
                    NextOwner, KubeGet, KubeGetFirst, KubeList, KubeCheck, Query, vars

-----------------------------------------------------------------------------
(***************************************************************************)
(* Every answer kept was a reply of the server at some moment, and every   *)
(* question asked that has a cache has its answer kept.                    *)
(***************************************************************************)
HistoryInv == history \in Seq([Ids -> State]) /\ history # <<>>

CacheInv ==
    /\ \A k \in DOMAIN cache : /\ k.cache # "none"
                               /\ \E n \in Moments : cache[k] \in RepliesAt(history[n], k)
    /\ \A q \in asked : q.cache = "none" \/ q \in DOMAIN cache
    /\ \A q \in again : q.cache = "none"

RepoInv == HistoryInv /\ CacheInv

LEMMA StartTypes ==
    ASSUME NEW s \in Starts
    PROVE  /\ s.state \in [Ids -> State] /\ s.args \in Seq(Names)
           /\ s.moving \subseteq Ids /\ s.pods \subseteq Ids
           /\ s.dependents \subseteq Seq(References) /\ s.queries \subseteq Question
           /\ \A id \in s.pods : id.type = PodMetrics
  BY RepoAssumption DEF Start

LEMMA RepoInit == Init => RepoInv
  BY StartTypes DEF Init, RepoInv, HistoryInv, CacheInv, Moments

\* start never changes.
LEMMA StartConstant == [Next]_vars => start' = start
  BY DEF Next, LeaveArgs, GetName, MatchName, KubeGetPodMetrics, FallBack, GetOwners, NextOwner,
         KubeGet, KubeGetFirst, KubeList, KubeCheck, Query, Change, vars

LEMMA HistoryNext ==
    ASSUME HistoryInv, start \in Starts, [Next]_vars
    PROVE  HistoryInv'
<1>1. CASE UNCHANGED history
  BY <1>1 DEF HistoryInv
<1>2. CASE Change
  <2>1. PICK id \in start.moving, exists \in BOOLEAN :
          history' = Append(history, [cluster EXCEPT ![id] =
              IF exists THEN [exists |-> TRUE, rv |-> Len(history) + 1,
                              uid |-> IF cluster[id].exists THEN cluster[id].uid
                                      ELSE Len(history) + 1]
              ELSE Gone])
    BY <1>2 DEF Change
  <2>2. Len(history) \in Nat /\ cluster \in [Ids -> State]
    BY DEF HistoryInv, cluster
  <2>3. id \in Ids
    BY StartTypes
  <2>4. cluster[id].uid \in Nat
    BY <2>2, <2>3 DEF State
  <2>5. Gone \in State
    BY DEF Gone, State
  <2>6. \A v : v \in State => [cluster EXCEPT ![id] = v] \in [Ids -> State]
    BY <2>2
  <2>7. (IF exists THEN [exists |-> TRUE, rv |-> Len(history) + 1,
                         uid |-> IF cluster[id].exists THEN cluster[id].uid
                                 ELSE Len(history) + 1]
         ELSE Gone) \in State
    BY <2>2, <2>4, <2>5 DEF State
  <2>8. \E t \in [Ids -> State] : history' = Append(history, t)
    BY <2>1, <2>6, <2>7
  <2> QED
    BY <2>8 DEF HistoryInv
<1> QED
  BY <1>1, <1>2 DEF Next, LeaveArgs, GetName, MatchName, KubeGetPodMetrics, FallBack, GetOwners,
                    NextOwner, KubeGet, KubeGetFirst, KubeList, KubeCheck, Query, vars

LEMMA CacheNext ==
    ASSUME HistoryInv, CacheInv, [Next]_vars
    PROVE  CacheInv'
<1>1. /\ \A n \in Moments : n \in Moments' /\ history'[n] = history[n]
      /\ cluster = history[Len(history)] /\ Len(history) \in Moments
  BY HistoryGrows DEF HistoryInv
<1>2. CASE UNCHANGED cache_vars
  BY <1>1, <1>2 DEF CacheInv, cache_vars
<1>3. ASSUME NEW q, NEW a \in AnswersTo(q), Keep(q, a) PROVE CacheInv'
  <2> USE KeepShape, <1>3
  <2>1. \A k \in DOMAIN cache' :
           k.cache # "none" /\ \E n \in Moments' : cache'[k] \in RepliesAt(history'[n], k)
    <3> SUFFICES ASSUME NEW k \in DOMAIN cache'
                 PROVE  k.cache # "none" /\ \E n \in Moments' : cache'[k] \in RepliesAt(history'[n], k)
      OBVIOUS
    <3>1. CASE k \in DOMAIN cache
      <4>1. cache'[k] = cache[k]
        BY <3>1
      <4> QED
        BY <3>1, <4>1, <1>1 DEF CacheInv
    <3>2. CASE k \notin DOMAIN cache
      <4>1. k = q /\ q.cache # "none" /\ a \in Replies(q) /\ cache'[q] = a
        BY <3>2
      <4>2. cache'[k] \in RepliesAt(history[Len(history)], k)
        BY <4>1, <1>1 DEF Replies
      <4> QED
        BY <4>1, <4>2, <1>1
    <3> QED
      BY <3>1, <3>2
  <2>2. \A p \in asked' : p.cache = "none" \/ p \in DOMAIN cache'
    BY DEF CacheInv
  <2>3. \A p \in again' : p.cache = "none"
    <3>1. CASE q \in DOMAIN cache
      BY <3>1 DEF CacheInv, cache_vars
    <3>2. CASE q \notin DOMAIN cache
      BY <3>2 DEF CacheInv
    <3> QED
      BY <3>1, <3>2
  <2> QED
    BY <2>1, <2>2, <2>3 DEF CacheInv
<1> QED
  BY <1>2, <1>3, StepsOnCache DEF CacheStep

LEMMA RepoAlways == Spec => [](RepoInv /\ start \in Starts)
<1>1. Init => RepoInv /\ start \in Starts
  BY RepoInit DEF Init
<1>2. RepoInv /\ start \in Starts /\ [Next]_vars => (RepoInv /\ start \in Starts)'
  BY HistoryNext, CacheNext, StartConstant DEF RepoInv
<1> QED
  BY <1>1, <1>2, PTL DEF Spec

\* What has a cache is asked of the server once, however the answer turned
\* out (the caches of ResourceRepo keep errors too).
THEOREM AskedOnce == Spec => []OneRequest
<1>1. RepoInv => OneRequest
  BY DEF RepoInv, CacheInv, OneRequest
<1> QED
  BY <1>1, RepoAlways, PTL

-----------------------------------------------------------------------------
(***************************************************************************)
(* The page.  Everything on it follows from what is in the caches, but for *)
(* the methods that have none.                                             *)
(***************************************************************************)
ToldInv ==
    \A f \in told : \E n \in Moments : \E a \in RepliesAt(history[n], f.question) :
        /\ f = Report(f.caller, f.question, a)
        /\ f.question.cache # "none" =>
              f.question \in DOMAIN cache /\ a = cache[f.question]

OwnersInv ==
    \A f \in owners :
        IF ownerReferenceMapping(f.ref) = {} THEN f = Verdict(f.ref, "skipped", 0)
        ELSE /\ ownerQuestion(f.ref) \in DOMAIN cache
             /\ f = verdict(f.ref, cache[ownerQuestion(f.ref)])

\* The list that answers for the metrics of pods of a namespace.
Source(ns) == IF Known(cache[AllNamespacesPodMetrics]) THEN AllNamespacesPodMetrics
              ELSE NamespacePodMetrics(ns)

MetricsInv ==
    /\ \A f \in metrics :
          /\ AllNamespacesPodMetrics \in DOMAIN cache
          /\ Source(f.id.ns) \in DOMAIN cache
          /\ f = metricsIn(cache[Source(f.id.ns)].objects, f.id)
          /\ f.id \in start.pods
    /\ task.step = "metrics" =>
          /\ AllNamespacesPodMetrics \in DOMAIN cache
          /\ ~Known(cache[AllNamespacesPodMetrics])
          /\ \E id \in start.pods : task.left = <<id>>

\* Answers come from moments.
LEMMA AnswersOfMoments ==
    ASSUME RepoInv, [Next]_vars, NEW q, NEW a \in AnswersTo(q)
    PROVE  \E n \in Moments' : a \in RepliesAt(history'[n], q)
<1>1. /\ \A n \in Moments : n \in Moments' /\ history'[n] = history[n]
      /\ cluster = history[Len(history)] /\ Len(history) \in Moments
  BY HistoryGrows DEF RepoInv, HistoryInv
<1>2. CASE q \in DOMAIN cache
  <2>1. a = cache[q]
    BY <1>2 DEF AnswersTo, cacheKey
  <2> QED
    BY <1>1, <1>2, <2>1 DEF RepoInv, CacheInv
<1>3. CASE q \notin DOMAIN cache
  <2>1. a \in RepliesAt(history[Len(history)], q)
    BY <1>1, <1>3 DEF AnswersTo, cacheKey, Replies
  <2> QED
    BY <1>1, <2>1
<1> QED
  BY <1>2, <1>3

LEMMA CacheGrows ==
    ASSUME [Next]_vars
    PROVE  \A k \in DOMAIN cache : k \in DOMAIN cache' /\ cache'[k] = cache[k]
<1>1. CASE UNCHANGED cache_vars
  BY <1>1 DEF cache_vars
<1> QED
  BY <1>1, KeepShape, StepsOnCache DEF CacheStep

LEMMA ToldNext ==
    ASSUME RepoInv, ToldInv, [Next]_vars
    PROVE  ToldInv'
<1> USE CacheGrows
<1>1. \A n \in Moments : n \in Moments' /\ history'[n] = history[n]
  BY HistoryGrows DEF RepoInv, HistoryInv
<1>2. ASSUME NEW f \in told
      PROVE  \E n \in Moments' : \E a \in RepliesAt(history'[n], f.question) :
                /\ f = Report(f.caller, f.question, a)
                /\ f.question.cache # "none" =>
                      f.question \in DOMAIN cache' /\ a = cache'[f.question]
  BY <1>1, <1>2 DEF ToldInv
<1>3. CASE UNCHANGED told
  BY <1>2, <1>3 DEF ToldInv
<1>4. ASSUME NEW caller, Query(caller) PROVE ToldInv'
  <2>0. PICK q \in start.queries : \E a \in AnswersTo(q) :
           Keep(q, a) /\ told' = told \cup {Report(caller, q, a)}
    BY <1>4 DEF Query
  <2>1. PICK a \in AnswersTo(q) : Keep(q, a) /\ told' = told \cup {Report(caller, q, a)}
    BY <2>0
  <2>2. PICK n \in Moments' : a \in RepliesAt(history'[n], q)
    BY AnswersOfMoments
  <2>3. q.cache # "none" => q \in DOMAIN cache' /\ cache'[q] = a
    BY <2>1, KeepShape
  <2> DEFINE f == Report(caller, q, a)
  <2>4. f.caller = caller /\ f.question = q /\ f = Report(f.caller, f.question, a)
    BY DEF Report
  <2>5. \E m \in Moments' : \E b \in RepliesAt(history'[m], f.question) :
           /\ f = Report(f.caller, f.question, b)
           /\ f.question.cache # "none" =>
                 f.question \in DOMAIN cache' /\ b = cache'[f.question]
    BY <2>2, <2>3, <2>4
  <2> QED
    BY <1>2, <2>1, <2>5 DEF ToldInv
<1> QED
  BY <1>3, <1>4 DEF Next, LeaveArgs, GetName, MatchName, KubeGetPodMetrics, FallBack, GetOwners,
                    NextOwner, KubeGet, KubeGetFirst, KubeList, KubeCheck, Change, vars, page_vars

LEMMA OwnersNext ==
    ASSUME OwnersInv, [Next]_vars
    PROVE  OwnersInv'
<1> USE CacheGrows
<1>1. ASSUME NEW f \in owners
      PROVE  IF ownerReferenceMapping(f.ref) = {} THEN f = Verdict(f.ref, "skipped", 0)
             ELSE /\ ownerQuestion(f.ref) \in DOMAIN cache'
                  /\ f = verdict(f.ref, cache'[ownerQuestion(f.ref)])
  BY <1>1 DEF OwnersInv
<1>2. CASE UNCHANGED owners
  BY <1>1, <1>2 DEF OwnersInv
<1>3. CASE NextOwner
  <2> DEFINE ref == Head(task.left)
  <2>1. CASE ownerReferenceMapping(ref) = {}
    <3>1. owners' = owners \cup {Verdict(ref, "skipped", 0)}
      BY <1>3, <2>1 DEF NextOwner
    <3>2. Verdict(ref, "skipped", 0).ref = ref
      BY DEF Verdict
    <3> QED
      BY <1>1, <2>1, <3>1, <3>2 DEF OwnersInv
  <2>2. CASE ownerReferenceMapping(ref) # {}
    <3> DEFINE q == ownerQuestion(ref)
    <3>1. PICK a \in AnswersTo(q) : Keep(q, a) /\ owners' = owners \cup {verdict(ref, a)}
      BY <1>3, <2>2 DEF NextOwner
    <3>2. q.cache # "none"
      BY DEF ownerQuestion, resolveOwner, Ask
    <3>3. q \in DOMAIN cache' /\ cache'[q] = a
      BY <3>1, <3>2, KeepShape
    <3>4. verdict(ref, a).ref = ref
      BY DEF verdict, Verdict
    <3> QED
      BY <1>1, <2>2, <3>1, <3>3, <3>4 DEF OwnersInv
  <2> QED
    BY <2>1, <2>2
<1> QED
  BY <1>2, <1>3 DEF Next, LeaveArgs, GetName, MatchName, KubeGetPodMetrics, FallBack, GetOwners,
                    KubeGet, KubeGetFirst, KubeList, KubeCheck, Query, Change, vars, page_vars

LEMMA MetricsNext ==
    ASSUME MetricsInv, [Next]_vars
    PROVE  MetricsInv'
<1> USE CacheGrows
<1>0. start' = start
  BY StartConstant
<1>1. ASSUME NEW f \in metrics
      PROVE  /\ AllNamespacesPodMetrics \in DOMAIN cache'
             /\ Source(f.id.ns)' \in DOMAIN cache'
             /\ f = metricsIn(cache'[Source(f.id.ns)'].objects, f.id)
             /\ f.id \in start'.pods
  <2>1. /\ AllNamespacesPodMetrics \in DOMAIN cache
        /\ cache'[AllNamespacesPodMetrics] = cache[AllNamespacesPodMetrics]
    BY <1>1 DEF MetricsInv
  <2>2. Source(f.id.ns)' = Source(f.id.ns)
    BY <2>1 DEF Source
  <2> QED
    BY <1>0, <1>1, <2>1, <2>2 DEF MetricsInv
<1>2. CASE UNCHANGED <<metrics, task>>
  BY <1>0, <1>1, <1>2 DEF MetricsInv
<1>3. CASE UNCHANGED metrics /\ task' # task /\ task'.step # "metrics"
  BY <1>0, <1>1, <1>3 DEF MetricsInv
<1>4. CASE KubeGetPodMetrics
  <2> DEFINE q == AllNamespacesPodMetrics
  <2>1. PICK id \in start.pods, a \in AnswersTo(q) :
           /\ Keep(q, a)
           /\ IF Known(a)
              THEN metrics' = metrics \cup {metricsIn(a.objects, id)} /\ UNCHANGED task
              ELSE task' = Task("metrics", <<id>>) /\ UNCHANGED metrics
    BY <1>4 DEF KubeGetPodMetrics
  <2>2. q.cache # "none"
    BY DEF AllNamespacesPodMetrics, Ask
  <2>3. q \in DOMAIN cache' /\ cache'[q] = a
    BY <2>1, <2>2, KeepShape
  <2>4. metricsIn(a.objects, id).id = id
    BY DEF metricsIn
  <2>5. task.step # "metrics"
    BY <1>4 DEF KubeGetPodMetrics, Idle, Task
  <2>6. CASE Known(a)
    <3>1. Source(id.ns)' = q
      BY <2>3, <2>6 DEF Source
    <3>2. metrics' = metrics \cup {metricsIn(a.objects, id)} /\ task' = task
      BY <2>1, <2>6
    <3> QED
      BY <1>0, <1>1, <2>3, <2>4, <2>5, <3>1, <3>2 DEF MetricsInv
  <2>7. CASE ~Known(a)
    <3>1. task'.left = <<id>> /\ metrics' = metrics
      BY <2>1, <2>7 DEF Task
    <3> QED
      BY <1>0, <1>1, <2>3, <2>7, <3>1 DEF MetricsInv
  <2> QED
    BY <2>6, <2>7
<1>5. CASE FallBack
  <2>1. PICK id \in start.pods : task.left = <<id>>
    BY <1>5 DEF FallBack, MetricsInv
  <2>2. Head(task.left) = id
    BY <2>1
  <2> DEFINE q == NamespacePodMetrics(id.ns)
  <2>3. PICK a \in AnswersTo(q) :
           Keep(q, a) /\ metrics' = metrics \cup {metricsIn(a.objects, id)}
    BY <1>5, <2>2 DEF FallBack
  <2>4. q.cache # "none"
    BY DEF NamespacePodMetrics, Objects, Ask
  <2>5. q \in DOMAIN cache' /\ cache'[q] = a
    BY <2>3, <2>4, KeepShape
  <2>6. /\ AllNamespacesPodMetrics \in DOMAIN cache'
        /\ ~Known(cache'[AllNamespacesPodMetrics])
    BY <1>5 DEF FallBack, MetricsInv
  <2>7. Source(id.ns)' = q
    BY <2>6 DEF Source
  <2>8. metricsIn(a.objects, id).id = id
    BY DEF metricsIn
  <2>9. task'.step # "metrics"
    BY <1>5 DEF FallBack, Idle, Task
  <2> QED
    BY <1>0, <1>1, <2>3, <2>5, <2>6, <2>7, <2>8, <2>9 DEF MetricsInv
<1>6. ASSUME UNCHANGED metrics, \/ task' = Idle
                                \/ \E st, l : st # "metrics" /\ task' = Task(st, l)
      PROVE  MetricsInv'
  BY <1>0, <1>1, <1>6 DEF MetricsInv, Idle, Task
<1>7. CASE LeaveArgs \/ GetName \/ MatchName \/ GetOwners \/ NextOwner
  BY <1>6, <1>7 DEF LeaveArgs, GetName, MatchName, GetOwners, NextOwner, Resolved, Rest, page_vars
<1>8. CASE UNCHANGED vars \/ Change \/ \E caller : Query(caller)
  BY <1>2, <1>8 DEF vars, Change, Query, page_vars
<1> QED
  BY <1>4, <1>5, <1>7, <1>8 DEF Next, KubeGet, KubeGetFirst, KubeList, KubeCheck

PageInv == ToldInv /\ OwnersInv /\ MetricsInv

THEOREM RepoInvariant == Spec => [](RepoInv /\ PageInv /\ start \in Starts)
<1>1. Init => PageInv
  BY DEF Init, PageInv, ToldInv, OwnersInv, MetricsInv, Task
<1>2. RepoInv /\ PageInv /\ [Next]_vars => PageInv'
  BY ToldNext, OwnersNext, MetricsNext DEF PageInv
<1> QED
  BY <1>1, <1>2, RepoAlways, PTL DEF Spec

-----------------------------------------------------------------------------
(***************************************************************************)
(* What follows of the page.                                               *)
(***************************************************************************)
\* A page does not contradict itself: a cached question has one answer for
\* each caller, an owner reference one verdict, a pod one set of metrics.
THEOREM PageConsistent == Spec => []OneAnswer
<1>1. ASSUME PageInv PROVE OneAnswer
  <2>1. \A f, g \in told : /\ f.caller = g.caller /\ f.question = g.question
                           /\ f.question.cache # "none"
                           => f = g
    <3> SUFFICES ASSUME NEW f \in told, NEW g \in told, f.caller = g.caller,
                        f.question = g.question, f.question.cache # "none"
                 PROVE  f = g
      OBVIOUS
    <3>1. f = Report(f.caller, f.question, cache[f.question])
      BY <1>1 DEF PageInv, ToldInv
    <3>2. g = Report(g.caller, g.question, cache[g.question])
      BY <1>1 DEF PageInv, ToldInv
    <3> QED
      BY <3>1, <3>2
  <2>2. \A f, g \in owners : f.ref = g.ref => f = g
    <3> SUFFICES ASSUME NEW f \in owners, NEW g \in owners, f.ref = g.ref PROVE f = g
      OBVIOUS
    <3>1. f = IF ownerReferenceMapping(f.ref) = {} THEN Verdict(f.ref, "skipped", 0)
              ELSE verdict(f.ref, cache[ownerQuestion(f.ref)])
      BY <1>1 DEF PageInv, OwnersInv
    <3>2. g = IF ownerReferenceMapping(g.ref) = {} THEN Verdict(g.ref, "skipped", 0)
              ELSE verdict(g.ref, cache[ownerQuestion(g.ref)])
      BY <1>1 DEF PageInv, OwnersInv
    <3> QED
      BY <3>1, <3>2
  <2>3. \A f, g \in metrics : f.id = g.id => f = g
    <3> SUFFICES ASSUME NEW f \in metrics, NEW g \in metrics, f.id = g.id PROVE f = g
      OBVIOUS
    <3>1. /\ f = metricsIn(cache[Source(f.id.ns)].objects, f.id)
          /\ g = metricsIn(cache[Source(g.id.ns)].objects, g.id)
      BY <1>1 DEF PageInv, MetricsInv
    <3> QED
      BY <3>1
  <2> QED
    BY <2>1, <2>2, <2>3 DEF OneAnswer
<1> QED
  BY <1>1, RepoInvariant, PTL

\* The metrics shown of the pods of a namespace were the cluster's at one
\* moment; unless every list that could have had them failed.
THEOREM MetricsAgree == Spec => []MetricsOfOneMoment
<1>1. ASSUME RepoInv, MetricsInv, start \in Starts PROVE MetricsOfOneMoment
  <2> SUFFICES ASSUME NEW ns \in Namespaces
               PROVE
        \/ \E n \in Moments : \A f \in metrics :
              f.id.ns = ns => f.rv = IF history[n][f.id].exists THEN history[n][f.id].rv ELSE 0
        \/ /\ AllNamespacesPodMetrics \in DOMAIN cache
           /\ NamespacePodMetrics(ns) \in DOMAIN cache
           /\ cache[AllNamespacesPodMetrics].err = "failed"
           /\ cache[NamespacePodMetrics(ns)].err = "failed"
           /\ \A f \in metrics : f.id.ns = ns => f.rv = 0
    BY DEF MetricsOfOneMoment
  <2> DEFINE all == AllNamespacesPodMetrics
             own == NamespacePodMetrics(ns)
  <2>1. CASE \A f \in metrics : f.id.ns # ns
    <3>1. 1 \in Moments
      BY <1>1 DEF RepoInv, HistoryInv, Moments
    <3> QED
      BY <2>1, <3>1
  <2>2. CASE \E f \in metrics : f.id.ns = ns
    <3> DEFINE src == Source(ns)
    <3>1. /\ all \in DOMAIN cache /\ src \in DOMAIN cache
          /\ \A f \in metrics : f.id.ns = ns =>
                f = metricsIn(cache[src].objects, f.id) /\ f.id \in start.pods
      BY <1>1, <2>2 DEF MetricsInv
    <3>2. src.named = {} /\ src.type = PodMetrics /\ src.ns \in {"", ns}
      BY DEF Source, AllNamespacesPodMetrics, NamespacePodMetrics, Objects, Ask
    <3>3. \A k \in DOMAIN cache : k.named = {} =>
             \E n \in Moments : cache[k] \in {Answer(history[n], Matching(history[n], k), "none"),
                                              Answer(history[n], {}, "failed")}
      BY <1>1 DEF RepoInv, CacheInv, RepliesAt
    <3>4. PICK n \in Moments : cache[src] \in {Answer(history[n], Matching(history[n], src), "none"),
                                               Answer(history[n], {}, "failed")}
      BY <3>1, <3>2, <3>3
    <3>5. CASE cache[src] = Answer(history[n], Matching(history[n], src), "none")
      <4>1. ASSUME NEW f \in metrics, f.id.ns = ns
            PROVE  f.rv = IF history[n][f.id].exists THEN history[n][f.id].rv ELSE 0
        <5>1. f.id \in Ids /\ f.id.type = PodMetrics
          BY <1>1, <3>1, <4>1, StartTypes
        <5>2. f.id \in Matching(history[n], src) <=> history[n][f.id].exists
          BY <3>2, <4>1, <5>1 DEF Matching
        <5>3. cache[src].objects =
                 {[id |-> id, uid |-> history[n][id].uid, rv |-> history[n][id].rv] :
                     id \in Matching(history[n], src)}
          BY <3>5 DEF Answer
        <5>4. \A o \in cache[src].objects : o.rv = history[n][o.id].rv
          BY <5>3
        <5>a. \A o \in cache[src].objects : o.id \in Matching(history[n], src)
          BY <5>3
        <5>b. ASSUME f.id \in Matching(history[n], src)
              PROVE  \E o \in cache[src].objects : o.id = f.id
          <6> DEFINE o == [id |-> f.id, uid |-> history[n][f.id].uid, rv |-> history[n][f.id].rv]
          <6>1. o \in cache[src].objects
            BY <5>3, <5>b
          <6>2. o.id = f.id
            OBVIOUS
          <6> QED
            BY <6>1, <6>2
        <5>5. (\E o \in cache[src].objects : o.id = f.id) <=> history[n][f.id].exists
          BY <5>2, <5>a, <5>b
        <5>6. f.rv = IF \E o \in cache[src].objects : o.id = f.id
                     THEN (CHOOSE o \in cache[src].objects : o.id = f.id).rv ELSE 0
          BY <3>1, <4>1 DEF metricsIn
        <5>7. CASE \E o \in cache[src].objects : o.id = f.id
          <6>1. PICK x : x = CHOOSE o \in cache[src].objects : o.id = f.id
            OBVIOUS
          <6>2. x \in cache[src].objects /\ x.id = f.id
            BY <5>7, <6>1
          <6> QED
            BY <5>4, <5>5, <5>6, <5>7, <6>1, <6>2
        <5> QED
          BY <5>5, <5>6, <5>7
      <4> QED
        BY <4>1
    <3>6. CASE cache[src] = Answer(history[n], {}, "failed")
      <4>1. cache[src].err = "failed" /\ cache[src].objects = {}
        BY <3>6 DEF Answer
      <4>2. ~Known(cache[src])
        BY <4>1 DEF Known
      <4>3. src = own /\ ~Known(cache[all])
        BY <4>2 DEF Source
      <4>4. all.named = {}
        BY DEF AllNamespacesPodMetrics, Ask
      <4>5. cache[all].err = "failed"
        BY <3>1, <3>3, <4>3, <4>4 DEF Known, Answer
      <4>6. \A f \in metrics : f.id.ns = ns => f.rv = 0
        BY <3>1, <4>1 DEF metricsIn
      <4> QED
        BY <3>1, <4>1, <4>3, <4>5, <4>6
    <3> QED
      BY <3>4, <3>5, <3>6
  <2> QED
    BY <2>1, <2>2
<1> QED
  BY <1>1, RepoInvariant, PTL DEF PageInv

\* An owner is called gone, or shown, only if at some moment since the
\* command began it was gone, or was there.
THEOREM OwnersJustified == Spec => []OwnersOnEvidence
<1>1. ASSUME RepoInv, OwnersInv PROVE OwnersOnEvidence
  <2> SUFFICES ASSUME NEW f \in owners
               PROVE \E n \in Moments :
        /\ f.verdict = "orphan" => \E t \in ownerReferenceMapping(f.ref) :
              \A id \in Ids : id.type = t /\ Target(id, f.ref) => ~history[n][id].exists
        /\ f.verdict = "owner" => \E id \in Ids :
              /\ Target(id, f.ref)
              /\ history[n][id].exists /\ history[n][id].uid = f.uid
    BY DEF OwnersOnEvidence
  <2> DEFINE ref == f.ref
             t   == CHOOSE x \in ownerReferenceMapping(ref) : TRUE
             q   == ownerQuestion(ref)
             a   == cache[q]
  <2>1. CASE ownerReferenceMapping(ref) = {}
    <3>1. f.verdict = "skipped"
      BY <1>1, <2>1 DEF OwnersInv, Verdict
    <3>2. 1 \in Moments
      BY <1>1 DEF RepoInv, HistoryInv, Moments
    <3> QED
      BY <3>1, <3>2
  <2>2. CASE ownerReferenceMapping(ref) # {}
    <3>1. q \in DOMAIN cache /\ f = verdict(ref, a)
      BY <1>1, <2>2 DEF OwnersInv
    <3>2. t \in ownerReferenceMapping(ref)
      BY <2>2
    <3>3. /\ q.cache = "owner" /\ q.type = t /\ q.named = {ref.name}
          /\ q.ns = IF t.namespaced THEN ref.ns ELSE ""
      BY DEF ownerQuestion, resolveOwner, Ask
    <3>4. PICK n \in Moments : a \in RepliesAt(history[n], q)
      BY <1>1, <3>1 DEF RepoInv, CacheInv
    <3> DEFINE found == Matching(history[n], q)
    <3>5. a \in {Answer(history[n], {}, "failed"),
                 IF found = {} THEN Answer(history[n], {}, "notfound")
                 ELSE Answer(history[n], found, "none")}
      BY <3>3, <3>4 DEF RepliesAt
    <3>6. CASE a.err = "none"
      <4>1. a = Answer(history[n], found, "none") /\ found # {}
        BY <3>5, <3>6 DEF Answer
      <4>2. a.objects = {[id |-> id, uid |-> history[n][id].uid, rv |-> history[n][id].rv] :
                            id \in found}
        BY <4>1 DEF Answer
      <4>3. PICK o : o = CHOOSE x \in a.objects : TRUE
        OBVIOUS
      <4>4. o \in a.objects
        BY <4>1, <4>2, <4>3
      <4>5. PICK id \in found : o.uid = history[n][id].uid
        BY <4>2, <4>4
      <4>6. f.verdict = "owner" /\ f.uid = o.uid
        BY <3>1, <3>6, <4>3 DEF verdict, Verdict
      <4>7. /\ id \in Ids /\ history[n][id].exists /\ id.type = t
            /\ q.ns = "" \/ id.ns = q.ns
            /\ id.name = ref.name
        BY <3>3 DEF Matching
      <4>8. Target(id, ref)
        BY <3>2, <3>3, <4>7 DEF Target
      <4> QED
        BY <4>5, <4>6, <4>7, <4>8
    <3>7. CASE a.err = "notfound"
      <4>1. found = {}
        BY <3>5, <3>7 DEF Answer
      <4>2. f.verdict = "orphan"
        BY <3>1, <3>7 DEF verdict, Verdict
      <4>3. ASSUME NEW id \in Ids, id.type = t, Target(id, ref), history[n][id].exists
            PROVE  FALSE
        <5>1. id.name \in q.named
          BY <3>3, <4>3 DEF Target
        <5>2. q.ns = "" \/ id.ns = q.ns
          BY <3>3, <4>3 DEF Target
        <5>3. id \in found
          BY <3>3, <4>3, <5>1, <5>2 DEF Matching
        <5> QED
          BY <4>1, <5>3
      <4> QED
        BY <3>2, <4>2, <4>3
    <3>8. CASE a.err \notin {"none", "notfound"}
      BY <3>1, <3>8 DEF verdict, Verdict
    <3> QED
      BY <3>6, <3>7, <3>8
  <2> QED
    BY <2>1, <2>2
<1> QED
  BY <1>1, RepoInvariant, PTL DEF PageInv

-----------------------------------------------------------------------------
\* A set of objects has an oldest one.
LEMMA OldestExists ==
    ASSUME NEW S, S # {}, \A o \in S : o.uid \in Nat
    PROVE  \E o \in S : \A x \in S : o.uid <= x.uid
<1> DEFINE R == OpToRel(<, Nat)
           T == {o.uid : o \in S}
<1>1. IsWellFoundedOn(R, Nat)
  BY NatLessThanWellFounded
<1>2. T \subseteq Nat /\ T # {}
  OBVIOUS
<1> HIDE DEF T, R
<1>3. PICK u \in T : \A v \in T : ~(<<v, u>> \in R)
  BY <1>1, <1>2, WFMin
<1>4. \A v \in T : u <= v
  <2> SUFFICES ASSUME NEW v \in T PROVE u <= v
    OBVIOUS
  <2>1. u \in Nat /\ v \in Nat
    BY <1>2
  <2>2. ~(v < u)
    <3>1. v < u => <<v, u>> \in R
      BY <2>1 DEF R, OpToRel
    <3> QED
      BY <1>3, <3>1
  <2> QED
    BY <2>1, <2>2
<1> QED
  BY <1>4 DEF T

IdsOf(objects) == {o.id : o \in objects}

\* What an answer is made of.
LEMMA ReplyShape ==
    ASSUME HistoryInv, NEW n \in Moments, NEW q, NEW a \in RepliesAt(history[n], q)
    PROVE  /\ \A o \in a.objects : /\ o.id \in Matching(history[n], q)
                                   /\ o.rv = history[n][o.id].rv /\ o.uid = history[n][o.id].uid
                                   /\ o \in Seen
           /\ a \in [objects : SUBSET Seen, err : Errors]
           /\ q.named = {} /\ a.err = "none" =>
                 IdsOf(a.objects) = Matching(history[n], q)
<1> DEFINE state == history[n]
           found == Matching(state, q)
<1>1. state \in [Ids -> State] /\ found \subseteq Ids
  <2>1. history \in Seq([Ids -> State]) /\ n \in 1..Len(history)
    BY DEF HistoryInv, Moments
  <2>2. state \in [Ids -> State]
    BY <2>1
  <2> QED
    BY <2>2 DEF Matching
<1>2. ASSUME NEW S, S \subseteq found, NEW e \in Errors, a = Answer(state, S, e)
      PROVE  /\ \A o \in a.objects : /\ o.id \in found
                                     /\ o.rv = state[o.id].rv /\ o.uid = state[o.id].uid
                                     /\ o \in Seen
             /\ a \in [objects : SUBSET Seen, err : Errors]
             /\ S = IdsOf(a.objects)
  <2> DEFINE E(id) == [id |-> id, uid |-> state[id].uid, rv |-> state[id].rv]
  <2>1. a.objects = {E(id) : id \in S} /\ a.err = e
    BY <1>2 DEF Answer
  <2>2. \A id \in S : state[id].uid \in Nat /\ state[id].rv \in Nat /\ id \in Ids
    BY <1>1, <1>2 DEF State
  <2>3. \A id \in S : E(id) \in Seen /\ E(id).id = id
    BY <2>2 DEF Seen
  <2>4. \A o \in a.objects : /\ o.id \in found
                             /\ o.rv = state[o.id].rv /\ o.uid = state[o.id].uid
                             /\ o \in Seen
    BY <2>1, <2>3, <1>2
  <2>5. a \in [objects : SUBSET Seen, err : Errors]
    <3>1. a = [objects |-> a.objects, err |-> e]
      BY <1>2 DEF Answer
    <3> QED
      BY <3>1, <2>4
  <2>6. S = IdsOf(a.objects)
    <3>1. \A id \in S : \E o \in a.objects : o.id = id
      BY <2>1, <2>3
    <3>2. \A o \in a.objects : o.id \in S
      BY <2>1, <2>3
    <3> QED
      BY <3>1, <3>2 DEF IdsOf
  <2> QED
    BY <2>4, <2>5, <2>6
<1>3. CASE q.named = {}
  <2>1. a = Answer(state, found, "none") \/ a = Answer(state, {}, "failed")
    BY <1>3 DEF RepliesAt
  <2>2. a.err = "none" => a = Answer(state, found, "none")
    BY <2>1 DEF Answer
  <2> QED
    BY <1>2, <2>1, <2>2 DEF Errors
<1>4. CASE q.named # {} /\ q.cache = "objects"
  <2>1. PICK S \in SUBSET found :
           a = Answer(state, S, IF q.named = {id.name : id \in S} THEN "none" ELSE "failed")
    BY <1>4 DEF RepliesAt
  <2> QED
    BY <1>2, <1>4, <2>1 DEF Errors
<1>5. CASE q.named # {} /\ q.cache # "objects"
  <2>1. \/ a = Answer(state, {}, "failed") \/ a = Answer(state, {}, "notfound")
        \/ a = Answer(state, found, "none")
    BY <1>5 DEF RepliesAt
  <2> QED
    BY <1>2, <1>5, <2>1 DEF Errors
<1> QED
  BY <1>3, <1>4, <1>5

LEMMA ResultShape ==
    ASSUME NEW caller, NEW a, \A o \in a.objects : o.uid \in Nat
    PROVE  /\ Result(caller, a) \subseteq a.objects
           /\ caller = "KubeList" /\ Result(caller, a) # {} =>
                 a.err = "none" /\ Result(caller, a) = a.objects
<1>1. CASE caller = "KubeGetFirst" /\ a.err = "none" /\ a.objects # {}
  <2>1. PICK x : x = CHOOSE o \in a.objects : \A y \in a.objects : o.uid <= y.uid
    OBVIOUS
  <2>2. x \in a.objects
    BY <1>1, <2>1, OldestExists
  <2> QED
    BY <1>1, <2>1, <2>2 DEF Result, FirstObject
<1>2. CASE caller = "KubeGetFirst" /\ (a.err # "none" \/ a.objects = {})
  BY <1>2 DEF Result, FirstObject
<1>3. CASE caller # "KubeGetFirst"
  BY <1>3 DEF Result, AllOrNothing
<1> QED
  BY <1>1, <1>2, <1>3

\* A result is what the cluster held at one moment, and a list shown is whole.
THEOREM AnswersAreWhole == Spec => []WholeAnswers
<1>1. ASSUME HistoryInv, ToldInv PROVE WholeAnswers
  <2> SUFFICES ASSUME NEW f \in told
               PROVE  \E n \in Moments :
        /\ \A o \in f.objects :
              /\ o.id \in Matching(history[n], f.question)
              /\ o.rv = history[n][o.id].rv /\ o.uid = history[n][o.id].uid
        /\ f.caller = "KubeList" /\ f.question.named = {} /\ f.objects # {} =>
              {o.id : o \in f.objects} = Matching(history[n], f.question)
    BY DEF WholeAnswers
  <2>0. PICK n \in Moments : \E a \in RepliesAt(history[n], f.question) :
                                f = Report(f.caller, f.question, a)
    BY <1>1 DEF ToldInv
  <2>1. PICK a \in RepliesAt(history[n], f.question) : f = Report(f.caller, f.question, a)
    BY <2>0
  <2>2. f.objects = Result(f.caller, a)
    BY <2>1 DEF Report
  <2>3. /\ \A o \in a.objects : /\ o.id \in Matching(history[n], f.question)
                                /\ o.rv = history[n][o.id].rv /\ o.uid = history[n][o.id].uid
                                /\ o \in Seen
        /\ f.question.named = {} /\ a.err = "none" =>
              IdsOf(a.objects) = Matching(history[n], f.question)
    BY <1>1, <2>1, ReplyShape
  <2>4. \A o \in a.objects : o.uid \in Nat
    BY <2>3 DEF Seen
  <2>5. /\ f.objects \subseteq a.objects
        /\ f.caller = "KubeList" /\ f.objects # {} => a.err = "none" /\ f.objects = a.objects
    BY <2>2, <2>4, ResultShape
  <2> QED
    BY <2>3, <2>5 DEF IdsOf
<1> QED
  BY <1>1, RepoInvariant, PTL DEF RepoInv, PageInv

-----------------------------------------------------------------------------
(***************************************************************************)
(* Types.                                                                  *)
(***************************************************************************)
TaskOK ==
    /\ \/ task.step \in {"resolve", "match"} /\ task.left \in Seq(Names)
       \/ task.step = "metrics" /\ \E id \in start.pods : task.left = <<id>>
       \/ task.step = "owners" /\ task.left \in Seq(References)
       \/ task = Idle
    /\ task.step \in {"match", "owners"} => task.left # <<>>

LEMMA RestShape ==
    ASSUME NEW S, NEW left \in Seq(S), left # <<>>, NEW step
    PROVE  /\ Head(left) \in S
           /\ \/ Rest(step, left) = Idle
              \/ /\ Rest(step, left) = Task(step, Tail(left))
                 /\ Tail(left) \in Seq(S) /\ Tail(left) # <<>>
<1>1. Len(left) \in Nat /\ Len(left) # 0
  OBVIOUS
<1>2. Head(left) \in S /\ Tail(left) \in Seq(S) /\ Len(Tail(left)) = Len(left) - 1
  OBVIOUS
<1> QED
  BY <1>1, <1>2 DEF Rest

LEMMA TaskNext ==
    ASSUME TaskOK, start \in Starts, names \subseteq Names, HistoryInv, [Next]_vars
    PROVE  TaskOK' /\ names' \subseteq Names
<1>0. start' = start
  BY StartConstant
<1>1. ASSUME task' = Idle PROVE TaskOK'
  BY <1>1 DEF TaskOK, Idle, Task
<1>2. ASSUME NEW left \in Seq(Names), left # <<>>,
             task' = Task("resolve", left) \/ task' = Task("match", left)
      PROVE  TaskOK'
  BY <1>2 DEF TaskOK, Task
<1>3. ASSUME task' = task PROVE TaskOK'
  BY <1>0, <1>3 DEF TaskOK
<1>4. CASE UNCHANGED vars
  BY <1>3, <1>4 DEF vars
<1>5. CASE Change
  BY <1>3, <1>5 DEF Change
<1>6. CASE LeaveArgs
  <2>1. Given \subseteq Names
    BY StartTypes DEF Given
  <2> QED
    BY <1>1, <1>6, <2>1 DEF LeaveArgs
<1>7. ASSUME NEW S, S \subseteq Names, Resolved(S), task.left \in Seq(Names), task.left # <<>>
      PROVE  TaskOK' /\ names' \subseteq Names
  <2>1. task' = Rest("resolve", task.left) /\ names' = names \cup S
    BY <1>7 DEF Resolved
  <2>2. task' = Idle \/ (/\ task' = Task("resolve", Tail(task.left))
                         /\ Tail(task.left) \in Seq(Names) /\ Tail(task.left) # <<>>)
    BY <1>7, <2>1, RestShape
  <2> QED
    BY <1>1, <1>2, <1>7, <2>1, <2>2
<1>8. CASE GetName
  <2>1. task.left \in Seq(Names) /\ task.left # <<>>
    BY <1>8 DEF GetName, TaskOK, Idle, Task
  <2>2. {Head(task.left)} \subseteq Names
    BY <2>1, RestShape
  <2>3. \/ task' = Task("match", task.left) /\ UNCHANGED names
        \/ Resolved({Head(task.left)})
    BY <1>8 DEF GetName
  <2> QED
    BY <1>2, <1>7, <2>1, <2>2, <2>3
<1>9. CASE MatchName
  <2>1. task.left \in Seq(Names) /\ task.left # <<>>
    BY <1>9 DEF MatchName, TaskOK, Idle, Task
  <2>2. PICK a \in Replies(CLIQuery({})) : Resolved(matches(a, Head(task.left)))
    BY <1>9 DEF MatchName
  <2>3. \A o \in a.objects : o.id.name \in Names
    <3>1. Len(history) \in Moments /\ cluster = history[Len(history)]
      BY HistoryGrows DEF HistoryInv
    <3>2. \A o \in a.objects : o \in Seen
      BY <2>2, <3>1, ReplyShape DEF Replies
    <3> QED
      BY <3>2 DEF Seen, Names
  <2>4. matches(a, Head(task.left)) \subseteq Names
    BY <2>1, <2>3, RestShape DEF matches, namesContaining
  <2> QED
    BY <1>7, <2>1, <2>2, <2>4
<1>10. CASE KubeGetPodMetrics
  <2>1. task' = task \/ \E id \in start.pods : task' = Task("metrics", <<id>>)
    BY <1>10 DEF KubeGetPodMetrics
  <2>2. ASSUME NEW id \in start.pods, task' = Task("metrics", <<id>>) PROVE TaskOK'
    BY <1>0, <2>2 DEF TaskOK, Task
  <2> QED
    BY <1>3, <1>10, <2>1, <2>2 DEF KubeGetPodMetrics
<1>11. CASE FallBack
  BY <1>1, <1>11 DEF FallBack
<1>12. CASE GetOwners
  <2>1. PICK d \in start.dependents : d # <<>> /\ task' = Task("owners", d)
    BY <1>12 DEF GetOwners
  <2>2. d \in Seq(References)
    BY StartTypes
  <2> QED
    BY <1>12, <2>1, <2>2 DEF GetOwners, TaskOK, Task
<1>13. CASE NextOwner
  <2>1. task.left \in Seq(References) /\ task.left # <<>> /\ task' = Rest("owners", task.left)
    BY <1>13 DEF NextOwner, TaskOK, Idle, Task
  <2>2. task' = Idle \/ (/\ task' = Task("owners", Tail(task.left))
                         /\ Tail(task.left) \in Seq(References) /\ Tail(task.left) # <<>>)
    BY <2>1, RestShape
  <2>3. ASSUME task' = Task("owners", Tail(task.left)),
               Tail(task.left) \in Seq(References), Tail(task.left) # <<>>
        PROVE  TaskOK'
    BY <2>3 DEF TaskOK, Task
  <2>4. names' = names
    BY <1>13 DEF NextOwner
  <2> QED
    BY <1>1, <2>2, <2>3, <2>4
<1>14. ASSUME NEW caller, Query(caller) PROVE TaskOK' /\ names' \subseteq Names
  BY <1>3, <1>14 DEF Query
<1> QED
  BY <1>3, <1>4, <1>5, <1>6, <1>8, <1>9, <1>10, <1>11, <1>12, <1>13, <1>14
     DEF Next, KubeGet, KubeGetFirst, KubeList, KubeCheck, vars, Change

\* What is asked, and about what the page speaks.
AskedOK ==
    /\ asked \subseteq Question /\ DOMAIN cache \subseteq Question /\ again \subseteq asked
    /\ \A f \in owners : f.ref \in References
    /\ \A f \in told : f.caller \in Callers /\ f.question \in Question

LEMMA QuestionTypes ==
    /\ AllNamespacesPodMetrics \in Question
    /\ \A id \in Ids : NamespacePodMetrics(id.ns) \in Question
    /\ \A ref \in References :
          ownerReferenceMapping(ref) # {} => ownerQuestion(ref) \in Question
<1>1. ASSUME NEW c \in CacheNames, NEW t \in Types, NEW ns \in Namespaces,
             NEW S, S \subseteq Names
      PROVE  Ask(c, t, ns, S) \in Question
  BY <1>1 DEF Ask, Question
<1>2. PodMetrics \in Types /\ "" \in Namespaces /\ {} \subseteq Names
  BY RepoAssumption DEF Namespaces
<1>3. AllNamespacesPodMetrics \in Question
  BY <1>1, <1>2 DEF AllNamespacesPodMetrics, CacheNames
<1>4. \A id \in Ids : NamespacePodMetrics(id.ns) \in Question
  <2> SUFFICES ASSUME NEW id \in Ids PROVE NamespacePodMetrics(id.ns) \in Question
    OBVIOUS
  <2>1. id.ns \in Namespaces
    BY DEF Namespaces
  <2> QED
    BY <1>1, <1>2, <2>1 DEF NamespacePodMetrics, Objects, CacheNames
<1>5. ASSUME NEW ref \in References, ownerReferenceMapping(ref) # {}
      PROVE  ownerQuestion(ref) \in Question
  <2> DEFINE t == CHOOSE x \in ownerReferenceMapping(ref) : TRUE
  <2>1. t \in Types
    <3>1. t \in ownerReferenceMapping(ref)
      BY <1>5
    <3>2. ownerReferenceMapping(ref) \subseteq Types
      BY DEF ownerReferenceMapping, mappingFor
    <3> QED
      BY <3>1, <3>2
  <2>2. (IF t.namespaced THEN ref.ns ELSE "") \in Namespaces /\ {ref.name} \subseteq Names
    BY <1>2, RepoAssumption
  <2> HIDE DEF t
  <2>3. Ask("owner", t, IF t.namespaced THEN ref.ns ELSE "", {ref.name}) \in Question
    BY <1>1, <2>1, <2>2 DEF CacheNames
  <2> QED
    BY <2>3 DEF ownerQuestion, resolveOwner, t
<1> QED
  BY <1>3, <1>4, <1>5

LEMMA AskedNext ==
    ASSUME AskedOK, TaskOK, start \in Starts, [Next]_vars
    PROVE  AskedOK'
<1>1. ASSUME NEW q \in Question, NEW a \in AnswersTo(q), Keep(q, a)
      PROVE  asked' \subseteq Question /\ DOMAIN cache' \subseteq Question /\ again' \subseteq asked'
  BY <1>1, KeepShape DEF AskedOK, cache_vars
<1>2. CASE UNCHANGED <<cache_vars, owners, told>>
  BY <1>2 DEF AskedOK, cache_vars
<1>3. CASE KubeGetPodMetrics
  BY <1>1, <1>3, QuestionTypes DEF KubeGetPodMetrics, AskedOK
<1>4. CASE FallBack
  <2>1. PICK id \in start.pods : task.left = <<id>>
    BY <1>4 DEF FallBack, TaskOK, Idle, Task
  <2>2. Head(task.left) = id /\ id \in Ids
    BY <2>1, StartTypes
  <2> QED
    BY <1>1, <1>4, <2>2, QuestionTypes DEF FallBack, AskedOK
<1>5. CASE NextOwner
  <2> DEFINE ref == Head(task.left)
  <2>1. ref \in References
    BY <1>5, RestShape DEF NextOwner, TaskOK, Idle, Task
  <2>2. CASE ownerReferenceMapping(ref) = {}
    <3>1. /\ owners' = owners \cup {Verdict(ref, "skipped", 0)} /\ Verdict(ref, "skipped", 0).ref = ref
          /\ UNCHANGED cache_vars /\ told' = told
      BY <1>5, <2>2 DEF NextOwner, Verdict
    <3> QED
      BY <2>1, <3>1 DEF AskedOK, cache_vars
  <2>3. CASE ownerReferenceMapping(ref) # {}
    <3>1. PICK a \in AnswersTo(ownerQuestion(ref)) :
             Keep(ownerQuestion(ref), a) /\ owners' = owners \cup {verdict(ref, a)} /\ told' = told
      BY <1>5, <2>3 DEF NextOwner
    <3>2. verdict(ref, a).ref = ref
      BY DEF verdict, Verdict
    <3>3. ownerQuestion(ref) \in Question
      BY <2>1, <2>3, QuestionTypes
    <3>4. asked' \subseteq Question /\ DOMAIN cache' \subseteq Question /\ again' \subseteq asked'
      BY <1>1, <3>1, <3>3
    <3> QED
      BY <2>1, <3>1, <3>2, <3>4 DEF AskedOK
  <2> QED
    BY <2>2, <2>3
<1>6. ASSUME NEW caller \in Callers, Query(caller) PROVE AskedOK'
  <2>1. PICK q \in start.queries : \E a \in AnswersTo(q) :
           Keep(q, a) /\ told' = told \cup {Report(caller, q, a)} /\ owners' = owners
    BY <1>6 DEF Query
  <2>2. PICK a \in AnswersTo(q) :
           Keep(q, a) /\ told' = told \cup {Report(caller, q, a)} /\ owners' = owners
    BY <2>1
  <2>3. q \in Question
    BY StartTypes
  <2>4. Report(caller, q, a).caller = caller /\ Report(caller, q, a).question = q
    BY DEF Report
  <2> QED
    BY <1>1, <2>2, <2>3, <2>4 DEF AskedOK
<1>7. CASE LeaveArgs \/ GetName \/ MatchName \/ GetOwners \/ Change \/ UNCHANGED vars
  BY <1>2, <1>7 DEF LeaveArgs, GetName, MatchName, GetOwners, Change, vars, page_vars
<1> QED
  BY <1>3, <1>4, <1>5, <1>6, <1>7 DEF Next, KubeGet, KubeGetFirst, KubeList, KubeCheck, Callers

TypeInv == AskedOK /\ TaskOK /\ names \subseteq Names

LEMMA TypeAlways == Spec => []TypeInv
<1>1. Init => TypeInv
  <2> SUFFICES ASSUME Init PROVE TypeInv
    OBVIOUS
  <2>1. start.args \in Seq(Names)
    BY StartTypes DEF Init
  <2>2. TaskOK
    BY <2>1 DEF Init, TaskOK, Task
  <2> QED
    BY <2>2 DEF Init, TypeInv, AskedOK
<1>2. TypeInv /\ RepoInv /\ start \in Starts /\ [Next]_vars => TypeInv'
  BY TaskNext, AskedNext DEF TypeInv, RepoInv
<1> QED
  BY <1>1, <1>2, RepoAlways, PTL DEF Spec

\* Types of the state, the answers kept and the page included.
THEOREM RepoTypeOK == Spec => []TypeOKRepo
<1>1. ASSUME RepoInv, PageInv, TypeInv, start \in Starts, OwnersOnEvidence PROVE TypeOKRepo
  <2>1. history \in Seq([Ids -> State]) /\ Len(history) >= 1
    BY <1>1 DEF RepoInv, HistoryInv
  <2>2. \A k \in DOMAIN cache : cache[k] \in [objects : SUBSET Seen, err : Errors]
    BY <1>1, ReplyShape DEF RepoInv, CacheInv
  <2>3. ASSUME NEW f \in metrics PROVE f \in [id : Ids, rv : Nat]
    <3>1. /\ Source(f.id.ns) \in DOMAIN cache
          /\ f = metricsIn(cache[Source(f.id.ns)].objects, f.id)
          /\ f.id \in Ids
      BY <1>1, StartTypes DEF PageInv, MetricsInv
    <3> DEFINE S == cache[Source(f.id.ns)].objects
               r == IF \E o \in S : o.id = f.id THEN (CHOOSE o \in S : o.id = f.id).rv ELSE 0
    <3>2. S \subseteq Seen
      BY <2>2, <3>1
    <3>3. r \in Nat
      <4>1. CASE \E o \in S : o.id = f.id
        <5>1. (CHOOSE o \in S : o.id = f.id) \in S
          BY <4>1
        <5>2. (CHOOSE o \in S : o.id = f.id).rv \in Nat
          BY <3>2, <5>1 DEF Seen
        <5> QED
          BY <4>1, <5>2
      <4> QED
        BY <4>1
    <3>4. f = [id |-> f.id, rv |-> r]
      BY <3>1 DEF metricsIn
    <3> HIDE DEF r
    <3> QED
      BY <3>1, <3>3, <3>4
  <2>4. ASSUME NEW f \in owners
        PROVE  f \in [ref : References, verdict : {"owner", "orphan", "skipped"}, uid : Nat]
    <3>1. f.ref \in References
      BY <1>1 DEF TypeInv, AskedOK
    <3>2. \E v \in {"owner", "orphan", "skipped"} : \E u :
             f = Verdict(f.ref, v, u) /\ (v # "owner" => u = 0)
      BY <1>1 DEF PageInv, OwnersInv, verdict
    <3>0. PICK v \in {"owner", "orphan", "skipped"} : \E u :
             f = Verdict(f.ref, v, u) /\ (v # "owner" => u = 0)
      BY <3>2
    <3>3. PICK u : f = Verdict(f.ref, v, u) /\ (v # "owner" => u = 0)
      BY <3>0
    <3>4. f.verdict = v /\ f.uid = u /\ f = [ref |-> f.ref, verdict |-> v, uid |-> u]
      BY <3>3 DEF Verdict
    <3>5. u \in Nat
      <4>1. CASE v = "owner"
        <5>1. PICK n \in Moments, id \in Ids : history[n][id].uid = f.uid
          BY <1>1, <3>4, <4>1 DEF OwnersOnEvidence
        <5>2. history[n] \in [Ids -> State]
          BY <2>1 DEF Moments
        <5> QED
          BY <3>4, <5>1, <5>2 DEF State
      <4>2. CASE v # "owner"
        BY <3>3, <4>2
      <4> QED
        BY <4>1, <4>2
    <3> QED
      BY <3>1, <3>4, <3>5
  <2>5. ASSUME NEW f \in told
        PROVE  f \in [caller : Callers, question : Question, objects : SUBSET Seen, err : Errors]
    <3>1. PICK n \in Moments : \E a \in RepliesAt(history[n], f.question) :
                                  f = Report(f.caller, f.question, a)
      BY <1>1 DEF PageInv, ToldInv
    <3>2. PICK a \in RepliesAt(history[n], f.question) : f = Report(f.caller, f.question, a)
      BY <3>1
    <3>3. a.objects \subseteq Seen /\ a.err \in Errors
      <4>1. HistoryInv
        BY <1>1 DEF RepoInv
      <4>2. a \in [objects : SUBSET Seen, err : Errors]
        BY <4>1, ReplyShape
      <4> QED
        BY <4>2
    <3>4. Result(f.caller, a) \subseteq Seen
      BY <3>3, ResultShape DEF Seen
    <3>5. f.caller \in Callers /\ f.question \in Question
      BY <1>1 DEF TypeInv, AskedOK
    <3>6. (IF f.caller = "KubeCheck" THEN a.err ELSE "none") \in Errors
      BY <3>3 DEF Errors
    <3> QED
      BY <3>2, <3>4, <3>5, <3>6 DEF Report
  <2> QED
    BY <1>1, <2>1, <2>2, <2>3, <2>4, <2>5 DEF TypeOKRepo, TypeInv, TaskOK, AskedOK
<1> QED
  BY <1>1, RepoInvariant, TypeAlways, OwnersJustified, PTL

-----------------------------------------------------------------------------
(***************************************************************************)
(* Partial names.                                                          *)
(***************************************************************************)
\* A name listed is one given, or a longer one that existed after the one
\* given was found not to.
Justified(x) ==
    x \in Given \/ \E g \in Given :
        /\ <<g, x>> \in Substring
        /\ \E n, m \in Moments : n <= m /\ ~CLIExists(n, g) /\ CLIExists(m, x)

\* A name given is listed, or stands for another.
Settled(g) ==
    \/ g \in names
    \/ /\ \E x \in names : <<g, x>> \in Substring
       /\ \E n \in Moments : ~CLIExists(n, g)

Left == {task.left[i] : i \in DOMAIN task.left}

NamesInv ==
    /\ \A x \in names : Justified(x)
    /\ IF task.step \in {"resolve", "match"}
       THEN Left \subseteq Given /\ \A g \in Given \ Left : Settled(g)
       ELSE \A g \in Given : Settled(g)
    /\ task.step = "match" => \E n \in Moments : ~CLIExists(n, Head(task.left))

LEMMA LeftShape ==
    ASSUME task.left \in Seq(Names), task.left # <<>>
    PROVE  /\ Left = {Head(task.left)} \cup
                     {Tail(task.left)[i] : i \in DOMAIN Tail(task.left)}
           /\ Len(task.left) = 1 => Left = {Head(task.left)}
<1>1. /\ Len(task.left) \in Nat \ {0} /\ DOMAIN task.left = 1..Len(task.left)
      /\ DOMAIN Tail(task.left) = 1..(Len(task.left) - 1)
      /\ Head(task.left) = task.left[1]
      /\ \A i \in 1..(Len(task.left) - 1) : Tail(task.left)[i] = task.left[i + 1]
  OBVIOUS
<1>2. \A i \in 1..Len(task.left) : i = 1 \/ i - 1 \in 1..(Len(task.left) - 1)
  BY <1>1
<1>3. \A i \in 1..Len(task.left) : i = 1 \/ task.left[i] = Tail(task.left)[i - 1]
  BY <1>1, <1>2
<1>4. ASSUME NEW x \in Left
      PROVE  x = Head(task.left) \/ x \in {Tail(task.left)[i] : i \in DOMAIN Tail(task.left)}
  <2>1. PICK i \in 1..Len(task.left) : x = task.left[i]
    BY <1>1 DEF Left
  <2>2. CASE i = 1
    BY <1>1, <2>1, <2>2
  <2>3. CASE i # 1
    <3>1. i - 1 \in DOMAIN Tail(task.left) /\ x = Tail(task.left)[i - 1]
      BY <1>1, <1>2, <1>3, <2>1, <2>3
    <3> QED
      BY <3>1
  <2> QED
    BY <2>2, <2>3
<1>5. Head(task.left) \in Left
  BY <1>1 DEF Left
<1>6. \A i \in DOMAIN Tail(task.left) : Tail(task.left)[i] \in Left
  BY <1>1 DEF Left
<1>7. Len(task.left) = 1 => DOMAIN Tail(task.left) = {}
  BY <1>1
<1> QED
  BY <1>4, <1>5, <1>6, <1>7

\* The server's word on a name.
LEMMA NameFound ==
    ASSUME NEW n \in Moments, NEW name
    PROVE  /\ \A a \in RepliesAt(history[n], CLIQuery({name})) :
                 a.err = "notfound" => ~CLIExists(n, name)
           /\ \A id \in Matching(history[n], CLIQuery({})) : CLIExists(n, id.name)
<1>1. ASSUME NEW a \in RepliesAt(history[n], CLIQuery({name})), a.err = "notfound"
      PROVE  Matching(history[n], CLIQuery({name})) = {}
  <2> DEFINE q == CLIQuery({name})
             found == Matching(history[n], q)
  <2>1. q.named # {} /\ q.cache = "none"
    BY DEF CLIQuery, Ask
  <2> HIDE DEF q, found
  <2>2. a \in {Answer(history[n], {}, "failed"),
               IF found = {} THEN Answer(history[n], {}, "notfound")
               ELSE Answer(history[n], found, "none")}
    BY <1>1, <2>1 DEF RepliesAt, q, found
  <2>3. \A S, e : Answer(history[n], S, e).err = e
    BY DEF Answer
  <2>4. found = {}
    BY <1>1, <2>2, <2>3
  <2> QED
    BY <2>4 DEF found, q
<1>2. ASSUME NEW id \in Matching(history[n], CLIQuery({}))
      PROVE  id \in Matching(history[n], CLIQuery({id.name}))
  BY DEF Matching, CLIQuery, Ask
<1> QED
  BY <1>1, <1>2 DEF CLIExists

LEMMA NamesNext ==
    ASSUME NamesInv, TaskOK, HistoryInv, start \in Starts, [Next]_vars
    PROVE  NamesInv'
<1>0. /\ start' = start /\ Given' = Given
      /\ \A n \in Moments : n \in Moments' /\ history'[n] = history[n]
      /\ cluster = history[Len(history)] /\ Len(history) \in Moments
  BY StartConstant, HistoryGrows DEF HistoryInv, Given
<1>1. \A n \in Moments : \A x : CLIExists(n, x)' <=> CLIExists(n, x)
  BY <1>0 DEF CLIExists, Matching
<1>2. \A x : Justified(x) => Justified(x)'
  BY <1>0, <1>1 DEF Justified
<1>3. ASSUME names \subseteq names', NEW g, Settled(g) PROVE Settled(g)'
  BY <1>0, <1>1, <1>3 DEF Settled
<1>4. ASSUME UNCHANGED <<task, names>> PROVE NamesInv'
  <2>1. Left' = Left
    BY <1>4 DEF Left
  <2> QED
    BY <1>0, <1>1, <1>2, <1>3, <1>4, <2>1 DEF NamesInv
<1>5. ASSUME UNCHANGED names, task.step \notin {"resolve", "match"},
             task'.step \notin {"resolve", "match"}
      PROVE  NamesInv'
  BY <1>0, <1>2, <1>3, <1>5 DEF NamesInv
<1>6. CASE LeaveArgs
  <2>1. names' = Given /\ task' = Idle
    BY <1>6 DEF LeaveArgs
  <2> QED
    BY <1>0, <2>1 DEF NamesInv, Justified, Settled, Idle, Task
<1>7. ASSUME NEW S, Resolved(S), task.step \in {"resolve", "match"}, task.left # <<>>,
             \A x \in S : Justified(x), NEW h, h = Head(task.left), Settled(h)'
      PROVE  NamesInv'
  <2>1. names' = names \cup S /\ task' = Rest("resolve", task.left)
    BY <1>7 DEF Resolved
  <2>2. task.left \in Seq(Names)
    BY <1>7 DEF TaskOK, Idle, Task
  <2>3. \A x \in names' : Justified(x)'
    BY <1>2, <1>7, <2>1 DEF NamesInv
  <2>4. Left \subseteq Given /\ \A g \in Given \ Left : Settled(g)'
    BY <1>3, <1>7, <2>1 DEF NamesInv
  <2>5. CASE Len(task.left) = 1
    <3>1. task' = Idle
      BY <2>1, <2>5 DEF Rest
    <3>2. Left = {h}
      BY <1>7, <2>2, <2>5, LeftShape
    <3>3. \A g \in Given : Settled(g)'
      BY <1>7, <2>4, <3>2
    <3>4. \A g \in Given' : Settled(g)'
      BY <1>0, <3>3
    <3>5. task'.step = "idle"
      BY <3>1 DEF Idle, Task
    <3> QED
      BY <2>3, <3>4, <3>5 DEF NamesInv
  <2>6. CASE Len(task.left) # 1
    <3>1. task'.left = Tail(task.left) /\ task'.step = "resolve"
      BY <2>1, <2>6 DEF Rest, Task
    <3>2. Left' = {Tail(task.left)[i] : i \in DOMAIN Tail(task.left)}
      BY <3>1 DEF Left
    <3>3. Left = {Head(task.left)} \cup Left'
      BY <1>7, <2>2, <3>2, LeftShape
    <3>4. \A g \in Given \ Left' : Settled(g)'
      BY <1>7, <2>4, <3>3
    <3>5. Left' \subseteq Given' /\ \A g \in Given' \ Left' : Settled(g)'
      BY <1>0, <2>4, <3>3, <3>4
    <3> QED
      BY <2>3, <3>1, <3>5 DEF NamesInv
  <2> QED
    BY <2>5, <2>6
<1>8. ASSUME task.step \in {"resolve", "match"}, task.left # <<>>
      PROVE  Head(task.left) \in Given
  <2>1. task.left \in Seq(Names)
    BY <1>8 DEF TaskOK, Idle, Task
  <2> QED
    BY <1>8, <2>1, LeftShape DEF NamesInv
<1>9. CASE GetName
  <2>0. PICK g : g = Head(task.left)
    OBVIOUS
  <2>1. PICK a \in Replies(CLIQuery({g})) :
           IF a.err = "notfound" THEN task' = Task("match", task.left) /\ UNCHANGED names
           ELSE Resolved({g})
    BY <1>9, <2>0 DEF GetName
  <2>2. task.step = "resolve" /\ task.left # <<>>
    BY <1>9 DEF GetName
  <2>3. CASE a.err = "notfound"
    <3>1. ~CLIExists(Len(history), g)
      BY <1>0, <2>1, <2>3, NameFound DEF Replies
    <3>2. task'.step = "match" /\ task'.left = task.left /\ names' = names
      BY <2>1, <2>3 DEF Task
    <3>3. Left' = Left
      BY <3>2 DEF Left
    <3>5. \E n \in Moments : ~CLIExists(n, g)'
      <4>1. PICK n : n = Len(history)
        OBVIOUS
      <4>2. n \in Moments /\ ~CLIExists(n, g)'
        BY <1>0, <1>1, <3>1, <4>1
      <4> QED
        BY <4>2
    <3>6. \E n \in Moments' : ~CLIExists(n, g)'
      BY <1>0, <3>5
    <3>7. (\E n \in Moments : ~CLIExists(n, Head(task.left)))'
      BY <2>0, <3>2, <3>6
    <3>8. \A x \in names' : Justified(x)'
      BY <1>2, <3>2 DEF NamesInv
    <3>9. Left' \subseteq Given' /\ \A y \in Given' \ Left' : Settled(y)'
      <4>1. Left \subseteq Given /\ \A y \in Given \ Left : Settled(y)
        BY <2>2 DEF NamesInv
      <4>2. \A y \in Given \ Left : Settled(y)'
        BY <1>3, <3>2, <4>1
      <4> QED
        BY <1>0, <3>3, <4>1, <4>2
    <3> QED
      BY <3>2, <3>7, <3>8, <3>9 DEF NamesInv
  <2>4. CASE a.err # "notfound"
    <3>1. Resolved({g}) /\ g \in names'
      BY <2>1, <2>4 DEF Resolved
    <3>2. Justified(g) /\ Settled(g)'
      BY <1>8, <2>0, <2>2, <3>1 DEF Justified, Settled
    <3> QED
      BY <1>7, <2>0, <2>2, <3>1, <3>2
  <2> QED
    BY <2>3, <2>4
<1>10. CASE MatchName
  <2>0. PICK g : g = Head(task.left)
    OBVIOUS
  <2>1. PICK a \in Replies(CLIQuery({})) : Resolved(matches(a, g))
    BY <1>10, <2>0 DEF MatchName
  <2>2. task.step = "match" /\ task.left # <<>>
    BY <1>10 DEF MatchName, TaskOK
  <2>3. g \in Given
    BY <1>8, <2>0, <2>2
  <2>4. PICK n \in Moments : ~CLIExists(n, g)
    BY <2>0, <2>2 DEF NamesInv
  <2>5. names' = names \cup matches(a, g)
    BY <2>1 DEF Resolved
  <2>6. CASE matches(a, g) = {g}
    <3>1. Justified(g) /\ Settled(g)'
      BY <2>3, <2>5, <2>6 DEF Justified, Settled
    <3> QED
      BY <1>7, <2>0, <2>1, <2>2, <2>6, <3>1
  <2>7. CASE matches(a, g) # {g}
    <3>1. matches(a, g) = namesContaining(a, g) /\ namesContaining(a, g) # {}
      BY <2>7 DEF matches
    <3>0. PICK last : last = Len(history)
      OBVIOUS
    <3>2. ASSUME NEW x \in namesContaining(a, g) PROVE <<g, x>> \in Substring /\ CLIExists(last, x)
      <4>1. PICK o \in a.objects : x = o.id.name /\ <<g, o.id.name>> \in Substring
        BY <3>2 DEF namesContaining
      <4>2. o.id \in Matching(history[last], CLIQuery({}))
        BY <1>0, <3>0, ReplyShape DEF Replies
      <4> QED
        BY <1>0, <3>0, <4>1, <4>2, NameFound
    <3>3. last \in Moments /\ n <= last
      BY <1>0, <3>0 DEF Moments, HistoryInv
    <3>4. \A x \in matches(a, g) : Justified(x)
      BY <2>3, <2>4, <3>1, <3>2, <3>3 DEF Justified
    <3>5. PICK x \in names' : <<g, x>> \in Substring
      BY <2>5, <3>1, <3>2
    <3>6. n \in Moments' /\ ~CLIExists(n, g)'
      BY <1>0, <1>1, <2>4
    <3>7. Settled(g)'
      BY <3>5, <3>6 DEF Settled
    <3> QED
      BY <1>7, <2>0, <2>1, <2>2, <3>4, <3>7
  <2> QED
    BY <2>6, <2>7
<1>11. CASE KubeGetPodMetrics \/ FallBack \/ GetOwners \/ NextOwner
  <2>1. names' = names
    BY <1>11 DEF KubeGetPodMetrics, FallBack, GetOwners, NextOwner
  <2>2. task.step \notin {"resolve", "match"}
    BY <1>11 DEF KubeGetPodMetrics, FallBack, GetOwners, NextOwner, Idle, Task
  <2>3. task' = task \/ task'.step \notin {"resolve", "match"}
    BY <1>11 DEF KubeGetPodMetrics, FallBack, GetOwners, NextOwner, Idle, Task, Rest
  <2> QED
    BY <1>4, <1>5, <2>1, <2>2, <2>3
<1>12. CASE UNCHANGED vars \/ Change \/ \E caller : Query(caller)
  BY <1>4, <1>12 DEF vars, Change, Query
<1> QED
  BY <1>6, <1>9, <1>10, <1>11, <1>12 DEF Next, KubeGet, KubeGetFirst, KubeList, KubeCheck

\* A name that exists all along is listed as it is given; every name given
\* stands for one that is listed, and every one listed for one given.
THEOREM NamesAreResolved == Spec => []NamesResolved
<1>1. Init => NamesInv
  BY DEF Init, NamesInv, Task, Left, Given
<1>2. NamesInv /\ TypeInv /\ RepoInv /\ start \in Starts /\ [Next]_vars => NamesInv'
  BY NamesNext DEF TypeInv, RepoInv
<1>3. NamesInv => NamesResolved
  BY DEF NamesInv, NamesResolved, Settled, Justified
<1> QED
  BY <1>1, <1>2, <1>3, RepoAlways, TypeAlways, PTL DEF Spec

-----------------------------------------------------------------------------
(***************************************************************************)
(* The Ledger.                                                             *)
(***************************************************************************)
\* A question answered, and perhaps something said on it, is a Consult.
LEMMA ConsultStep ==
    ASSUME NEW q \in Question, NEW a \in AnswersTo(q), Keep(q, a), UNCHANGED history,
           \/ UNCHANGED page_vars
           \/ \E f \in StatementsOn(q, a) :
                 (metrics \cup owners \cup told)' = metrics \cup owners \cup told \cup {f}
    PROVE  OnTheLedger!Next
<1>1. a \in OnTheLedger!AnswersTo(q)
  BY DEF OnTheLedger!AnswersTo, AnswersTo, cacheKey, Replies
<1>2. cache' = IF q \in {x \in Question : x.cache # "none"} \ DOMAIN cache
               THEN [k \in DOMAIN cache \cup {q} |-> IF k = q THEN a ELSE cache[k]] ELSE cache
  BY DEF Keep, cacheKey, store, cache_vars
<1>3. UNCHANGED cluster
  BY DEF cluster
<1>4. \/ (metrics \cup owners \cup told)' = metrics \cup owners \cup told
      \/ \E f \in StatementsOn(q, a) :
            (metrics \cup owners \cup told)' = metrics \cup owners \cup told \cup {f}
  BY DEF page_vars
<1>5. OnTheLedger!Consult(q, a)
  BY <1>2, <1>3, <1>4 DEF OnTheLedger!Consult
<1> QED
  BY <1>1, <1>5 DEF OnTheLedger!Next

LEMMA LedgerStep ==
    ASSUME RepoInv, TypeInv, MetricsInv, start \in Starts, [Next]_vars
    PROVE  [OnTheLedger!Next]_<<cluster, cache, metrics \cup owners \cup told>>
<1>1. CASE LeaveArgs \/ GetName \/ MatchName \/ GetOwners \/ Change \/ UNCHANGED vars
  <2>1. UNCHANGED <<cache, metrics, owners, told>>
    BY <1>1 DEF LeaveArgs, GetName, MatchName, GetOwners, Change, vars, cache_vars, page_vars
  <2>2. OnTheLedger!Change
    BY <2>1 DEF OnTheLedger!Change
  <2> QED
    BY <2>2 DEF OnTheLedger!Next
<1>2. CASE KubeGetPodMetrics
  <2>1. PICK id \in start.pods : \E a \in AnswersTo(AllNamespacesPodMetrics) :
          /\ Keep(AllNamespacesPodMetrics, a)
          /\ IF Known(a)
             THEN metrics' = metrics \cup {metricsIn(a.objects, id)} /\ UNCHANGED task
             ELSE task' = Task("metrics", <<id>>) /\ UNCHANGED metrics
    BY <1>2 DEF KubeGetPodMetrics
  <2>2. PICK a \in AnswersTo(AllNamespacesPodMetrics) :
          /\ Keep(AllNamespacesPodMetrics, a)
          /\ IF Known(a)
             THEN metrics' = metrics \cup {metricsIn(a.objects, id)}
             ELSE UNCHANGED metrics
    BY <2>1
  <2>3. UNCHANGED <<history, owners, told>>
    BY <1>2 DEF KubeGetPodMetrics
  <2>4. AllNamespacesPodMetrics \in Question /\ id \in Ids
    BY QuestionTypes, StartTypes, <2>1
  <2>5. Known(a) => metricsIn(a.objects, id) \in StatementsOn(AllNamespacesPodMetrics, a)
    BY <2>4 DEF Known, StatementsOn
  <2> QED
    BY <2>2, <2>3, <2>4, <2>5, ConsultStep DEF page_vars
<1>3. CASE FallBack
  <2>1. PICK id \in start.pods : task.left = <<id>>
    BY <1>3 DEF FallBack, MetricsInv
  <2>2. id \in Ids /\ Head(task.left) = id
    BY <2>1, StartTypes
  <2> DEFINE q == NamespacePodMetrics(id.ns)
  <2>3. PICK a \in AnswersTo(q) : Keep(q, a) /\ metrics' = metrics \cup {metricsIn(a.objects, id)}
    BY <1>3, <2>2 DEF FallBack
  <2>4. UNCHANGED <<history, owners, told>>
    BY <1>3 DEF FallBack
  <2>5. q \in Question
    BY <2>2, QuestionTypes
  <2>6. metricsIn(a.objects, id) \in StatementsOn(q, a)
    BY <2>2 DEF StatementsOn
  <2> QED
    BY <2>3, <2>4, <2>5, <2>6, ConsultStep
<1>4. CASE NextOwner
  <2> DEFINE ref == Head(task.left)
  <2>1. ref \in References
      <3>1. task.left \in Seq(References) /\ task.left # <<>>
      BY <1>4 DEF NextOwner, TypeInv, TaskOK, Idle, Task
    <3> QED
      BY <3>1, RestShape
  <2>2. UNCHANGED <<history, metrics, told>>
    BY <1>4 DEF NextOwner
  <2>3. CASE ownerReferenceMapping(ref) = {}
    <3>1. owners' = owners \cup {Verdict(ref, "skipped", 0)} /\ UNCHANGED cache
      BY <1>4, <2>3 DEF NextOwner, cache_vars
    <3>2. Verdict(ref, "skipped", 0) \in Unfounded
      BY <2>1 DEF Unfounded
    <3>3. OnTheLedger!SayUnasked
      BY <2>2, <3>1, <3>2 DEF OnTheLedger!SayUnasked, cluster
    <3> QED
      BY <3>3 DEF OnTheLedger!Next
  <2>4. CASE ownerReferenceMapping(ref) # {}
    <3>1. PICK a \in AnswersTo(ownerQuestion(ref)) :
             Keep(ownerQuestion(ref), a) /\ owners' = owners \cup {verdict(ref, a)}
      BY <1>4, <2>4 DEF NextOwner
    <3>2. ownerQuestion(ref) \in Question
      BY <2>1, <2>4, QuestionTypes
    <3>3. verdict(ref, a) \in StatementsOn(ownerQuestion(ref), a)
      BY <2>1, <2>4 DEF StatementsOn
    <3> QED
      BY <2>2, <3>1, <3>2, <3>3, ConsultStep
  <2> QED
    BY <2>3, <2>4
<1>5. ASSUME NEW caller \in Callers, Query(caller)
      PROVE  [OnTheLedger!Next]_<<cluster, cache, metrics \cup owners \cup told>>
  <2>1. PICK q \in start.queries : \E a \in AnswersTo(q) :
           q.cache \in Through(caller) /\ Keep(q, a) /\ told' = told \cup {Report(caller, q, a)}
    BY <1>5 DEF Query
  <2>2. PICK a \in AnswersTo(q) :
           q.cache \in Through(caller) /\ Keep(q, a) /\ told' = told \cup {Report(caller, q, a)}
    BY <2>1
  <2>3. UNCHANGED <<history, metrics, owners>>
    BY <1>5 DEF Query
  <2>4. q \in Question
    BY StartTypes
  <2>5. Report(caller, q, a) \in StatementsOn(q, a)
    BY <2>2 DEF StatementsOn
  <2> QED
    BY <2>2, <2>3, <2>4, <2>5, ConsultStep
<1> QED
  BY <1>1, <1>2, <1>3, <1>4, <1>5 DEF Next, KubeGet, KubeGetFirst, KubeList, KubeCheck, Callers

\* The repository implements the Ledger: whatever a page says rests on one
\* answer of the cluster, and an answer once kept is the only one there is.
THEOREM RepoImplementsLedger == Spec => ImplementsLedger
<1>1. Init => OnTheLedger!Init
  BY DEF Init, OnTheLedger!Init
<1>2. RepoInv /\ TypeInv /\ MetricsInv /\ start \in Starts /\ [Next]_vars
         => [OnTheLedger!Next]_<<cluster, cache, metrics \cup owners \cup told>>
  BY LedgerStep
<1> QED
  BY <1>1, <1>2, RepoInvariant, TypeAlways, PTL
     DEF Spec, PageInv, ImplementsLedger, OnTheLedger!Spec

=============================================================================
