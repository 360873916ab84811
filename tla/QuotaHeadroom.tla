----------------------------- MODULE QuotaHeadroom -----------------------------
(***************************************************************************)
(* The warning that a rollout does not fit the namespace's ResourceQuotas  *)
(* (quotaRolloutHeadroom in quota.go), given while the rollout goes on and *)
(* others use the same quotas.                                             *)
(*                                                                         *)
(* The check reads the workload, then the quotas.  The workload controller *)
(* and the API server are external: the controller creates Pods of the new *)
(* template up to what the workload may run at once, and removes old ones; *)
(* the API server admits a Pod if every quota that applies has room.       *)
(*                                                                         *)
(* A quota is a set of entries, one for each resource it tracks.           *)
(***************************************************************************)
EXTENDS Integers, FiniteSets

CONSTANTS
    Workloads,      \* kind, strategy and surge of the workloads
    Templates,      \* Pod templates
    Requests,       \* Requests[t][r]: what a Pod of template t requests of r
    Limits,         \* Limits[t][r]: its limit for r
    Entries,        \* the entries of the namespace's quotas
    FirstUse,       \* what other workloads may use of each entry at first
    Resources,      \* cpu, memory, ...
    NotTracked,     \* what status.used says of a resource not yet reported
    NotRead, NoReport,
    Deep,           \* --deep, which warns of healthy workloads, too
    MaxReplicas,    \* bound on spec.replicas
    MaxChanges      \* bound on what users, other workloads and failures change

VARIABLES
    workload, template, desired,    \* the workload's spec
    pods,               \* how many Pods of each template there are
    existing,           \* how many in all
    ready,              \* how many of the current template are Ready
    replicas,           \* status.replicas, as the controller last wrote it
    used,               \* status.used of each entry
    actual,             \* what is in fact used of it
    seen,               \* the workload as the check read it, or NotRead
    report,             \* what the check said last, or NoReport
    since,              \* history: Pods created since, of the template reported on
    taken, freed,       \* history: did others take, or return, quota since
    changes

workload_vars == <<workload, template, desired>>
pod_vars      == <<pods, existing, ready>>
quota_vars    == <<used, actual>>
check_vars    == <<seen, report>>
history_vars  == <<since, taken, freed>>
vars == <<workload, template, desired, pods, existing, ready, replicas, used, actual,
          seen, report, since, taken, freed, changes>>

Workload == [kind : {"Deployment", "StatefulSet", "other"},
             strategy : {"RollingUpdate", "Recreate"}, percent : BOOLEAN, surge : Nat]

\* An entry of a quota names the Pod count, a request or a limit for a
\* resource, or a count of objects: of Pods again (count/pods), or of others.
\* The quota's scopes may be none, or match the workload's Pods, or not.
Entry == [scope : {"none", "matches", "misses"},
          what : {"pods", "requests", "limits", "count/pods", "objects"},
          resource : Resources, hard : Nat]

ASSUME QuotaAssumption ==
    /\ Workloads \subseteq Workload
    /\ Entries \subseteq Entry
    /\ Requests \in [Templates -> [Resources -> Nat]]
    /\ Limits \in [Templates -> [Resources -> Nat]]
    /\ Deep \in BOOLEAN
    /\ MaxReplicas \in Nat /\ MaxChanges \in Nat
    /\ NotTracked \notin Int
    /\ FirstUse \subseteq [Entries -> Nat]

-----------------------------------------------------------------------------
(* The check. *)

\* GetScaledValueFromIntOrPercent, rounding up.
Scaled(w, n) == IF w.percent THEN (w.surge * n + 99) \div 100 ELSE w.surge

\* The replicas the workload may run at once.
Surge(w, n) == IF w.kind = "Deployment" /\ w.strategy = "RollingUpdate" THEN Scaled(w, n) ELSE 0
Allowance(w, n) == IF w.kind = "other" THEN 0 ELSE n + Surge(w, n)

\* rolloutPendingPods: not more than the allowance less the Pods there are.
rolloutPendingPods(w, n, have) == Allowance(w, n) - have

\* quotaResourcePerPod, 0 for a resource a Pod does not consume.
\* Mutation: a limits. entry is compared with the requests.
RequestsPerPod(e, t) ==
    CASE e.what = "pods"    -> 1
      [] e.what \in {"count/pods", "objects"} -> 0
      [] OTHER              -> Requests[t][e.resource]
quotaResourcePerPod(e, t) ==
    IF e.what = "limits" THEN Limits[t][e.resource] ELSE RequestsPerPod(e, t)

\* What is free, never less than nothing.
Free(e) == IF used[e] > e.hard THEN 0 ELSE e.hard - used[e]

\* The entries quotaRolloutHeadroom judges: a scoped quota is skipped, and so
\* is a resource that status.used does not mention.
Judged == {e \in Entries : e.scope = "none" /\ used[e] # NotTracked}

\* Mutations: there is no room already when the quota is just used up; scoped
\* quotas are blamed, too.
ShortWhenUsedUp(extra, t) ==
    {e \in Judged : /\ quotaResourcePerPod(e, t) > 0
                    /\ extra * quotaResourcePerPod(e, t) >= Free(e)}
ShortInAnyScope(extra, t) ==
    {e \in Entries : /\ used[e] # NotTracked /\ quotaResourcePerPod(e, t) > 0
                     /\ extra * quotaResourcePerPod(e, t) > Free(e)}
Short(extra, t) ==
    {e \in Judged : /\ quotaResourcePerPod(e, t) > 0
                    /\ extra * quotaResourcePerPod(e, t) > Free(e)}

New == pods[template]
Old == existing - New

Unhealthy == New < desired \/ Old > 0 \/ ready < New

\* The template asks for the warning when a rollout looks unhealthy.
ReadWorkload ==
    /\ seen = NotRead
    /\ Unhealthy \/ Deep
    /\ seen' = [extra |-> rolloutPendingPods(workload, desired, replicas),
                template |-> template]
    /\ UNCHANGED <<workload_vars, pod_vars, replicas, quota_vars, report, history_vars, changes>>

ListQuotas ==
    /\ seen # NotRead
    /\ seen' = NotRead
    /\ report' = [extra |-> seen.extra, template |-> seen.template, judged |-> Judged,
                  short |-> IF seen.extra > 0 THEN Short(seen.extra, seen.template) ELSE {}]
    /\ since' = 0 /\ taken' = FALSE /\ freed' = FALSE
    /\ UNCHANGED <<workload_vars, pod_vars, replicas, quota_vars, changes>>

-----------------------------------------------------------------------------
(* The workload's controller and the API server (external). *)

\* What a Pod of template t is charged for.
Charge(e, t) ==
    CASE e.what \in {"pods", "count/pods"} -> 1
      [] e.what = "requests" -> Requests[t][e.resource]
      [] e.what = "limits"   -> Limits[t][e.resource]
      [] e.what = "objects"  -> 0

Applying == {e \in Entries : e.scope # "misses"}

HasRoom(e) ==
    Charge(e, template) > 0 =>
        used[e] # NotTracked /\ used[e] + Charge(e, template) <= e.hard

\* status.used grows as Pods are admitted, and is corrected later.
Charged(amounts) ==
    [e \in Entries |->
        IF e \in Applying /\ amounts[e] # NotTracked
          THEN amounts[e] + Charge(e, template) ELSE amounts[e]]

CreatePod ==
    /\ New < desired
    /\ existing < Allowance(workload, desired)
    /\ workload.strategy = "Recreate" => Old = 0
    /\ \A e \in Applying : HasRoom(e)
    /\ used' = Charged(used) /\ actual' = Charged(actual)
    /\ pods' = [pods EXCEPT ![template] = @ + 1] /\ existing' = existing + 1
    /\ IF report # NoReport /\ report.template = template
         THEN since' = since + 1 /\ taken' = taken
         ELSE since' = since /\ taken' = TRUE
    /\ UNCHANGED <<workload_vars, ready, replicas, check_vars, freed, changes>>

\* A Pod is removed: an old one as the rollout goes on.
RemovePod(t) ==
    /\ pods[t] > 0
    /\ pods' = [pods EXCEPT ![t] = @ - 1] /\ existing' = existing - 1
    /\ actual' = [e \in Entries |->
                    IF e \in Applying THEN actual[e] - Charge(e, t) ELSE actual[e]]
    /\ UNCHANGED <<workload_vars, replicas, used, check_vars, history_vars>>

RemoveOld(t) ==
    /\ t # template
    /\ RemovePod(t)
    /\ UNCHANGED <<ready, changes>>

Change == changes < MaxChanges /\ changes' = changes + 1

LosePod ==
    /\ RemovePod(template)
    /\ ready' \in {ready, ready - 1} /\ ready' \in 0 .. New - 1
    /\ Change

BecomeReady ==
    /\ ready < New /\ ready' = ready + 1
    /\ UNCHANGED <<workload_vars, pods, existing, replicas, quota_vars, check_vars,
                   history_vars, changes>>

SyncStatus ==
    /\ replicas' = existing
    /\ UNCHANGED <<workload_vars, pod_vars, quota_vars, check_vars, history_vars, changes>>

\* The quota controller counts anew.
Recalculate(e) ==
    /\ used' = [used EXCEPT ![e] = actual[e]]
    /\ freed' = TRUE
    /\ UNCHANGED <<workload_vars, pod_vars, replicas, actual, check_vars, since, taken, changes>>

\* Another workload creates a Pod, or removes one.
TakenByOthers(e) ==
    /\ used[e] # NotTracked /\ used[e] < e.hard
    /\ used' = [used EXCEPT ![e] = used[e] + 1]
    /\ actual' = [actual EXCEPT ![e] = @ + 1]
    /\ taken' = TRUE
    /\ Change
    /\ UNCHANGED <<workload_vars, pod_vars, replicas, check_vars, since, freed>>

Scale(n) ==
    /\ desired' = n
    /\ Change
    /\ UNCHANGED <<workload, template, pod_vars, replicas, quota_vars, check_vars,
                   history_vars>>

NewTemplate(t) ==
    /\ t # template /\ template' = t
    /\ ready' \in 0..pods[t]
    /\ Change
    /\ UNCHANGED <<workload, desired, pods, existing, replicas, quota_vars, check_vars,
                   history_vars>>

\* Everything is rolled out, and some resources are not reported yet.
Init ==
    /\ workload \in Workloads /\ template \in Templates /\ desired \in 1..MaxReplicas
    /\ pods = [t \in Templates |-> IF t = template THEN desired ELSE 0]
    /\ existing = desired /\ ready = desired /\ replicas = desired
    /\ \E others \in FirstUse :
          actual = [e \in Entries |->
              others[e] + IF e \in Applying THEN desired * Charge(e, template) ELSE 0]
    /\ \E unreported \in SUBSET Entries :
          used = [e \in Entries |-> IF e \in unreported THEN NotTracked ELSE actual[e]]
    /\ seen = NotRead /\ report = NoReport
    /\ since = 0 /\ taken = FALSE /\ freed = FALSE /\ changes = 0

Next ==
    \/ ReadWorkload \/ ListQuotas
    \/ CreatePod \/ LosePod \/ BecomeReady \/ SyncStatus
    \/ \E e \in Entries : Recalculate(e) \/ TakenByOthers(e)
    \/ \E n \in 0..MaxReplicas : Scale(n)
    \/ \E t \in Templates : RemoveOld(t) \/ NewTemplate(t)

Spec == Init /\ [][Next]_vars

-----------------------------------------------------------------------------
(* What the warning promises. *)

Reading == [extra : Int, template : Templates]
Report  == [extra : Int, template : Templates, judged : SUBSET Entries, short : SUBSET Entries]

TypeOKQuota ==
    /\ workload \in Workloads /\ template \in Templates /\ desired \in 0..MaxReplicas
    /\ pods \in [Templates -> Nat] /\ existing \in Nat
    /\ ready \in 0..New /\ replicas \in Nat
    /\ used \in [Entries -> Nat \cup {NotTracked}] /\ actual \in [Entries -> Nat]
    /\ seen \in Reading \cup {NotRead}
    /\ report \in Report \cup {NoReport}
    /\ report # NoReport => report.short \subseteq report.judged
    /\ since \in Nat /\ taken \in BOOLEAN /\ freed \in BOOLEAN
    /\ changes \in 0..MaxChanges

\* Silence can be relied on: what is not reported short has room for every
\* Pod the report counts, one after the other, while no one else takes it.  Not
\* of counts of objects, of which nothing is reported: count/pods is one, and the
\* API server charges every Pod to it (quota.go:144-145, 263-279).
RoomAsReported ==
    report # NoReport /\ ~taken =>
        \A e \in report.judged \ report.short :
            e.what # "count/pods" /\ since < report.extra /\ Charge(e, report.template) > 0 =>
                used[e] + (report.extra - since) * Charge(e, report.template) <= e.hard

\* A warning can be relied on: while nothing is returned to the quotas, not all
\* the Pods counted can be created.
ShortfallIsReal ==
    report # NoReport /\ report.short # {} /\ ~freed => since < report.extra
=============================================================================
