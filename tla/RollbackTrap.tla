----------------------------- MODULE RollbackTrap -----------------------------
(***************************************************************************)
(* The advice `kubectl status` gives about a StatefulSet whose rollout is  *)
(* stuck (StatefulSetRollbackTrap in template_functions_dynamic.go): while *)
(* the StatefulSet controller, the kubelets and the user go on working,    *)
(* the check reads the StatefulSet, lists the Pods and names one of them   *)
(* to delete, or none.                                                     *)
(*                                                                         *)
(* The controller is external.  What it does is what the comments and      *)
(* tests of the check say of it: an OrderedReady sync stops at the first   *)
(* Pod that is missing, terminating or not Ready; otherwise it removes     *)
(* condemned Pods and then Pods off the update revision, highest ordinal   *)
(* first, and never below the partition; a Pod below the partition is made *)
(* on the current revision, any other on the update revision.              *)
(*                                                                         *)
(* Ordinals start at 0, and every Pod carries its revision label.          *)
(***************************************************************************)
EXTENDS Integers, FiniteSets

CONSTANTS
    MaxReplicas,    \* bound on spec.replicas
    Partition,      \* spec.updateStrategy.rollingUpdate.partition
    Threshold,      \* StatefulSetRollbackTrapThreshold, in ticks
    Revisions,      \* the revisions of spec.template
    Good,           \* those whose Pods can become Ready
    FirstRevision,  \* the one rolled out in the beginning
    NoPod, NoReport, NotRead,
    MaxChanges,     \* bound on the user's changes to the StatefulSet
    MaxOutages      \* bound on Pods becoming unready or getting lost

VARIABLES
    settings,           \* what the check is allowed, strategy, Pod management
    replicas,           \* spec.replicas
    updateRevision,     \* status.updateRevision
    currentRevision,    \* status.currentRevision
    pods,               \* the Pod of each ordinal, or NoPod
    seen,               \* the StatefulSet as the check read it, or NotRead
    report,             \* what the last check reported, or NoReport
    advised,            \* history: ordinals whose Pod the user deleted on advice
    changes, outages

set_vars    == <<settings, replicas, updateRevision, currentRevision>>
check_vars  == <<seen, report>>
bound_vars  == <<changes, outages>>
vars == <<settings, replicas, updateRevision, currentRevision, pods, seen, report,
          advised, changes, outages>>

Ordinals == 0 .. MaxReplicas - 1
Settings == [live : BOOLEAN, strategy : {"RollingUpdate", "OnDelete"},
             management : {"OrderedReady", "Parallel"}]

\* unready is for how long a Pod has not been Ready; 0 for a Ready one.
Pod    == [revision : Revisions, ready : BOOLEAN, unready : 0..Threshold,
           terminating : BOOLEAN]
Reading == [replicas : 0..MaxReplicas, updateRevision : Revisions]

\* Only a Pod the controller can be waiting for is reported.
Report == [ordinal : {o \in Ordinals : o >= Partition},
           pod : {p \in Pod : ~p.ready /\ ~p.terminating /\ p.unready = Threshold},
           replicas : 0..MaxReplicas, targetRevision : Revisions]

ASSUME RollbackTrapAssumption ==
    /\ MaxReplicas \in Nat \ {0} /\ Partition \in Nat /\ Threshold \in Nat \ {0}
    /\ FirstRevision \in Good /\ Good \subseteq Revisions
    /\ NoPod \notin Pod /\ NoReport \notin Report /\ NotRead \notin Reading
    /\ MaxChanges \in Nat /\ MaxOutages \in Nat

Fresh(revision) ==
    [revision |-> revision, ready |-> FALSE, unready |-> 0, terminating |-> FALSE]

TypeOKTrap ==
    /\ settings \in Settings
    /\ replicas \in 0..MaxReplicas
    /\ updateRevision \in Revisions /\ currentRevision \in Revisions
    /\ pods \in [Ordinals -> Pod \cup {NoPod}]
    /\ seen \in Reading \cup {NotRead}
    /\ report \in Report \cup {NoReport}
    /\ advised \subseteq Ordinals
    /\ changes \in 0..MaxChanges /\ outages \in 0..MaxOutages

Init ==
    /\ settings \in Settings
    /\ replicas = MaxReplicas
    /\ updateRevision = FirstRevision /\ currentRevision = FirstRevision
    /\ pods = [o \in Ordinals |-> [Fresh(FirstRevision) EXCEPT !.ready = TRUE]]
    /\ seen = NotRead /\ report = NoReport
    /\ advised = {} /\ changes = 0 /\ outages = 0

-----------------------------------------------------------------------------
(* The StatefulSet controller (external). *)

Exists(o)    == pods[o] # NoPod
InRange(o)   == o < replicas
Running(o)   == Exists(o) /\ pods[o].ready /\ ~pods[o].terminating
Condemned    == {o \in Ordinals : Exists(o) /\ ~InRange(o)}
Outdated     == {o \in Ordinals : /\ InRange(o) /\ Exists(o) /\ o >= Partition
                                  /\ pods[o].revision # updateRevision}

Highest(o, S) == o \in S /\ \A other \in S : other <= o
Lowest(o, S)  == o \in S /\ \A other \in S : o <= other

\* An OrderedReady sync looks at the Pods from the lowest ordinal on.
PassesBelow(o) ==
    settings.management = "OrderedReady" => \A lower \in 0 .. o - 1 : Running(lower)

PassesAll ==
    settings.management = "OrderedReady" => \A o \in Ordinals : InRange(o) => Running(o)

Create(o) ==
    /\ InRange(o) /\ ~Exists(o)
    /\ PassesBelow(o)
    /\ pods' = [pods EXCEPT ![o] =
                   Fresh(IF o < Partition THEN currentRevision ELSE updateRevision)]
    /\ advised' = advised \ {o}
    /\ UNCHANGED <<set_vars, check_vars, bound_vars>>

Remove(o) ==
    /\ ~pods[o].terminating
    /\ pods' = [pods EXCEPT ![o].terminating = TRUE]
    /\ UNCHANGED <<set_vars, check_vars, bound_vars, advised>>

Condemn(o) ==
    /\ PassesAll
    /\ Highest(o, Condemned)
    /\ Remove(o)

Update(o) ==
    /\ settings.strategy = "RollingUpdate"
    /\ PassesAll
    /\ Condemned = {}
    /\ Highest(o, Outdated)
    /\ Remove(o)

Complete ==
    /\ settings.strategy = "RollingUpdate"
    /\ \A o \in Ordinals : InRange(o) => Running(o) /\ pods[o].revision = updateRevision
    /\ currentRevision' = updateRevision
    /\ UNCHANGED <<settings, replicas, updateRevision, pods, check_vars, bound_vars,
                   advised>>

Controller == (\E o \in Ordinals : Create(o) \/ Condemn(o) \/ Update(o)) \/ Complete

-----------------------------------------------------------------------------
(* The kubelets, time and the user (external). *)

PodReady(o) ==
    /\ Exists(o) /\ ~pods[o].ready /\ ~pods[o].terminating
    /\ pods[o].revision \in Good
    /\ pods' = [pods EXCEPT ![o].ready = TRUE, ![o].unready = 0]
    /\ UNCHANGED <<set_vars, check_vars, bound_vars, advised>>

PodGone(o) ==
    /\ Exists(o) /\ pods[o].terminating
    /\ pods' = [pods EXCEPT ![o] = NoPod]
    /\ UNCHANGED <<set_vars, check_vars, bound_vars, advised>>

\* A Pod stops being Ready, or is lost with its node.
Outage(o) ==
    /\ Exists(o)
    /\ outages < MaxOutages /\ outages' = outages + 1
    /\ \/ pods[o].ready /\ pods' = [pods EXCEPT ![o].ready = FALSE]
       \/ pods' = [pods EXCEPT ![o] = NoPod]
    /\ UNCHANGED <<set_vars, check_vars, changes, advised>>

Older(pod) ==
    IF pod = NoPod \/ pod.ready \/ pod.unready = Threshold
      THEN pod ELSE [pod EXCEPT !.unready = @ + 1]

Tick ==
    /\ pods' = [o \in Ordinals |-> Older(pods[o])]
    /\ UNCHANGED <<set_vars, check_vars, bound_vars, advised>>

ChangeTemplate(revision) ==
    /\ changes < MaxChanges /\ changes' = changes + 1
    /\ updateRevision' = revision
    /\ UNCHANGED <<settings, replicas, currentRevision, pods, check_vars, advised, outages>>

Scale(n) ==
    /\ changes < MaxChanges /\ changes' = changes + 1
    /\ replicas' = n
    /\ UNCHANGED <<settings, updateRevision, currentRevision, pods, check_vars, advised,
                   outages>>

\* Is the report still about the StatefulSet as it is, and the Pod as it was?
InForce ==
    /\ report # NoReport
    /\ report.replicas = replicas /\ report.targetRevision = updateRevision
    /\ pods[report.ordinal] = report.pod

\* kubectl delete pod/<name>, as the report says.
FollowAdvice ==
    /\ report # NoReport
    /\ report' = NoReport
    /\ IF Exists(report.ordinal)
         THEN pods' = [pods EXCEPT ![report.ordinal].terminating = TRUE]
         ELSE pods' = pods
    /\ advised' = IF InForce THEN advised \cup {report.ordinal} ELSE advised
    /\ UNCHANGED <<set_vars, seen, bound_vars>>

-----------------------------------------------------------------------------
(* The check. *)

\* StatefulSetRollbackTrap begins with the object as it was fetched.
\* Mutation: the Pod management policy is not looked at.
ReadAnyManagement ==
    /\ seen = NotRead /\ report = NoReport
    /\ settings.live /\ settings.strategy = "RollingUpdate"
    /\ seen' = [replicas |-> replicas, updateRevision |-> updateRevision]
    /\ UNCHANGED <<set_vars, pods, report, advised, bound_vars>>
ReadStatefulSet ==
    /\ settings.management = "OrderedReady"
    /\ ReadAnyManagement

\* The Pods in the replica range that are not Ready.
Unready(reading) ==
    {o \in Ordinals : pods[o] # NoPod /\ o < reading.replicas /\ ~pods[o].ready}

\* The Pod is old enough, and it is the update that left it behind.
OffRevision(o, reading) ==
    /\ pods[o].revision # reading.updateRevision
    /\ pods[o].unready = Threshold

\* statefulSetRollbackTrapBlocker.
\* Mutations: any Pod in the range will do; a terminating Pod will do; there is
\* no trap unless an update is going on.
IgnoringPartition(o, reading) ==
    /\ Lowest(o, Unready(reading))
    /\ ~pods[o].terminating
    /\ OffRevision(o, reading)
EvenTerminating(o, reading) ==
    /\ Lowest(o, Unready(reading)) /\ o >= Partition
    /\ OffRevision(o, reading)
OnlyWhileUpdating(o, reading) ==
    /\ IgnoringPartition(o, reading) /\ o >= Partition
    /\ currentRevision # reading.updateRevision
Trapped(o, reading) ==
    /\ Lowest(o, Unready(reading))
    /\ o >= Partition
    /\ ~pods[o].terminating
    /\ OffRevision(o, reading)

ListPods ==
    /\ seen # NotRead
    /\ seen' = NotRead
    /\ \/ \E o \in Ordinals :
            /\ Trapped(o, seen)
            /\ report' = [ordinal |-> o, pod |-> pods[o], replicas |-> seen.replicas,
                          targetRevision |-> seen.updateRevision]
       \/ /\ \A o \in Ordinals : ~Trapped(o, seen)
          /\ report' = NoReport
    /\ UNCHANGED <<set_vars, pods, advised, bound_vars>>

Kubelet == \E o \in Ordinals : PodReady(o) \/ PodGone(o)

Next ==
    \/ Controller
    \/ Kubelet
    \/ \E o \in Ordinals : Outage(o)
    \/ Tick
    \/ \E revision \in Revisions : ChangeTemplate(revision)
    \/ \E n \in 0..MaxReplicas : Scale(n)
    \/ FollowAdvice
    \/ ReadStatefulSet
    \/ ListPods

\* The controller and the kubelets do their work, time passes, and a user
\* whose rollout is stuck runs the check again and does what it says.
Fairness ==
    /\ WF_vars(Controller)
    /\ \A o \in Ordinals : WF_vars(PodReady(o)) /\ WF_vars(PodGone(o))
    /\ WF_vars(Tick)
    /\ WF_vars(ReadStatefulSet) /\ WF_vars(ListPods) /\ WF_vars(FollowAdvice)

Spec     == Init /\ [][Next]_vars
FairSpec == Spec /\ Fairness

-----------------------------------------------------------------------------
(* What the check promises. *)

\* "The controller keeps waiting on this Pod, and only deleting it by hand
\* unsticks the rollout": as long as the report is in force, nothing but the
\* Pod's own recovery, an outage or the advice changes the Pod.
OnlyTheAdviceReplacesIt ==
    [][ InForce => \/ pods'[report.ordinal] = report.pod
                   \/ PodReady(report.ordinal)
                   \/ Outage(report.ordinal)
                   \/ FollowAdvice ]_vars

\* "Delete it to recreate it on the target revision": the Pod that takes the
\* place of one deleted on advice is on the revision rolled out at that time.
RecreatedOnTarget ==
    [][ \A o \in advised : pods[o] = NoPod /\ pods'[o] # NoPod
            => pods'[o].revision = updateRevision ]_vars

RolledOut ==
    \A o \in Ordinals : InRange(o) =>
        Running(o) /\ (o >= Partition => pods[o].revision = updateRevision)

Affected ==
    settings = [live |-> TRUE, strategy |-> "RollingUpdate", management |-> "OrderedReady"]

\* A Pod below the partition that can never be Ready: with no replicas left a bad
\* revision becomes the current one, on which the Pod is made when there are
\* replicas again.  The check is silent about it, since the Pod in its place
\* would be on the current revision, too (template_functions_dynamic.go:885-886,
\* 912).
HeldBelowPartition ==
    \E o \in Ordinals : /\ o < Partition /\ InRange(o) /\ Exists(o)
                        /\ pods[o].revision \notin Good

\* A trap at the partition or above is found whenever there is one: once a good
\* template stands, and the advice is followed, the rollout is completed, unless
\* a Pod below the partition holds it up for ever.
RolloutCompletes ==
    (Affected /\ <>[](updateRevision \in Good)) => <>[]RolledOut \/ <>[]HeldBelowPartition
=============================================================================
