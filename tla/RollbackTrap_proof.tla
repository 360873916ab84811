--------------------------- MODULE RollbackTrap_proof ---------------------------
(***************************************************************************)
(* Theorems about RollbackTrap, for any number of Pods, any partition,     *)
(* threshold and revisions, and any number of changes and outages.         *)
(***************************************************************************)
EXTENDS RollbackTrap, TLAPS

\* A reading or a report is there only under OrderedReady management, and the
\* Pods reported, and deleted on advice, are in the range of the update.
ReportScope ==
    /\ seen # NotRead => settings.management = "OrderedReady"
    /\ report # NoReport => /\ settings.management = "OrderedReady"
                            /\ report.ordinal < report.replicas
    /\ \A o \in advised : o >= Partition

TrapInv == TypeOKTrap /\ ReportScope

-----------------------------------------------------------------------------
(***************************************************************************)
(* Types of what the actions write.                                        *)
(***************************************************************************)
LEMMA FreshType ==
    ASSUME NEW revision \in Revisions
    PROVE  Fresh(revision) \in Pod
BY RollbackTrapAssumption DEF Fresh, Pod

LEMMA OlderType ==
    ASSUME NEW pod \in Pod \cup {NoPod}
    PROVE  Older(pod) \in Pod \cup {NoPod}
<1>1. CASE pod = NoPod \/ pod.ready \/ pod.unready = Threshold
  BY <1>1 DEF Older
<1>2. CASE ~(pod = NoPod \/ pod.ready \/ pod.unready = Threshold)
  <2>1. pod \in Pod /\ pod.unready \in 0..Threshold /\ pod.unready # Threshold
    BY <1>2 DEF Pod
  <2>2. pod.unready + 1 \in 0..Threshold
    BY <2>1, RollbackTrapAssumption
  <2>3. [pod EXCEPT !.unready = @ + 1] \in Pod
    BY <2>1, <2>2 DEF Pod
  <2> QED
    BY <1>2, <2>3 DEF Older
<1> QED
  BY <1>1, <1>2

\* Each of these leaves a function of Pods.
LEMMA PodsType ==
    ASSUME TypeOKTrap, NEW o \in Ordinals, NEW p \in Pod \cup {NoPod}
    PROVE  [pods EXCEPT ![o] = p] \in [Ordinals -> Pod \cup {NoPod}]
BY DEF TypeOKTrap

LEMMA ExistingPod ==
    ASSUME TypeOKTrap, NEW o \in Ordinals, Exists(o)
    PROVE  /\ pods[o] \in Pod
           /\ [pods[o] EXCEPT !.terminating = TRUE] \in Pod
           /\ [pods[o] EXCEPT !.ready = FALSE] \in Pod
           /\ [pods[o] EXCEPT !.ready = TRUE, !.unready = 0] \in Pod
<1>1. pods[o] \in Pod
  BY DEF TypeOKTrap, Exists
<1>2. 0 \in 0..Threshold
  BY RollbackTrapAssumption
<1> QED
  BY <1>1, <1>2 DEF Pod

\* Whatever the actions write to pods is a function of Pods.
LEMMA RemoveType ==
    ASSUME TypeOKTrap, NEW o \in Ordinals, Exists(o)
    PROVE  [pods EXCEPT ![o].terminating = TRUE] \in [Ordinals -> Pod \cup {NoPod}]
BY ExistingPod DEF TypeOKTrap

-----------------------------------------------------------------------------
(***************************************************************************)
(* The invariant.                                                          *)
(***************************************************************************)
LEMMA InitTrapInv == Init => TrapInv
<1> SUFFICES ASSUME Init PROVE TrapInv
  OBVIOUS
<1> USE RollbackTrapAssumption DEF Init
<1>1. FirstRevision \in Revisions
  OBVIOUS
<1>2. [Fresh(FirstRevision) EXCEPT !.ready = TRUE] \in Pod
  <2>1. Fresh(FirstRevision) \in Pod
    BY <1>1, FreshType
  <2> QED
    BY <2>1 DEF Pod
<1>3. TypeOKTrap
  BY <1>1, <1>2 DEF TypeOKTrap
<1>4. ReportScope
  BY DEF ReportScope
<1> QED
  BY <1>3, <1>4 DEF TrapInv

\* An action that writes only pods, and maybe forgets advice, keeps it.
LEMMA OnlyPods ==
    ASSUME TrapInv, pods' \in [Ordinals -> Pod \cup {NoPod}], advised' \subseteq advised,
           UNCHANGED <<set_vars, check_vars>>,
           changes' \in 0..MaxChanges, outages' \in 0..MaxOutages
    PROVE  TrapInv'
BY DEF TrapInv, TypeOKTrap, ReportScope, set_vars, check_vars

LEMMA NextTrapInv == TrapInv /\ [Next]_vars => TrapInv'
<1> SUFFICES ASSUME TrapInv, [Next]_vars PROVE TrapInv'
  OBVIOUS
<1>0. TypeOKTrap /\ ReportScope
  BY DEF TrapInv
<1>t. changes \in 0..MaxChanges /\ outages \in 0..MaxOutages
  BY <1>0 DEF TypeOKTrap
<1>1. ASSUME NEW o \in Ordinals, Create(o) PROVE TrapInv'
  <2>1. currentRevision \in Revisions /\ updateRevision \in Revisions
    BY <1>0 DEF TypeOKTrap
  <2>2. Fresh(IF o < Partition THEN currentRevision ELSE updateRevision) \in Pod
    BY <2>1, FreshType
  <2>3. pods' \in [Ordinals -> Pod \cup {NoPod}]
    BY <1>0, <1>1, <2>2, PodsType DEF Create
  <2> QED
    BY <1>1, <1>t, <2>3, OnlyPods DEF Create, bound_vars
<1>2. ASSUME NEW o \in Ordinals, Condemn(o) PROVE TrapInv'
  <2>1. Exists(o)
    BY <1>2 DEF Condemn, Highest, Condemned
  <2>2. pods' \in [Ordinals -> Pod \cup {NoPod}]
    BY <1>0, <1>2, <2>1, RemoveType DEF Condemn, Remove
  <2> QED
    BY <1>2, <1>t, <2>2, OnlyPods DEF Condemn, Remove, bound_vars
<1>3. ASSUME NEW o \in Ordinals, Update(o) PROVE TrapInv'
  <2>1. Exists(o)
    BY <1>3 DEF Update, Highest, Outdated
  <2>2. pods' \in [Ordinals -> Pod \cup {NoPod}]
    BY <1>0, <1>3, <2>1, RemoveType DEF Update, Remove
  <2> QED
    BY <1>3, <1>t, <2>2, OnlyPods DEF Update, Remove, bound_vars
<1>4. ASSUME Complete PROVE TrapInv'
  BY <1>0, <1>4 DEF Complete, TrapInv, TypeOKTrap, ReportScope, check_vars, bound_vars
<1>5. ASSUME NEW o \in Ordinals, PodReady(o) PROVE TrapInv'
  <2>1. Exists(o)
    BY <1>5 DEF PodReady
  <2>2. pods' \in [Ordinals -> Pod \cup {NoPod}]
    BY <1>0, <1>5, <2>1, ExistingPod DEF PodReady, TypeOKTrap
  <2> QED
    BY <1>5, <1>t, <2>2, OnlyPods DEF PodReady, bound_vars
<1>6. ASSUME NEW o \in Ordinals, PodGone(o) PROVE TrapInv'
  <2>1. pods' \in [Ordinals -> Pod \cup {NoPod}]
    BY <1>0, <1>6, PodsType DEF PodGone
  <2> QED
    BY <1>6, <1>t, <2>1, OnlyPods DEF PodGone, bound_vars
<1>7. ASSUME NEW o \in Ordinals, Outage(o) PROVE TrapInv'
  <2>1. Exists(o)
    BY <1>7 DEF Outage
  <2>2. [pods EXCEPT ![o].ready = FALSE] \in [Ordinals -> Pod \cup {NoPod}]
    BY <1>0, <2>1, ExistingPod DEF TypeOKTrap
  <2>3. [pods EXCEPT ![o] = NoPod] \in [Ordinals -> Pod \cup {NoPod}]
    BY <1>0, PodsType
  <2>4. pods' \in [Ordinals -> Pod \cup {NoPod}]
    BY <1>7, <2>2, <2>3 DEF Outage
  <2>5. outages' \in 0..MaxOutages /\ changes' = changes /\ advised' = advised
    BY <1>7, <1>t, RollbackTrapAssumption DEF Outage
  <2> QED
    BY <1>7, <1>t, <2>4, <2>5, OnlyPods DEF Outage
<1>8. ASSUME Tick PROVE TrapInv'
  <2>1. \A o \in Ordinals : Older(pods[o]) \in Pod \cup {NoPod}
    BY <1>0, OlderType DEF TypeOKTrap
  <2>2. pods' \in [Ordinals -> Pod \cup {NoPod}]
    BY <1>8, <2>1 DEF Tick
  <2> QED
    BY <1>8, <1>t, <2>2, OnlyPods DEF Tick, bound_vars
<1>9. ASSUME NEW revision \in Revisions, ChangeTemplate(revision) PROVE TrapInv'
  BY <1>0, <1>9, RollbackTrapAssumption
     DEF ChangeTemplate, TrapInv, TypeOKTrap, ReportScope, check_vars
<1>10. ASSUME NEW n \in 0..MaxReplicas, Scale(n) PROVE TrapInv'
  BY <1>0, <1>10, RollbackTrapAssumption
     DEF Scale, TrapInv, TypeOKTrap, ReportScope, check_vars
<1>11. ASSUME FollowAdvice PROVE TrapInv'
  <2>1. report \in Report
    BY <1>0, <1>11 DEF FollowAdvice, TypeOKTrap
  <2>2. report.ordinal \in Ordinals /\ report.ordinal >= Partition
    BY <2>1 DEF Report
  <2>3. pods' \in [Ordinals -> Pod \cup {NoPod}]
    <3>1. CASE Exists(report.ordinal)
      BY <1>0, <1>11, <2>2, <3>1, RemoveType DEF FollowAdvice
    <3>2. CASE ~Exists(report.ordinal)
      BY <1>0, <1>11, <3>2 DEF FollowAdvice, TypeOKTrap
    <3> QED
      BY <3>1, <3>2
  <2>4. advised' \subseteq Ordinals /\ \A o \in advised' : o >= Partition
    BY <1>0, <1>11, <2>2 DEF FollowAdvice, TypeOKTrap, ReportScope
  <2>5. UNCHANGED <<set_vars, seen, bound_vars>> /\ report' = NoReport
    BY <1>11 DEF FollowAdvice
  <2>6. TypeOKTrap'
    BY <1>0, <2>3, <2>4, <2>5 DEF TypeOKTrap, set_vars, bound_vars
  <2>7. ReportScope'
    BY <1>0, <2>4, <2>5 DEF ReportScope, set_vars
  <2> QED
    BY <2>6, <2>7 DEF TrapInv
<1>12. ASSUME ReadStatefulSet PROVE TrapInv'
  <2>1. [replicas |-> replicas, updateRevision |-> updateRevision] \in Reading
    BY <1>0 DEF TypeOKTrap, Reading
  <2> QED
    BY <1>0, <1>12, <2>1 DEF ReadStatefulSet, ReadAnyManagement, TrapInv, TypeOKTrap,
                             ReportScope, set_vars, bound_vars
<1>13. ASSUME ListPods PROVE TrapInv'
  <2>1. seen \in Reading /\ seen.replicas \in 0..MaxReplicas /\ seen.updateRevision \in Revisions
    BY <1>0, <1>13 DEF ListPods, TypeOKTrap, Reading
  <2>2. settings.management = "OrderedReady"
    BY <1>0, <1>13 DEF ListPods, ReportScope
  <2>3. CASE \E o \in Ordinals : Trapped(o, seen) /\
                report' = [ordinal |-> o, pod |-> pods[o], replicas |-> seen.replicas,
                           targetRevision |-> seen.updateRevision]
    <3>1. PICK o \in Ordinals : Trapped(o, seen) /\
                report' = [ordinal |-> o, pod |-> pods[o], replicas |-> seen.replicas,
                           targetRevision |-> seen.updateRevision]
      BY <2>3
    <3>2. Exists(o) /\ o < seen.replicas /\ ~pods[o].ready /\ o >= Partition
            /\ ~pods[o].terminating /\ pods[o].unready = Threshold
      BY <3>1 DEF Trapped, Lowest, Unready, OffRevision, Exists
    <3>3. pods[o] \in Pod
      BY <1>0, <3>2, ExistingPod
    <3>4. report' \in Report
      BY <2>1, <3>1, <3>2, <3>3 DEF Report
    <3>5. report'.ordinal < report'.replicas
      BY <3>1, <3>2
    <3>6. seen' = NotRead /\ UNCHANGED <<set_vars, pods, advised, bound_vars>>
      BY <1>13 DEF ListPods
    <3>7. TypeOKTrap'
      BY <1>0, <3>4, <3>6 DEF TypeOKTrap, set_vars, bound_vars
    <3>8. ReportScope'
      BY <1>0, <2>2, <3>5, <3>6 DEF ReportScope, set_vars
    <3> QED
      BY <3>7, <3>8 DEF TrapInv
  <2>4. CASE report' = NoReport
    BY <1>0, <1>13, <2>4 DEF ListPods, TrapInv, TypeOKTrap, ReportScope, set_vars, bound_vars
  <2> QED
    BY <1>13, <2>3, <2>4 DEF ListPods
<1>14. ASSUME UNCHANGED vars PROVE TrapInv'
  BY <1>0, <1>14 DEF vars, TrapInv, TypeOKTrap, ReportScope
<1> QED
  BY <1>1, <1>2, <1>3, <1>4, <1>5, <1>6, <1>7, <1>8, <1>9, <1>10, <1>11, <1>12, <1>13, <1>14
     DEF Next, Controller, Kubelet

\* The type invariant, for every value of the constants.
THEOREM TrapTypes == Spec => []TypeOKTrap
<1>1. TrapInv => TypeOKTrap
  BY DEF TrapInv
<1> QED
  BY <1>1, InitTrapInv, NextTrapInv, PTL DEF Spec

\* The scope of the reports: only under OrderedReady management, only Pods in
\* the replica range and not below the partition.
THEOREM ReportsInScope == Spec => []ReportScope
<1>1. TrapInv => ReportScope
  BY DEF TrapInv
<1> QED
  BY <1>1, InitTrapInv, NextTrapInv, PTL DEF Spec

-----------------------------------------------------------------------------
(***************************************************************************)
(* The advice is right: without it the Pod stays, with it the Pod comes    *)
(* back on the target revision.                                            *)
(***************************************************************************)
\* What a report that is in force says of the Pod and the StatefulSet.
LEMMA ReportedPod ==
    ASSUME TrapInv, InForce
    PROVE  /\ report.ordinal \in Ordinals
           /\ Exists(report.ordinal) /\ InRange(report.ordinal)
           /\ pods[report.ordinal] = report.pod
           /\ ~report.pod.ready /\ ~report.pod.terminating
           /\ report.pod.unready = Threshold
           /\ ~PassesAll
<1>1. report \in Report
  BY DEF TrapInv, TypeOKTrap, InForce
<1>2. /\ report.ordinal \in Ordinals /\ report.pod \in Pod
      /\ ~report.pod.ready /\ ~report.pod.terminating /\ report.pod.unready = Threshold
  BY <1>1 DEF Report
<1>3. pods[report.ordinal] = report.pod
  BY DEF InForce
<1>4. Exists(report.ordinal)
  BY <1>2, <1>3, RollbackTrapAssumption DEF Exists
<1>5. InRange(report.ordinal) /\ settings.management = "OrderedReady"
  BY DEF InForce, InRange, TrapInv, ReportScope
<1>6. ~PassesAll
  BY <1>2, <1>3, <1>5 DEF PassesAll, Running
<1> QED
  BY <1>2, <1>3, <1>4, <1>5, <1>6

LEMMA StaysUntilAdvised ==
    ASSUME TrapInv, [Next]_vars, InForce,
           ~PodReady(report.ordinal), ~Outage(report.ordinal), ~FollowAdvice
    PROVE  pods'[report.ordinal] = report.pod
<1>0. /\ report.ordinal \in Ordinals
      /\ Exists(report.ordinal) /\ InRange(report.ordinal)
      /\ pods[report.ordinal] = report.pod
      /\ ~report.pod.ready /\ ~report.pod.terminating
      /\ report.pod.unready = Threshold
      /\ ~PassesAll
  BY ReportedPod
<1>t. pods \in [Ordinals -> Pod \cup {NoPod}]
  BY DEF TrapInv, TypeOKTrap
<1>1. ASSUME NEW o \in Ordinals, Create(o) PROVE pods'[report.ordinal] = report.pod
  <2>1. o # report.ordinal
    BY <1>0, <1>1 DEF Create
  <2> QED
    BY <1>0, <1>t, <1>1, <2>1 DEF Create
<1>2. ASSUME NEW o \in Ordinals, Condemn(o) \/ Update(o) PROVE FALSE
  BY <1>0, <1>2 DEF Condemn, Update
<1>3. ASSUME NEW o \in Ordinals, PodReady(o) PROVE pods'[report.ordinal] = report.pod
  <2>1. o # report.ordinal
    BY <1>3
  <2> QED
    BY <1>0, <1>t, <1>3, <2>1 DEF PodReady
<1>4. ASSUME NEW o \in Ordinals, PodGone(o) PROVE pods'[report.ordinal] = report.pod
  <2>1. o # report.ordinal
    BY <1>0, <1>4 DEF PodGone
  <2> QED
    BY <1>0, <1>t, <1>4, <2>1 DEF PodGone
<1>5. ASSUME NEW o \in Ordinals, Outage(o) PROVE pods'[report.ordinal] = report.pod
  <2>1. o # report.ordinal
    BY <1>5
  <2> QED
    BY <1>0, <1>t, <1>5, <2>1 DEF Outage
<1>6. ASSUME Tick PROVE pods'[report.ordinal] = report.pod
  <2>1. Older(pods[report.ordinal]) = pods[report.ordinal]
    BY <1>0 DEF Older
  <2> QED
    BY <1>0, <1>6, <2>1 DEF Tick
<1>7. ASSUME UNCHANGED pods PROVE pods'[report.ordinal] = report.pod
  BY <1>0, <1>7
<1> QED
  BY <1>1, <1>2, <1>3, <1>4, <1>5, <1>6, <1>7
     DEF Next, Controller, Kubelet, Complete, ChangeTemplate, Scale, ReadStatefulSet,
         ReadAnyManagement, ListPods, vars

\* "The controller keeps waiting on this Pod": a reported Pod is not touched by
\* the controller, nor by anything else but a recovery, an outage or the advice.
THEOREM ReportIsATrap == Spec => OnlyTheAdviceReplacesIt
<1>1. TrapInv /\ [Next]_vars =>
        [InForce => \/ pods'[report.ordinal] = report.pod
                    \/ PodReady(report.ordinal)
                    \/ Outage(report.ordinal)
                    \/ FollowAdvice]_vars
  BY StaysUntilAdvised
<1> QED
  BY <1>1, InitTrapInv, NextTrapInv, PTL DEF Spec, OnlyTheAdviceReplacesIt

LEMMA RecreatedStep ==
    ASSUME TrapInv, [Next]_vars, NEW o \in advised, pods[o] = NoPod, pods'[o] # NoPod
    PROVE  pods'[o].revision = updateRevision
<1>0. o \in Ordinals /\ o >= Partition /\ ~Exists(o) /\ o \in Int /\ Partition \in Int
  BY RollbackTrapAssumption DEF TrapInv, TypeOKTrap, ReportScope, Exists, Ordinals
<1>t. pods \in [Ordinals -> Pod \cup {NoPod}]
  BY DEF TrapInv, TypeOKTrap
<1>1. ASSUME NEW other \in Ordinals, Create(other) PROVE pods'[o].revision = updateRevision
  <2>1. other = o
    BY <1>0, <1>t, <1>1 DEF Create
  <2>2. pods'[o] = Fresh(updateRevision)
    BY <1>0, <1>t, <1>1, <2>1 DEF Create
  <2> QED
    BY <2>2 DEF Fresh
<1>2. ASSUME NEW other \in Ordinals, Condemn(other) PROVE FALSE
  <2>1. Exists(other)
    BY <1>2 DEF Condemn, Highest, Condemned
  <2> QED
    BY <1>0, <1>t, <1>2, <2>1 DEF Condemn, Remove, Exists
<1>3. ASSUME NEW other \in Ordinals, Update(other) PROVE FALSE
  <2>1. Exists(other)
    BY <1>3 DEF Update, Highest, Outdated
  <2> QED
    BY <1>0, <1>t, <1>3, <2>1 DEF Update, Remove, Exists
<1>4. ASSUME NEW other \in Ordinals, PodReady(other) \/ PodGone(other) \/ Outage(other)
      PROVE FALSE
  BY <1>0, <1>t, <1>4 DEF PodReady, PodGone, Outage, Exists
<1>5. ASSUME Tick PROVE FALSE
  BY <1>0, <1>5 DEF Tick, Older
<1>6. ASSUME FollowAdvice PROVE FALSE
  <2>1. CASE Exists(report.ordinal)
    <3>1. report.ordinal # o
      BY <1>0, <2>1
    <3> QED
      BY <1>0, <1>t, <1>6, <2>1, <3>1 DEF FollowAdvice
  <2>2. CASE ~Exists(report.ordinal)
    BY <1>6, <2>2 DEF FollowAdvice
  <2> QED
    BY <2>1, <2>2
<1> QED
  BY <1>1, <1>2, <1>3, <1>4, <1>5, <1>6
     DEF Next, Controller, Kubelet, Complete, ChangeTemplate, Scale, ReadStatefulSet,
         ReadAnyManagement, ListPods, vars

\* "Delete it to recreate it on the target revision": that is where a Pod
\* deleted on advice is created again.
THEOREM AdviceMovesTheRollout == Spec => RecreatedOnTarget
<1>1. TrapInv /\ [Next]_vars =>
        [\A o \in advised : pods[o] = NoPod /\ pods'[o] # NoPod
            => pods'[o].revision = updateRevision]_vars
  BY RecreatedStep
<1> QED
  BY <1>1, InitTrapInv, NextTrapInv, PTL DEF Spec, RecreatedOnTarget
=============================================================================
