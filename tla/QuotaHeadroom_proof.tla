-------------------------- MODULE QuotaHeadroom_proof --------------------------
(***************************************************************************)
(* Theorems about QuotaHeadroom, for any workloads, templates and quotas,  *)
(* and however many others use the quotas.                                 *)
(***************************************************************************)
EXTENDS QuotaHeadroom, FiniteSetTheorems, TLAPS

\* What of the types the arguments below need.  What is used of an entry is
\* never less than what the quota controller would find.
QuotaShape ==
    /\ workload \in Workloads /\ template \in Templates /\ desired \in Nat
    /\ existing \in Int /\ replicas \in Int
    /\ used \in [Entries -> Int \cup {NotTracked}] /\ actual \in [Entries -> Int]
    /\ \A e \in Entries : used[e] # NotTracked => actual[e] <= used[e]
    /\ seen \in Reading \cup {NotRead}
    /\ report \in Report \cup {NoReport}
    /\ since \in Nat /\ taken \in BOOLEAN /\ freed \in BOOLEAN

\* What the Pods still counted by the report are charged.
Outstanding(e) == (report.extra - since) * Charge(e, report.template)

\* An entry not reported short, and one that is.
Roomy(e) ==
    e.what # "count/pods" /\ since < report.extra /\ Charge(e, report.template) > 0 =>
        used[e] + Outstanding(e) <= e.hard
Tight(e) ==
    /\ since < report.extra /\ Charge(e, report.template) > 0
    /\ used[e] + Outstanding(e) > e.hard

JudgedInv ==
    report # NoReport =>
        /\ report.short \subseteq report.judged
        /\ \A e \in report.judged : e.scope = "none" /\ used[e] # NotTracked

RoomInv  == report # NoReport /\ ~taken => \A e \in report.judged \ report.short : Roomy(e)
TightInv == report # NoReport /\ ~freed => \A e \in report.short : Tight(e)

QuotaInv == QuotaShape /\ JudgedInv /\ RoomInv /\ TightInv

-----------------------------------------------------------------------------
(***************************************************************************)
(* Arithmetic and types.                                                   *)
(***************************************************************************)
LEMMA OneLess ==
    ASSUME NEW n \in Int, NEW c \in Int
    PROVE  (n - 1) * c = n * c - c
OBVIOUS

LEMMA AtLeastOne ==
    ASSUME NEW n \in Int, NEW c \in Int, n > 0, c > 0
    PROVE  n * c >= c
<1>1. (n - 1) * c >= 0
  OBVIOUS
<1> QED
  BY <1>1, OneLess

LEMMA ChargeType ==
    ASSUME NEW e \in Entries, NEW t \in Templates
    PROVE  Charge(e, t) \in Nat
<1>1. e \in Entry
  BY QuotaAssumption
<1>2. e.resource \in Resources /\ e.what \in {"pods", "requests", "limits", "count/pods", "objects"}
  BY <1>1 DEF Entry
<1>3. Requests[t][e.resource] \in Nat /\ Limits[t][e.resource] \in Nat
  BY <1>2, QuotaAssumption
<1> QED
  BY <1>2, <1>3 DEF Charge

LEMMA HardType ==
    ASSUME NEW e \in Entries
    PROVE  e.hard \in Nat
BY QuotaAssumption DEF Entry

\* The code and the API server agree on what a Pod consumes, but for count/pods,
\* of which the code makes nothing.
LEMMA PerPodIsCharge ==
    ASSUME NEW e \in Entries, NEW t \in Templates
    PROVE  IF e.what = "count/pods" THEN quotaResourcePerPod(e, t) = 0
                                    ELSE quotaResourcePerPod(e, t) = Charge(e, t)
<1>1. e \in Entry
  BY QuotaAssumption
<1>2. e.what \in {"pods", "requests", "limits", "count/pods", "objects"}
  BY <1>1 DEF Entry
<1> QED
  BY <1>2 DEF quotaResourcePerPod, RequestsPerPod, Charge

LEMMA AllowanceType ==
    ASSUME NEW w \in Workloads, NEW n \in Nat
    PROVE  Allowance(w, n) \in Int
<1>1. w.surge \in Nat
  BY QuotaAssumption DEF Workload
<1>2. w.surge * n + 99 \in Int
  BY <1>1
<1>3. (w.surge * n + 99) \div 100 \in Int
  BY <1>2
<1>4. Scaled(w, n) \in Int
  BY <1>1, <1>3 DEF Scaled
<1> QED
  BY <1>4 DEF Allowance, Surge

\* The entries a check reports short are those with too little room.
LEMMA Verdict ==
    ASSUME QuotaShape, NEW e \in Judged, NEW extra \in Int, NEW t \in Templates, extra > 0
    PROVE  /\ e \in Short(extra, t) =>
                 Charge(e, t) > 0 /\ used[e] + extra * Charge(e, t) > e.hard
           /\ e.what # "count/pods" /\ e \notin Short(extra, t) /\ Charge(e, t) > 0 =>
                 used[e] + extra * Charge(e, t) <= e.hard
<1>1. e \in Entries /\ used[e] \in Int /\ e.hard \in Nat
  BY HardType DEF Judged, QuotaShape
<1>2. PICK c \in Nat : c = Charge(e, t)
  BY <1>1, ChargeType
<1>3. PICK n \in Int : n = extra * c
  BY <1>2
<1>4. c > 0 => n > 0
  BY <1>2, <1>3, AtLeastOne
<1>5. CASE e.what = "count/pods"
  <2>1. quotaResourcePerPod(e, t) = 0
    BY <1>1, <1>5, PerPodIsCharge
  <2>2. e \notin Short(extra, t)
    BY <2>1 DEF Short
  <2> QED
    BY <1>5, <2>2
<1>6. CASE e.what # "count/pods"
  <2>1. quotaResourcePerPod(e, t) = c
    BY <1>1, <1>2, <1>6, PerPodIsCharge
  <2>2. e \in Short(extra, t) <=> c > 0 /\ n > Free(e)
    BY <1>3, <2>1 DEF Short
  <2>3. Free(e) = IF used[e] > e.hard THEN 0 ELSE e.hard - used[e]
    BY DEF Free
  <2>4. e \in Short(extra, t) => c > 0 /\ used[e] + n > e.hard
    BY <1>1, <1>3, <1>4, <2>2, <2>3
  <2>5. e \notin Short(extra, t) /\ c > 0 => used[e] + n <= e.hard
    BY <1>1, <1>3, <1>4, <2>2, <2>3
  <2> QED
    BY <1>2, <1>3, <2>4, <2>5
<1> QED
  BY <1>5, <1>6

-----------------------------------------------------------------------------
(***************************************************************************)
(* The invariant.                                                          *)
(***************************************************************************)
LEMMA InitQuotaInv == Init => QuotaInv
<1> SUFFICES ASSUME Init PROVE QuotaInv
  OBVIOUS
<1>1. /\ workload \in Workloads /\ template \in Templates /\ desired \in Nat
      /\ existing \in Int /\ replicas \in Int
      /\ seen = NotRead /\ report = NoReport
      /\ since \in Nat /\ taken \in BOOLEAN /\ freed \in BOOLEAN
  <2>1. /\ workload \in Workloads /\ template \in Templates
        /\ seen = NotRead /\ report = NoReport
        /\ since = 0 /\ taken = FALSE /\ freed = FALSE
    BY DEF Init
  <2>2. desired \in 1..MaxReplicas /\ existing = desired /\ replicas = desired
    BY DEF Init
  <2>3. desired \in Nat
    BY <2>2, QuotaAssumption
  <2>4. taken \in BOOLEAN /\ freed \in BOOLEAN
    BY <2>1
  <2> QED
    BY <2>1, <2>2, <2>3, <2>4
<1>2. PICK others \in FirstUse :
        actual = [e \in Entries |->
            others[e] + IF e \in Applying THEN desired * Charge(e, template) ELSE 0]
  BY DEF Init
<1>3. ASSUME NEW e \in Entries PROVE actual[e] \in Int
  <2>1. others[e] \in Nat
    BY QuotaAssumption
  <2>2. Charge(e, template) \in Nat
    BY <1>1, ChargeType
  <2>3. desired * Charge(e, template) \in Int
    BY <1>1, <2>2
  <2>4. actual[e] = others[e] + IF e \in Applying THEN desired * Charge(e, template) ELSE 0
    BY <1>2
  <2> QED
    BY <2>1, <2>3, <2>4
<1>4. actual \in [Entries -> Int]
  BY <1>2, <1>3
<1>5. PICK unreported \in SUBSET Entries :
        used = [e \in Entries |-> IF e \in unreported THEN NotTracked ELSE actual[e]]
  BY DEF Init
<1>6. used \in [Entries -> Int \cup {NotTracked}]
  BY <1>3, <1>5
<1>7. ASSUME NEW e \in Entries, used[e] # NotTracked PROVE actual[e] <= used[e]
  BY <1>3, <1>5, <1>7
<1>8. QuotaShape
  BY <1>1, <1>4, <1>6, <1>7 DEF QuotaShape
<1> QED
  BY <1>1, <1>8 DEF QuotaInv, JudgedInv, RoomInv, TightInv

\* What a report says depends on nothing else than these.
LEMMA ReportFrame ==
    ASSUME JudgedInv, RoomInv, TightInv,
           UNCHANGED <<used, report, since, taken, freed>>
    PROVE  JudgedInv' /\ RoomInv' /\ TightInv'
BY DEF JudgedInv, RoomInv, TightInv, Roomy, Tight, Outstanding

\* What the report of a check is about.
LEMMA ReportShape ==
    ASSUME QuotaShape, JudgedInv, report # NoReport, NEW e \in report.judged
    PROVE  /\ e \in Entries /\ e.hard \in Nat
           /\ report.extra \in Int /\ report.template \in Templates
           /\ used[e] \in Int /\ actual[e] \in Int /\ actual[e] <= used[e]
           /\ Charge(e, report.template) \in Nat
           /\ e \in Applying
<1>1. report \in Report
  BY DEF QuotaShape
<1>2. e \in Entries /\ report.extra \in Int /\ report.template \in Templates
  BY <1>1 DEF Report
<1>3. used[e] # NotTracked /\ e.scope = "none"
  BY DEF JudgedInv
<1>4. used[e] \in Int /\ actual[e] \in Int /\ actual[e] <= used[e]
  BY <1>2, <1>3 DEF QuotaShape
<1> QED
  BY <1>2, <1>3, <1>4, HardType, ChargeType DEF Applying

-----------------------------------------------------------------------------
(***************************************************************************)
(* The check.                                                              *)
(***************************************************************************)
LEMMA ReadStep == QuotaInv /\ ReadWorkload => QuotaInv'
<1> SUFFICES ASSUME QuotaInv, ReadWorkload PROVE QuotaInv'
  OBVIOUS
<1>1. QuotaShape
  BY DEF QuotaInv
<1>2. rolloutPendingPods(workload, desired, replicas) \in Int
  BY <1>1, AllowanceType DEF rolloutPendingPods, QuotaShape
<1>3. seen' \in Reading
  BY <1>1, <1>2 DEF ReadWorkload, Reading, QuotaShape
<1>4. QuotaShape'
  BY <1>1, <1>3 DEF ReadWorkload, QuotaShape, workload_vars, pod_vars, quota_vars, history_vars
<1> QED
  BY <1>4, ReportFrame DEF ReadWorkload, QuotaInv, quota_vars, history_vars

LEMMA ListStep == QuotaInv /\ ListQuotas => QuotaInv'
<1> SUFFICES ASSUME QuotaInv, ListQuotas PROVE QuotaInv'
  OBVIOUS
<1>1. QuotaShape
  BY DEF QuotaInv
<1>2. PICK extra \in Int, t \in Templates : seen.extra = extra /\ seen.template = t
  BY <1>1 DEF ListQuotas, QuotaShape, Reading
<1>3. PICK short : short = IF extra > 0 THEN Short(extra, t) ELSE {}
  OBVIOUS
<1>4. report' = [extra |-> extra, template |-> t, judged |-> Judged, short |-> short]
  BY <1>2, <1>3 DEF ListQuotas
<1>5. /\ since' = 0 /\ taken' = FALSE /\ freed' = FALSE /\ seen' = NotRead
      /\ UNCHANGED <<workload, template, desired, existing, replicas, used, actual>>
  BY DEF ListQuotas, workload_vars, pod_vars, quota_vars
<1>6. short \subseteq Judged /\ Judged \subseteq Entries
  BY <1>3 DEF Short, Judged
<1>7. report' \in Report
  BY <1>4, <1>6 DEF Report
<1>8. QuotaShape'
  BY <1>1, <1>5, <1>7 DEF QuotaShape
<1>9. JudgedInv'
  BY <1>4, <1>5, <1>6 DEF JudgedInv, Judged
<1>10. ASSUME NEW e \in Entries PROVE Outstanding(e)' = extra * Charge(e, t)
  <2>1. report'.extra - since' = extra /\ report'.template = t
    BY <1>4, <1>5
  <2>2. Charge(e, report.template)' = Charge(e, t)
    BY <2>1 DEF Charge
  <2> QED
    BY <2>1, <2>2 DEF Outstanding
<1>11. ASSUME NEW e \in Judged, e \notin short PROVE Roomy(e)'
  <2>1. CASE extra > 0
    <3>1. e \notin Short(extra, t)
      BY <1>3, <1>11, <2>1
    <3>2. e.what # "count/pods" /\ Charge(e, t) > 0 => used[e] + extra * Charge(e, t) <= e.hard
      BY <1>1, <2>1, <3>1, Verdict
    <3> QED
      BY <1>4, <1>5, <1>6, <1>10, <3>2 DEF Roomy, Charge
  <2>2. CASE ~(extra > 0)
    BY <1>4, <1>5, <2>2 DEF Roomy
  <2> QED
    BY <2>1, <2>2
<1>12. ASSUME NEW e \in short PROVE Tight(e)'
  <2>1. extra > 0 /\ e \in Short(extra, t) /\ e \in Judged
    BY <1>3, <1>6
  <2>2. Charge(e, t) > 0 /\ used[e] + extra * Charge(e, t) > e.hard
    BY <1>1, <2>1, Verdict
  <2> QED
    BY <1>4, <1>5, <1>6, <1>10, <2>1, <2>2 DEF Tight, Charge
<1>13. RoomInv'
  BY <1>4, <1>11 DEF RoomInv
<1>14. TightInv'
  BY <1>4, <1>12 DEF TightInv
<1> QED
  BY <1>8, <1>9, <1>13, <1>14 DEF QuotaInv

-----------------------------------------------------------------------------
(***************************************************************************)
(* The rollout and the quotas.                                             *)
(***************************************************************************)
\* What an admitted Pod is charged.
LEMMA ChargedStep ==
    ASSUME QuotaShape, CreatePod, NEW e \in Entries
    PROVE  /\ used[e] = NotTracked <=> used'[e] = NotTracked
           /\ used[e] # NotTracked =>
                 /\ used'[e] = used[e] + IF e \in Applying THEN Charge(e, template) ELSE 0
                 /\ actual'[e] <= used'[e]
           /\ used'[e] \in Int \cup {NotTracked} /\ actual'[e] \in Int
<1>1. PICK c \in Nat : c = Charge(e, template)
  BY ChargeType DEF QuotaShape
<1>2. actual[e] \in Int /\ actual[e] # NotTracked /\ used[e] \in Int \cup {NotTracked}
        /\ (used[e] # NotTracked => actual[e] <= used[e])
  BY QuotaAssumption DEF QuotaShape
<1>3. used'[e] = IF e \in Applying /\ used[e] # NotTracked THEN used[e] + c ELSE used[e]
  BY <1>1 DEF CreatePod, Charged
<1>4. actual'[e] = IF e \in Applying THEN actual[e] + c ELSE actual[e]
  BY <1>1, <1>2 DEF CreatePod, Charged
<1>5. NotTracked \notin Int
  BY QuotaAssumption
<1> QED
  BY <1>1, <1>2, <1>3, <1>4, <1>5

LEMMA CreateStep == QuotaInv /\ CreatePod => QuotaInv'
<1> SUFFICES ASSUME QuotaInv, CreatePod PROVE QuotaInv'
  OBVIOUS
<1>1. QuotaShape /\ JudgedInv /\ RoomInv /\ TightInv
  BY DEF QuotaInv
<1>2. /\ UNCHANGED <<workload, template, desired, replicas, seen, report, freed>>
      /\ existing' = existing + 1
      /\ DOMAIN used' = Entries /\ DOMAIN actual' = Entries
      /\ used' = [e \in Entries |-> used'[e]] /\ actual' = [e \in Entries |-> actual'[e]]
  BY DEF CreatePod, workload_vars, check_vars, Charged
<1>3. \/ report # NoReport /\ report.template = template /\ since' = since + 1 /\ taken' = taken
      \/ since' = since /\ taken' = TRUE
  BY DEF CreatePod
<1>4. used' \in [Entries -> Int \cup {NotTracked}] /\ actual' \in [Entries -> Int]
  BY <1>1, <1>2, ChargedStep
<1>5. \A e \in Entries : used'[e] # NotTracked => actual'[e] <= used'[e]
  BY <1>1, ChargedStep
<1>6. since' \in Nat /\ taken' \in BOOLEAN
  <2>1. since \in Nat /\ taken \in BOOLEAN
    BY <1>1 DEF QuotaShape
  <2>2. since' = since + 1 \/ since' = since
    BY <1>3
  <2>3. taken' \in BOOLEAN
    BY <1>3, <2>1
  <2> QED
    BY <2>1, <2>2, <2>3
<1>7. QuotaShape'
  BY <1>1, <1>2, <1>4, <1>5, <1>6 DEF QuotaShape
<1>8. JudgedInv'
  BY <1>1, <1>2, ChargedStep, ReportShape DEF JudgedInv
<1>9. ASSUME report # NoReport, NEW e \in report.judged
      PROVE  /\ ~taken' /\ Roomy(e) => Roomy(e)'
             /\ Tight(e) => Tight(e)'
  <2>1. /\ e \in Entries /\ e.hard \in Nat /\ e \in Applying /\ used[e] \in Int
        /\ report.extra \in Int /\ report.template \in Templates
        /\ used[e] # NotTracked
    BY <1>1, <1>9, ReportShape DEF JudgedInv
  <2>2. PICK c \in Nat : c = Charge(e, template)
    BY <1>1, <2>1, ChargeType DEF QuotaShape
  <2>3. PICK d \in Nat : d = Charge(e, report.template)
    BY <2>1, ChargeType
  <2>4. used'[e] = used[e] + c
    BY <1>1, <2>1, <2>2, ChargedStep
  <2>5. c > 0 => used[e] + c <= e.hard
    BY <2>1, <2>2 DEF CreatePod, HasRoom
  <2>6. PICK n \in Int : n = report.extra - since
    BY <1>1, <2>1 DEF QuotaShape
  <2>7. since \in Nat /\ since' \in Nat
    BY <1>1, <1>6 DEF QuotaShape
  <2>8. Charge(e, report.template)' = d
    BY <1>2, <2>3 DEF Charge
  <2>9. Outstanding(e) = n * d
    BY <2>3, <2>6 DEF Outstanding
  <2>10. CASE since' = since /\ taken' = TRUE
    <3>1. Outstanding(e)' = n * d
      BY <1>2, <2>6, <2>8, <2>10 DEF Outstanding
    <3>2. n * d \in Int
      OBVIOUS
    <3>3. Tight(e) => Tight(e)'
      BY <1>2, <2>1, <2>3, <2>4, <2>8, <2>9, <2>10, <3>1, <3>2 DEF Tight
    <3> QED
      BY <2>10, <3>3
  <2>11. CASE report.template = template /\ since' = since + 1 /\ taken' = taken
    <3>1. c = d
      BY <2>2, <2>3, <2>11
    <3>2. report'.extra - since' = n - 1
      BY <1>2, <2>1, <2>6, <2>7, <2>11
    <3>3. Outstanding(e)' = (n - 1) * d
      BY <2>8, <3>2 DEF Outstanding
    <3>4. PICK m \in Int : m = n * d
      OBVIOUS
    <3>5. Outstanding(e)' = m - d
      BY <3>3, <3>4, OneLess
    <3>6. used'[e] + Outstanding(e)' = used[e] + Outstanding(e)
      BY <2>1, <2>4, <2>9, <3>1, <3>4, <3>5
    <3>7. Roomy(e) => Roomy(e)'
      BY <1>2, <2>1, <2>3, <2>7, <2>8, <2>11, <3>6 DEF Roomy
    <3>8. ASSUME Tight(e) PROVE Tight(e)'
      <4>1. used[e] + n * d > e.hard /\ n > 0 /\ d > 0
        BY <2>1, <2>3, <2>6, <2>7, <2>9, <3>8 DEF Tight
      <4>2. n # 1
        <5>1. SUFFICES ASSUME n = 1 PROVE FALSE
          OBVIOUS
        <5>2. used[e] + d > e.hard
          BY <2>3, <4>1, <5>1
        <5>3. d > 0 => used[e] + d <= e.hard
          BY <2>5, <3>1
        <5> QED
          BY <2>1, <2>3, <4>1, <5>2, <5>3
      <4>3. since' < report.extra
        BY <2>1, <2>6, <2>7, <2>11, <4>1, <4>2
      <4> QED
        BY <1>2, <2>1, <2>8, <2>9, <3>6, <4>1, <4>3 DEF Tight
    <3> QED
      BY <3>7, <3>8
  <2> QED
    BY <1>3, <2>10, <2>11
<1>10. report' = report /\ freed' = freed /\ (~taken' => ~taken)
  BY <1>2, <1>3
<1>11. RoomInv'
  BY <1>1, <1>9, <1>10 DEF RoomInv
<1>12. TightInv'
  BY <1>1, <1>9, <1>10 DEF TightInv, JudgedInv
<1> QED
  BY <1>7, <1>8, <1>11, <1>12 DEF QuotaInv

LEMMA RemoveStep ==
    ASSUME QuotaInv, NEW t \in Templates, RemovePod(t)
    PROVE  QuotaInv'
<1>1. QuotaShape
  BY DEF QuotaInv
<1>2. UNCHANGED <<workload, template, desired, replicas, used, seen, report, since, taken, freed>>
        /\ existing' = existing - 1
  BY DEF RemovePod, workload_vars, check_vars, history_vars
<1>3. ASSUME NEW e \in Entries
      PROVE  actual'[e] \in Int /\ actual'[e] <= actual[e]
  <2>1. PICK c \in Nat : c = Charge(e, t)
    BY ChargeType
  <2>2. actual[e] \in Int
    BY <1>1 DEF QuotaShape
  <2>3. actual'[e] = IF e \in Applying THEN actual[e] - c ELSE actual[e]
    BY <2>1 DEF RemovePod
  <2> QED
    BY <2>1, <2>2, <2>3
<1>4. actual' = [e \in Entries |-> actual'[e]]
  BY DEF RemovePod
<1>5. actual' \in [Entries -> Int]
  BY <1>3, <1>4
<1>6. ASSUME NEW e \in Entries, used'[e] # NotTracked PROVE actual'[e] <= used'[e]
  <2>1. actual[e] \in Int /\ used[e] \in Int /\ actual[e] <= used[e]
    BY <1>1, <1>2, <1>6 DEF QuotaShape
  <2> QED
    BY <1>2, <1>3, <2>1
<1>7. QuotaShape'
  BY <1>1, <1>2, <1>5, <1>6 DEF QuotaShape
<1> QED
  BY <1>2, <1>7, ReportFrame DEF QuotaInv

LEMMA RecalculateStep ==
    ASSUME QuotaInv, NEW e \in Entries, Recalculate(e)
    PROVE  QuotaInv'
<1>1. QuotaShape /\ JudgedInv /\ RoomInv
  BY DEF QuotaInv
<1>2. /\ UNCHANGED <<workload, template, desired, existing, replicas, actual, seen, report,
                     since, taken>>
      /\ freed' = TRUE /\ used' = [used EXCEPT ![e] = actual[e]]
  BY DEF Recalculate, workload_vars, pod_vars, check_vars
<1>3. actual[e] \in Int /\ NotTracked \notin Int
  BY <1>1, QuotaAssumption DEF QuotaShape
<1>4. used' \in [Entries -> Int \cup {NotTracked}]
  BY <1>1, <1>2, <1>3 DEF QuotaShape
<1>5. ASSUME NEW d \in Entries, used'[d] # NotTracked PROVE actual'[d] <= used'[d]
  BY <1>1, <1>2, <1>3, <1>5 DEF QuotaShape
<1>6. QuotaShape'
  <2>1. freed' \in BOOLEAN
    BY <1>2
  <2> QED
    BY <1>1, <1>2, <1>4, <1>5, <2>1 DEF QuotaShape
<1>7. JudgedInv'
  <2>1. ASSUME report # NoReport, NEW d \in report.judged PROVE used'[d] # NotTracked
    <3>1. d \in Entries /\ used[d] # NotTracked
      BY <1>1, <2>1, ReportShape DEF JudgedInv
    <3> QED
      BY <1>1, <1>2, <1>3, <3>1 DEF QuotaShape
  <2> QED
    BY <1>1, <1>2, <2>1 DEF JudgedInv
<1>8. ASSUME report # NoReport, NEW d \in report.judged, Roomy(d) PROVE Roomy(d)'
  <2>1. /\ d \in Entries /\ d.hard \in Nat /\ used[d] \in Int /\ actual[d] <= used[d]
        /\ actual[d] \in Int /\ report.extra \in Int /\ report.template \in Templates
    BY <1>1, <1>8, ReportShape
  <2>2. PICK c \in Nat : c = Charge(d, report.template)
    BY <2>1, ChargeType
  <2>3. Charge(d, report.template)' = c
    BY <1>2, <2>2 DEF Charge
  <2>4. PICK m \in Int : m = Outstanding(d)
    BY <1>1, <2>1, <2>2 DEF Outstanding, QuotaShape
  <2>5. Outstanding(d)' = m
    BY <1>2, <2>2, <2>3, <2>4 DEF Outstanding
  <2>6. used'[d] \in Int /\ used'[d] <= used[d]
    BY <1>1, <1>2, <2>1 DEF QuotaShape
  <2> QED
    BY <1>2, <1>8, <2>1, <2>2, <2>3, <2>4, <2>5, <2>6 DEF Roomy
<1>9. RoomInv'
  BY <1>1, <1>2, <1>8 DEF RoomInv
<1>10. TightInv'
  BY <1>2 DEF TightInv
<1> QED
  BY <1>6, <1>7, <1>9, <1>10 DEF QuotaInv

LEMMA TakenStep ==
    ASSUME QuotaInv, NEW e \in Entries, TakenByOthers(e)
    PROVE  QuotaInv'
<1>1. QuotaShape /\ JudgedInv /\ TightInv
  BY DEF QuotaInv
<1>2. /\ UNCHANGED <<workload, template, desired, existing, replicas, seen, report,
                     since, freed>>
      /\ taken' = TRUE /\ used[e] # NotTracked
      /\ used' = [used EXCEPT ![e] = used[e] + 1]
      /\ actual' = [actual EXCEPT ![e] = @ + 1]
  BY DEF TakenByOthers, workload_vars, pod_vars, check_vars
<1>3. /\ actual[e] \in Int /\ used[e] \in Int /\ actual[e] <= used[e]
      /\ used[e] + 1 \in Int /\ actual[e] + 1 \in Int /\ NotTracked \notin Int
  BY <1>1, <1>2, QuotaAssumption DEF QuotaShape
<1>4. used' \in [Entries -> Int \cup {NotTracked}] /\ actual' \in [Entries -> Int]
  BY <1>1, <1>2, <1>3 DEF QuotaShape
<1>5. ASSUME NEW d \in Entries, used'[d] # NotTracked PROVE actual'[d] <= used'[d]
  BY <1>1, <1>2, <1>3, <1>5 DEF QuotaShape
<1>6. QuotaShape'
  <2>1. taken' \in BOOLEAN
    BY <1>2
  <2> QED
    BY <1>1, <1>2, <1>4, <1>5, <2>1 DEF QuotaShape
<1>7. ASSUME report # NoReport, NEW d \in report.judged
      PROVE  /\ used'[d] # NotTracked
             /\ Tight(d) => Tight(d)'
  <2>1. /\ d \in Entries /\ d.hard \in Nat /\ used[d] \in Int
        /\ report.extra \in Int /\ report.template \in Templates
    BY <1>1, <1>7, ReportShape
  <2>2. PICK c \in Nat : c = Charge(d, report.template)
    BY <2>1, ChargeType
  <2>3. Charge(d, report.template)' = c
    BY <1>2, <2>2 DEF Charge
  <2>4. PICK m \in Int : m = Outstanding(d)
    BY <1>1, <2>1, <2>2 DEF Outstanding, QuotaShape
  <2>5. Outstanding(d)' = m
    BY <1>2, <2>2, <2>3, <2>4 DEF Outstanding
  <2>6. used'[d] \in Int /\ used'[d] >= used[d] /\ used'[d] # NotTracked
    BY <1>1, <1>2, <1>3, <2>1 DEF QuotaShape
  <2> QED
    BY <1>2, <2>1, <2>2, <2>3, <2>4, <2>5, <2>6 DEF Tight
<1>8. JudgedInv'
  BY <1>1, <1>2, <1>7 DEF JudgedInv
<1>9. RoomInv'
  BY <1>2 DEF RoomInv
<1>10. TightInv'
  BY <1>1, <1>2, <1>7 DEF TightInv, JudgedInv
<1> QED
  BY <1>6, <1>8, <1>9, <1>10 DEF QuotaInv

LEMMA NextQuotaInv == QuotaInv /\ [Next]_vars => QuotaInv'
<1> SUFFICES ASSUME QuotaInv, [Next]_vars PROVE QuotaInv'
  OBVIOUS
<1>0. QuotaShape
  BY DEF QuotaInv
<1>1. CASE ReadWorkload
  BY <1>1, ReadStep
<1>2. CASE ListQuotas
  BY <1>2, ListStep
<1>3. CASE CreatePod
  BY <1>3, CreateStep
<1>4. CASE LosePod
  BY <1>0, <1>4, RemoveStep DEF LosePod, QuotaShape
<1>5. CASE BecomeReady
  <2>1. QuotaShape'
    BY <1>0, <1>5 DEF BecomeReady, QuotaShape, workload_vars, quota_vars, check_vars, history_vars
  <2> QED
    BY <1>5, <2>1, ReportFrame
       DEF BecomeReady, QuotaInv, quota_vars, check_vars, history_vars
<1>6. CASE SyncStatus
  <2>1. QuotaShape'
    BY <1>0, <1>6 DEF SyncStatus, QuotaShape, workload_vars, pod_vars, quota_vars, check_vars,
                      history_vars
  <2> QED
    BY <1>6, <2>1, ReportFrame
       DEF SyncStatus, QuotaInv, quota_vars, check_vars, history_vars
<1>7. ASSUME NEW e \in Entries, Recalculate(e) PROVE QuotaInv'
  BY <1>7, RecalculateStep
<1>8. ASSUME NEW e \in Entries, TakenByOthers(e) PROVE QuotaInv'
  BY <1>8, TakenStep
<1>9. ASSUME NEW n \in 0..MaxReplicas, Scale(n) PROVE QuotaInv'
  <2>1. desired' \in Nat
    BY <1>9, QuotaAssumption DEF Scale
  <2>2. QuotaShape'
    BY <1>0, <1>9, <2>1 DEF Scale, QuotaShape, pod_vars, quota_vars, check_vars, history_vars
  <2> QED
    BY <1>9, <2>2, ReportFrame DEF Scale, QuotaInv, quota_vars, check_vars, history_vars
<1>10. ASSUME NEW t \in Templates, RemoveOld(t) PROVE QuotaInv'
  BY <1>10, RemoveStep DEF RemoveOld
<1>11. ASSUME NEW t \in Templates, NewTemplate(t) PROVE QuotaInv'
  <2>1. QuotaShape'
    BY <1>0, <1>11 DEF NewTemplate, QuotaShape, quota_vars, check_vars, history_vars
  <2> QED
    BY <1>11, <2>1, ReportFrame DEF NewTemplate, QuotaInv, quota_vars, check_vars, history_vars
<1>12. CASE UNCHANGED vars
  <2>1. QuotaShape'
    BY <1>0, <1>12 DEF vars, QuotaShape
  <2> QED
    BY <1>12, <2>1, ReportFrame DEF vars, QuotaInv
<1> QED
  BY <1>1, <1>2, <1>3, <1>4, <1>5, <1>6, <1>7, <1>8, <1>9, <1>10, <1>11, <1>12 DEF Next

-----------------------------------------------------------------------------
(***************************************************************************)
(* The verdict can be relied on, either way.                               *)
(***************************************************************************)
\* Silence: an entry that was judged and not reported short, and is not the count
\* of count/pods, has room for every Pod counted, as long as no one else takes it.
THEOREM SilenceMeansRoom == Spec => []RoomAsReported
<1>1. QuotaInv => RoomAsReported
  BY DEF QuotaInv, RoomInv, Roomy, Outstanding, RoomAsReported
<1> QED
  BY <1>1, InitQuotaInv, NextQuotaInv, PTL DEF Spec

\* A warning: unless quota is returned, the Pods counted cannot all be created.
THEOREM WarningMeansShortage == Spec => []ShortfallIsReal
<1>1. ASSUME QuotaInv PROVE ShortfallIsReal
  <2>1. SUFFICES ASSUME report # NoReport, NEW e \in report.short, ~freed
                 PROVE  since < report.extra
    BY DEF ShortfallIsReal
  <2> QED
    BY <1>1, <2>1 DEF QuotaInv, TightInv, Tight
<1> QED
  BY <1>1, InitQuotaInv, NextQuotaInv, PTL DEF Spec
-----------------------------------------------------------------------------
(***************************************************************************)
(* Counting Pods, and what they are charged.                               *)
(***************************************************************************)
\* For each Pod of p[t] of template t, the units it is charged, c[t] of them.
Units(c, p) ==
    {u \in (Templates \X Nat) \X Nat :
        u[1][2] \in 1..p[u[1][1]] /\ u[2] \in 1..c[u[1][1]]}

IsCounted(c, p) == IsFiniteSet(Units(c, p))
Count(c, p)     == Cardinality(Units(c, p))

One         == [t \in Templates |-> 1]
Charges(e)  == [t \in Templates |-> Charge(e, t)]

LEMMA CountOfOneTemplate ==
    ASSUME NEW c \in [Templates -> Nat], NEW t \in Templates, NEW n \in Nat,
           NEW p \in [Templates -> Nat], p = [s \in Templates |-> IF s = t THEN n ELSE 0]
    PROVE  IsCounted(c, p) /\ Count(c, p) = n * c[t]
<1> DEFINE U == ({t} \X (1..n)) \X (1..c[t])
<1>1. Units(c, p) = U
  <2>1. ASSUME NEW u \in Units(c, p) PROVE u \in U
    BY DEF Units
  <2>2. ASSUME NEW u \in U PROVE u \in Units(c, p)
    BY DEF Units
  <2> QED
    BY <2>1, <2>2
<1>2. IsFiniteSet({t}) /\ Cardinality({t}) = 1
  BY FS_Singleton
<1>3. IsFiniteSet(1..n) /\ Cardinality(1..n) = n
  BY FS_Interval
<1>4. c[t] \in Nat /\ IsFiniteSet(1..c[t]) /\ Cardinality(1..c[t]) = c[t]
  BY FS_Interval
<1>5. IsFiniteSet({t} \X (1..n)) /\ Cardinality({t} \X (1..n)) = n
  BY <1>2, <1>3, FS_Product
<1>6. IsFiniteSet(U) /\ Cardinality(U) = n * c[t]
  BY <1>4, <1>5, FS_Product
<1> QED
  BY <1>1, <1>6 DEF IsCounted, Count

\* One Pod more, or one less.
LEMMA CountOneMore ==
    ASSUME NEW c \in [Templates -> Nat], NEW p \in [Templates -> Nat], NEW t \in Templates,
           NEW q \in [Templates -> Nat], q[t] = p[t] + 1,
           \A s \in Templates : s # t => q[s] = p[s]
    PROVE  /\ IsCounted(c, q) => IsCounted(c, p)
           /\ IsCounted(c, p) => /\ IsCounted(c, q)
                                 /\ Count(c, p) \in Nat /\ Count(c, q) \in Nat
                                 /\ Count(c, q) = Count(c, p) + c[t]
<1> DEFINE U == {<<t, p[t] + 1>>} \X (1..c[t])
<1>1. Units(c, q) = Units(c, p) \cup U
  <2>1. ASSUME NEW u \in Units(c, q), u \notin U PROVE u \in Units(c, p)
    BY <2>1 DEF Units
  <2>2. ASSUME NEW u \in Units(c, p) PROVE u \in Units(c, q)
    BY DEF Units
  <2>3. ASSUME NEW u \in U PROVE u \in Units(c, q)
    BY DEF Units
  <2> QED
    BY <2>1, <2>2, <2>3
<1>2. Units(c, p) \cap U = {}
  BY DEF Units
<1>3. IsFiniteSet(U) /\ Cardinality(U) = c[t]
  <2>1. c[t] \in Nat /\ IsFiniteSet(1..c[t]) /\ Cardinality(1..c[t]) = c[t]
    BY FS_Interval
  <2>2. IsFiniteSet({<<t, p[t] + 1>>}) /\ Cardinality({<<t, p[t] + 1>>}) = 1
    BY FS_Singleton
  <2>3. IsFiniteSet(U) /\ Cardinality(U) = 1 * c[t]
    <3> DEFINE V == {<<t, p[t] + 1>>}
               W == 1..c[t]
    <3>1. IsFiniteSet(V) /\ Cardinality(V) = 1 /\ IsFiniteSet(W) /\ Cardinality(W) = c[t]
      BY <2>1, <2>2
    <3> HIDE DEF V, W
    <3>2. IsFiniteSet(V \X W) /\ Cardinality(V \X W) = 1 * c[t]
      BY <3>1, FS_Product
    <3> QED
      BY <3>2 DEF V, W
  <2> QED
    BY <2>1, <2>3
<1> HIDE DEF U
<1>4. IsCounted(c, q) => IsCounted(c, p)
  BY <1>1, FS_Subset DEF IsCounted
<1>5. ASSUME IsCounted(c, p)
      PROVE  /\ IsCounted(c, q) /\ Count(c, p) \in Nat /\ Count(c, q) \in Nat
             /\ Count(c, q) = Count(c, p) + c[t]
  <2>1. Count(c, p) \in Nat
    BY <1>5, FS_CardinalityType DEF IsCounted, Count
  <2>2. /\ IsFiniteSet(Units(c, q))
        /\ Cardinality(Units(c, q)) =
              Cardinality(Units(c, p)) + Cardinality(U) - Cardinality(Units(c, p) \cap U)
    BY <1>1, <1>3, <1>5, FS_Union DEF IsCounted
  <2>3. Cardinality(Units(c, p) \cap U) = 0
    BY <1>2, FS_EmptySet
  <2> QED
    BY <1>3, <2>1, <2>2, <2>3 DEF IsCounted, Count
<1> QED
  BY <1>4, <1>5

-----------------------------------------------------------------------------
(***************************************************************************)
(* The types.  The Pods are those that were counted, and what is used of   *)
(* an entry is at least what they are charged, so neither count falls      *)
(* below zero when a Pod goes.                                             *)
(***************************************************************************)
PodInv ==
    /\ desired \in 0..MaxReplicas /\ changes \in 0..MaxChanges
    /\ pods \in [Templates -> Nat] /\ ready \in 0..New /\ replicas \in Nat
    /\ used \in [Entries -> Nat \cup {NotTracked}] /\ actual \in [Entries -> Nat]
    /\ IsCounted(One, pods) /\ existing = Count(One, pods)
    /\ \A e \in Applying : IsCounted(Charges(e), pods) /\ Count(Charges(e), pods) <= actual[e]

LEMMA ChargesType ==
    /\ One \in [Templates -> Nat]
    /\ \A e \in Entries : Charges(e) \in [Templates -> Nat]
BY ChargeType DEF One, Charges

\* The counts depend on the Pods only.
LEMMA PodFrame ==
    ASSUME PodInv, UNCHANGED <<pods, existing, used, actual>>,
           desired' \in 0..MaxReplicas, changes' \in 0..MaxChanges,
           ready' \in (0..New)', replicas' \in Nat
    PROVE  PodInv'
BY DEF PodInv, IsCounted, Count, Units, Charges, Charge, Applying

LEMMA InitPodInv == Init => PodInv
<1> SUFFICES ASSUME Init PROVE PodInv
  OBVIOUS
<1>1. /\ template \in Templates /\ desired \in 1..MaxReplicas
      /\ pods = [t \in Templates |-> IF t = template THEN desired ELSE 0]
      /\ existing = desired /\ ready = desired /\ replicas = desired /\ changes = 0
  BY DEF Init
<1>2. desired \in Nat /\ desired \in 0..MaxReplicas /\ changes \in 0..MaxChanges
  BY <1>1, QuotaAssumption
<1>3. pods \in [Templates -> Nat] /\ New = desired
  BY <1>1, <1>2 DEF New
<1>4. IsCounted(One, pods) /\ Count(One, pods) = desired * One[template]
  BY <1>1, <1>2, <1>3, ChargesType, CountOfOneTemplate
<1>5. Count(One, pods) = desired
  BY <1>1, <1>2, <1>4 DEF One
<1>6. PICK others \in FirstUse :
        actual = [e \in Entries |->
            others[e] + IF e \in Applying THEN desired * Charge(e, template) ELSE 0]
  BY DEF Init
<1>7. ASSUME NEW e \in Entries
      PROVE  /\ actual[e] \in Nat
             /\ e \in Applying => /\ IsCounted(Charges(e), pods)
                                  /\ Count(Charges(e), pods) <= actual[e]
  <2>1. others[e] \in Nat
    BY <1>6, QuotaAssumption
  <2>2. Charges(e) \in [Templates -> Nat] /\ Charges(e)[template] = Charge(e, template)
    BY <1>1, ChargesType DEF Charges
  <2>3. PICK n \in Nat : n = desired * Charge(e, template)
    BY <1>1, <1>2, ChargeType
  <2>4. IsCounted(Charges(e), pods) /\ Count(Charges(e), pods) = n
    BY <1>1, <1>2, <1>3, <2>2, <2>3, CountOfOneTemplate
  <2>5. actual[e] = others[e] + IF e \in Applying THEN n ELSE 0
    BY <1>6, <2>3
  <2> QED
    BY <2>1, <2>3, <2>4, <2>5
<1>8. actual \in [Entries -> Nat]
  BY <1>6, <1>7
<1>9. used \in [Entries -> Nat \cup {NotTracked}]
  BY <1>7 DEF Init
<1> QED
  BY <1>1, <1>2, <1>3, <1>4, <1>5, <1>7, <1>8, <1>9 DEF PodInv, Applying

\* One Pod of template t is created.
LEMMA CreatePodInv == QuotaShape /\ PodInv /\ CreatePod => PodInv'
<1> SUFFICES ASSUME QuotaShape, PodInv, CreatePod PROVE PodInv'
  OBVIOUS
<1>1. /\ template \in Templates /\ UNCHANGED <<desired, template, ready, replicas, changes>>
      /\ pods' = [pods EXCEPT ![template] = pods[template] + 1]
      /\ existing' = existing + 1
      /\ used' = Charged(used) /\ actual' = Charged(actual)
  BY DEF CreatePod, QuotaShape, workload_vars
<1>2. pods' \in [Templates -> Nat] /\ New' = New + 1 /\ New \in Nat
  BY <1>1 DEF PodInv, New
<1>9. ASSUME NEW c \in [Templates -> Nat], IsCounted(c, pods)
      PROVE  /\ IsCounted(c, pods') /\ Count(c, pods) \in Nat
             /\ Count(c, pods') = Count(c, pods) + c[template]
  <2>1. pods \in [Templates -> Nat]
    BY DEF PodInv
  <2>2. /\ pods'[template] = pods[template] + 1
        /\ \A s \in Templates : s # template => pods'[s] = pods[s]
    BY <1>1, <2>1
  <2>3. PICK t \in Templates, p \in [Templates -> Nat], q \in [Templates -> Nat] :
            t = template /\ p = pods /\ q = pods'
    BY <1>1, <1>2, <2>1
  <2>4. q[t] = p[t] + 1 /\ \A s \in Templates : s # t => q[s] = p[s]
    BY <2>2, <2>3
  <2>5. IsCounted(c, p) => /\ IsCounted(c, q) /\ Count(c, p) \in Nat
                           /\ Count(c, q) = Count(c, p) + c[t]
    BY <2>4, CountOneMore
  <2> QED
    BY <1>9, <2>3, <2>5
<1>3. ready' \in 0..New'
  BY <1>1, <1>2 DEF PodInv
<1>4. /\ IsCounted(One, pods') /\ Count(One, pods') = existing + One[template]
      /\ One[template] = 1
  <2>1. One \in [Templates -> Nat] /\ One[template] = 1
    BY <1>1 DEF One
  <2>2. IsCounted(One, pods) /\ existing = Count(One, pods) /\ pods \in [Templates -> Nat]
    BY DEF PodInv
  <2>3. IsCounted(One, pods') /\ Count(One, pods') = Count(One, pods) + One[template]
    BY <1>9, <2>1, <2>2
  <2> QED
    BY <2>1, <2>2, <2>3
<1>5. ASSUME NEW e \in Entries
      PROVE  /\ actual'[e] = IF e \in Applying THEN actual[e] + Charge(e, template) ELSE actual[e]
             /\ actual'[e] \in Nat /\ used'[e] \in Nat \cup {NotTracked}
             /\ e \in Applying => /\ IsCounted(Charges(e), pods')
                                  /\ Count(Charges(e), pods') <= actual'[e]
  <2>1. PICK c \in Nat : c = Charge(e, template)
    BY <1>1, ChargeType
  <2>2. actual[e] \in Nat /\ actual[e] # NotTracked /\ used[e] \in Nat \cup {NotTracked}
    BY QuotaAssumption DEF PodInv
  <2>3. actual'[e] = IF e \in Applying THEN actual[e] + c ELSE actual[e]
    BY <1>1, <2>1, <2>2 DEF Charged
  <2>4. used'[e] = IF e \in Applying /\ used[e] # NotTracked THEN used[e] + c ELSE used[e]
    BY <1>1, <2>1 DEF Charged
  <2>5. actual'[e] \in Nat /\ used'[e] \in Nat \cup {NotTracked}
    BY <2>1, <2>2, <2>3, <2>4
  <2>6. ASSUME e \in Applying
        PROVE  IsCounted(Charges(e), pods') /\ Count(Charges(e), pods') <= actual'[e]
    <3>1. Charges(e) \in [Templates -> Nat] /\ Charges(e)[template] = c
      BY <1>1, <2>1, ChargesType DEF Charges
    <3>2. IsCounted(Charges(e), pods) /\ Count(Charges(e), pods) <= actual[e]
      BY <2>6 DEF PodInv
    <3>3. /\ IsCounted(Charges(e), pods') /\ Count(Charges(e), pods) \in Nat
          /\ Count(Charges(e), pods') = Count(Charges(e), pods) + c
      <4>1. /\ IsCounted(Charges(e), pods') /\ Count(Charges(e), pods) \in Nat
            /\ Count(Charges(e), pods') = Count(Charges(e), pods) + Charges(e)[template]
        BY <1>9, <3>1, <3>2
      <4> QED
        BY <3>1, <4>1
    <3> QED
      BY <2>1, <2>2, <2>3, <2>6, <3>2, <3>3
  <2> QED
    BY <2>1, <2>3, <2>5, <2>6
<1>6. used' \in [Entries -> Nat \cup {NotTracked}] /\ actual' \in [Entries -> Nat]
  BY <1>1, <1>5 DEF Charged
<1>7. \A e \in Applying' : /\ IsCounted(Charges(e), pods)'
                           /\ Count(Charges(e), pods)' <= actual'[e]
  BY <1>5 DEF Applying, IsCounted, Count, Units, Charges, Charge
<1>8. IsCounted(One, pods)' /\ existing' = Count(One, pods)'
  BY <1>1, <1>4 DEF IsCounted, Count, Units, One
<1> QED
  BY <1>1, <1>2, <1>3, <1>6, <1>7, <1>8 DEF PodInv

\* One Pod of template t goes, and the rest of the state keeps its type.
LEMMA RemovePodInv ==
    ASSUME PodInv, NEW t \in Templates, RemovePod(t),
           changes' \in 0..MaxChanges, ready' \in (0..New)'
    PROVE  PodInv'
<1>1. /\ UNCHANGED <<desired, replicas, used>> /\ pods[t] > 0
      /\ pods' = [pods EXCEPT ![t] = pods[t] - 1]
      /\ existing' = existing - 1
      /\ actual' = [e \in Entries |->
                      IF e \in Applying THEN actual[e] - Charge(e, t) ELSE actual[e]]
  BY DEF RemovePod, workload_vars
<1>2. pods \in [Templates -> Nat] /\ pods' \in [Templates -> Nat]
  BY <1>1 DEF PodInv
<1>3. pods[t] = pods'[t] + 1 /\ \A s \in Templates : s # t => pods[s] = pods'[s]
  BY <1>1, <1>2
<1>4. /\ IsCounted(One, pods') /\ existing = Count(One, pods') + One[t] /\ One[t] = 1
      /\ Count(One, pods') \in Nat
  BY <1>2, <1>3, CountOneMore, ChargesType, SMTT(30) DEF PodInv, One
<1>5. ASSUME NEW e \in Entries
      PROVE  /\ actual'[e] \in Nat
             /\ e \in Applying => /\ IsCounted(Charges(e), pods')
                                  /\ Count(Charges(e), pods') <= actual'[e]
  <2>1. PICK c \in Nat : c = Charge(e, t)
    BY ChargeType
  <2>2. actual[e] \in Nat
    BY DEF PodInv
  <2>3. CASE e \in Applying
    <3>1. Charges(e) \in [Templates -> Nat] /\ Charges(e)[t] = c
      BY <2>1, ChargesType DEF Charges
    <3>2. IsCounted(Charges(e), pods) /\ Count(Charges(e), pods) <= actual[e]
      BY <2>3 DEF PodInv
    <3>3. /\ IsCounted(Charges(e), pods') /\ Count(Charges(e), pods') \in Nat
          /\ Count(Charges(e), pods) = Count(Charges(e), pods') + c
      BY <1>2, <1>3, <3>1, <3>2, CountOneMore
    <3>4. actual'[e] = actual[e] - c
      BY <1>1, <2>1, <2>3
    <3> QED
      BY <2>1, <2>2, <3>2, <3>3, <3>4
  <2>4. CASE e \notin Applying
    BY <1>1, <2>2, <2>4
  <2> QED
    BY <2>3, <2>4
<1>6. actual' \in [Entries -> Nat]
  BY <1>1, <1>5
<1>7. \A e \in Applying' : /\ IsCounted(Charges(e), pods)'
                           /\ Count(Charges(e), pods)' <= actual'[e]
  BY <1>5 DEF Applying, IsCounted, Count, Units, Charges, Charge
<1>8. IsCounted(One, pods)' /\ existing' = Count(One, pods)'
  BY <1>1, <1>4 DEF IsCounted, Count, Units, One
<1> QED
  BY <1>1, <1>2, <1>6, <1>7, <1>8 DEF PodInv

LEMMA NextPodInv == QuotaShape /\ PodInv /\ [Next]_vars => PodInv'
<1> SUFFICES ASSUME QuotaShape, PodInv, [Next]_vars PROVE PodInv'
  OBVIOUS
<1>1. /\ MaxChanges \in Nat /\ MaxReplicas \in Nat /\ changes \in 0..MaxChanges
      /\ template \in Templates /\ pods \in [Templates -> Nat] /\ New \in Nat
      /\ ready \in 0..New /\ desired \in 0..MaxReplicas /\ replicas \in Nat /\ existing \in Nat
  BY QuotaAssumption, ChargesType, FS_CardinalityType
    DEF QuotaShape, PodInv, New, IsCounted, Count
<1>2. ASSUME Change PROVE changes' \in 0..MaxChanges
  BY <1>1, <1>2 DEF Change
<1>3. CASE ReadWorkload \/ ListQuotas \/ UNCHANGED vars
  BY <1>1, <1>3, PodFrame
    DEF ReadWorkload, ListQuotas, vars, workload_vars, pod_vars, quota_vars, New
<1>4. CASE CreatePod
  BY <1>4, CreatePodInv
<1>5. CASE LosePod
  <2>1. ready' \in 0 .. New - 1 /\ New' = New - 1
    BY <1>1, <1>5 DEF LosePod, RemovePod, workload_vars, New
  <2> QED
    BY <1>1, <1>2, <1>5, <2>1, RemovePodInv DEF LosePod
<1>6. CASE BecomeReady
  BY <1>1, <1>6, PodFrame DEF BecomeReady, workload_vars, quota_vars, New
<1>7. CASE SyncStatus
  BY <1>1, <1>7, PodFrame DEF SyncStatus, workload_vars, pod_vars, quota_vars, New
<1>8. ASSUME NEW e \in Entries, Recalculate(e) PROVE PodInv'
  <2>1. /\ used' = [used EXCEPT ![e] = actual[e]]
        /\ UNCHANGED <<desired, template, pods, existing, ready, replicas, actual, changes>>
    BY <1>8 DEF Recalculate, workload_vars, pod_vars
  <2>2. used' \in [Entries -> Nat \cup {NotTracked}]
    BY <2>1 DEF PodInv
  <2> QED
    BY <2>1, <2>2 DEF PodInv, New, IsCounted, Count, Units, One, Charges, Charge, Applying
<1>9. ASSUME NEW e \in Entries, TakenByOthers(e) PROVE PodInv'
  <2>1. /\ used' = [used EXCEPT ![e] = used[e] + 1]
        /\ actual' = [actual EXCEPT ![e] = actual[e] + 1]
        /\ used[e] # NotTracked /\ changes' \in 0..MaxChanges
        /\ UNCHANGED <<desired, template, pods, existing, ready, replicas>>
    BY <1>2, <1>9 DEF TakenByOthers, workload_vars, pod_vars
  <2>2. used' \in [Entries -> Nat \cup {NotTracked}] /\ actual' \in [Entries -> Nat]
    BY <2>1 DEF PodInv
  <2>3. ASSUME NEW a \in Applying
        PROVE  IsCounted(Charges(a), pods) /\ Count(Charges(a), pods) <= actual'[a]
    <3>1. /\ IsCounted(Charges(a), pods) /\ Count(Charges(a), pods) <= actual[a]
          /\ a \in Entries /\ actual[a] \in Nat
      BY DEF PodInv, Applying
    <3>2. Count(Charges(a), pods) \in Nat
      BY <3>1, FS_CardinalityType DEF IsCounted, Count
    <3>3. actual[a] <= actual'[a]
      BY <2>1, <3>1 DEF PodInv
    <3> QED
      BY <2>2, <3>1, <3>2, <3>3
  <2> QED
    BY <2>1, <2>2, <2>3 DEF PodInv, New, IsCounted, Count, Units, One, Charges, Charge, Applying
<1>10. ASSUME NEW n \in 0..MaxReplicas, Scale(n) PROVE PodInv'
  BY <1>1, <1>2, <1>10, PodFrame DEF Scale, pod_vars, quota_vars, New
<1>11. ASSUME NEW t \in Templates, RemoveOld(t) PROVE PodInv'
  <2>1. UNCHANGED <<ready, template, changes>> /\ t # template /\ RemovePod(t)
    BY <1>11 DEF RemoveOld, RemovePod, workload_vars
  <2>2. New' = New
    BY <1>1, <2>1 DEF New, RemovePod
  <2> QED
    BY <1>1, <2>1, <2>2, RemovePodInv
<1>12. ASSUME NEW t \in Templates, NewTemplate(t) PROVE PodInv'
  <2>1. ready' \in (0..New)'
    BY <1>12 DEF NewTemplate, New
  <2> QED
    BY <1>1, <1>2, <1>12, <2>1, PodFrame DEF NewTemplate, quota_vars
<1> QED
  BY <1>3, <1>4, <1>5, <1>6, <1>7, <1>8, <1>9, <1>10, <1>11, <1>12 DEF Next

\* The state keeps its types: no count of Pods and no use of a quota falls below
\* zero, and a report is short of nothing that it has not judged.
THEOREM QuotaTyped == Spec => []TypeOKQuota
<1>1. ASSUME QuotaInv, PodInv PROVE TypeOKQuota
  <2>1. existing \in Nat
    BY <1>1, FS_CardinalityType DEF PodInv, IsCounted, Count
  <2> QED
    BY <1>1, <2>1 DEF QuotaInv, QuotaShape, JudgedInv, PodInv, TypeOKQuota
<1>2. QuotaInv => QuotaShape
  BY DEF QuotaInv
<1> QED
  BY <1>1, <1>2, InitQuotaInv, NextQuotaInv, InitPodInv, NextPodInv, PTL DEF Spec
=============================================================================
