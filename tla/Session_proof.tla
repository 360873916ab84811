----------------------------- MODULE Session_proof -----------------------------
(***************************************************************************)
(* Theorems about Session, for any number of objects, settings, sources    *)
(* and changes.                                                            *)
(***************************************************************************)
EXTENDS Session, TLAPS

\* What the types of the query's sources are.
LEMMA QueryShape ==
    ASSUME TypeOKSession
    PROVE  /\ query \in Seq(Sources)
           /\ Len(query) \in Nat
           /\ DOMAIN query = 1..Len(query)
           /\ \A i \in DOMAIN query :
                 /\ query[i] \in Sources
                 /\ query[i].named => \E o \in Objects : query[i].names = {o}
           /\ Wanted \subseteq Objects
<1>1. query \in Seq(Sources)
  BY SessionAssumption DEF TypeOKSession
<1>2. \A i \in DOMAIN query : query[i] \in Sources
  BY <1>1
<1>3. \A i \in DOMAIN query : query[i].named => \E o \in Objects : query[i].names = {o}
  BY SessionAssumption DEF TypeOKSession
<1>4. Wanted \subseteq Objects
  BY <1>2 DEF Wanted, Sources
<1> QED
  BY <1>1, <1>2, <1>3, <1>4

\* The version runWatch asks to watch from is one the cluster has had; for a
\* query of one source it is not before any version of what is watched.
LEMMA CommonVersionShape ==
    ASSUME TypeOKSession
    PROVE  /\ CommonVersion \in 0..Now
           /\ Len(query) = 1 /\ CommonVersion # 0 =>
                 \A o \in Wanted : cluster[o].rv <= CommonVersion
<1> USE QueryShape
<1>1. Now \in Nat /\ Now <= MaxVersion
  BY DEF TypeOKSession, Now
<1>2. \A o \in Objects : cluster[o].rv \in 0..Now
  BY DEF TypeOKSession
<1>3. CASE Len(query) # 1 \/ Found(query[1]) = {}
  BY <1>1, <1>3 DEF CommonVersion
<1>4. CASE Len(query) = 1 /\ Found(query[1]) # {}
  <2>1. Wanted = query[1].names
    BY <1>4 DEF Wanted
  <2>2. CASE query[1].named
    <3>1. PICK o \in Objects : query[1].names = {o}
      BY <1>4, <2>2
    <3>2. cluster[o].rv \in Versions
      BY <1>1, <1>2, SessionAssumption DEF Versions
    <3>3. CommonVersion = CHOOSE n \in Versions : \E x \in query[1].names : n = cluster[x].rv
      BY <1>4, <2>2 DEF CommonVersion
    <3>4. \E n \in Versions : \E x \in query[1].names : n = cluster[x].rv
      BY <3>1, <3>2
    <3>5. \E x \in query[1].names : CommonVersion = cluster[x].rv
      BY <3>3, <3>4
    <3>6. CommonVersion = cluster[o].rv
      BY <3>1, <3>5
    <3> QED
      BY <2>1, <3>1, <3>6, <1>1, <1>2
  <2>3. CASE ~query[1].named
    <3>1. CommonVersion = Now
      BY <1>4, <2>3 DEF CommonVersion
    <3> QED
      BY <1>1, <1>2, <3>1
  <2> QED
    BY <2>2, <2>3
<1> QED
  BY <1>3, <1>4

-----------------------------------------------------------------------------
(***************************************************************************)
(* Types.                                                                  *)
(***************************************************************************)
LEMMA FetchedType ==
    ASSUME TypeOKSession, NEW S
    PROVE  Fetched(S) \in [Objects -> 0..Now]
BY DEF TypeOKSession, Fetched, Now

LEMMA SetType ==
    ASSUME NEW v \in [Keys -> Setting], NEW S, NEW value \in BOOLEAN
    PROVE  Set(v, S, value) \in [Keys -> Setting]
BY DEF Set, Setting

LEMMA CompleteType ==
    ASSUME NEW v \in [Keys -> Setting]
    PROVE  complete(v) \in [Keys -> Setting]
<1>1. allowExplicitIncludesOnly(v) \in [Keys -> Setting]
  BY SetType DEF allowExplicitIncludesOnly
<1>2. ASSUME NEW w \in [Keys -> Setting]
      PROVE  enableAllIncludes(w) \in [Keys -> Setting]
  BY SetType DEF enableAllIncludes
<1> QED
  BY <1>1, <1>2 DEF complete

LEMMA TypeInit == Init => TypeOKSession
<1> SUFFICES ASSUME Init PROVE TypeOKSession
  OBVIOUS
<1>1. given \in [Keys -> Setting]
  BY SessionAssumption DEF Init
<1>2. Now = 0 /\ MaxVersion \in Nat
  BY SessionAssumption DEF Init, Now
<1>3. query \in Seq(Sources)
  BY SessionAssumption DEF Init
<1> QED
  BY <1>1, <1>2, <1>3 DEF Init, TypeOKSession, NoBatch, Phases, Now

LEMMA TypeNext == TypeOKSession /\ [Next]_vars => TypeOKSession'
<1> SUFFICES ASSUME TypeOKSession, [Next]_vars PROVE TypeOKSession'
  OBVIOUS
<1> USE DEF TypeOKSession, Phases, watch_vars, cluster_vars, Now, Return
<1>0. Now \in Nat /\ Len(query) \in Nat /\ DOMAIN query = 1..Len(query)
  BY QueryShape
<1>1. CASE RunE
  <2>1. complete(viper) \in [Keys -> Setting]
    BY CompleteType
  <2> QED
    BY <1>0, <1>1, <2>1, SMTT(30) DEF RunE
<1>2. CASE Fetch
  <2>1. Fetched(Found(query[source])) \in [Objects -> 0..Now]
    BY FetchedType
  <2>2. source' \in 1..(Len(query) + 1) /\ failures' \subseteq DOMAIN query
    BY <1>0, <1>2 DEF Fetch, NextSource
  <2>3. batch' \in [Objects -> 0..Now]
    BY <1>2, <2>1 DEF Fetch
  <2> QED
    BY <1>0, <1>2, <2>2, <2>3 DEF Fetch
<1>3. CASE PrintObject
  <2>1. PICK o \in Objects : /\ shown' = [shown EXCEPT ![o] = batch[o]]
                            /\ batch' = [batch EXCEPT ![o] = 0]
    BY <1>3 DEF PrintObject
  <2>2. shown' \in [Objects -> 0..Now] /\ batch' \in [Objects -> 0..Now]
    BY <1>0, <2>1
  <2> QED
    BY <1>0, <1>3, <2>2 DEF PrintObject
<1>4. CASE EndListing
  BY <1>0, <1>4 DEF EndListing
<1>5. CASE runWatch
  <2>1. Set(viper, {"shallow", "watching"}, TRUE) \in [Keys -> Setting]
    BY DEF Set, Setting
  <2> QED
    BY <1>0, <1>5, <2>1 DEF runWatch
<1>6. CASE Refetch
  <2>1. CommonVersion \in 0..Now
    BY CommonVersionShape
  <2>2. rv' \in 0..Now /\ pos' \in 0..Now /\ fetchedAt' \in 0..Now
    BY <1>0, <1>6, <2>1 DEF Refetch
  <2> QED
    BY <1>0, <1>6, <2>2 DEF Refetch
<1>7. CASE Connect
  <2>1. Fetched(Found(query[1])) \in [Objects -> 0..Now] /\ NoBatch \in [Objects -> 0..Now]
    BY <1>0, FetchedType DEF NoBatch
  <2>2. WatchFrom \in 0..Now
    BY <1>0 DEF WatchFrom
  <2>3. pos' \in 0..Now /\ batch' \in [Objects -> 0..Now]
    BY <1>7, <2>1, <2>2 DEF Connect
  <2> QED
    BY <1>0, <1>7, <2>3 DEF Connect
<1>8. CASE Deliver
  <2>1. pos \in 0..Now /\ pos < Now /\ pos' = pos + 1
    BY <1>8 DEF Deliver
  <2>2. pos' \in 0..Now
    BY <1>0, <2>1
  <2>3. shown' \in [Objects -> 0..Now]
    BY <1>0, <1>8, <2>1, <2>2 DEF Deliver
  <2> QED
    BY <1>0, <1>8, <2>2, <2>3 DEF Deliver
<1>9. CASE WatchEnds
  BY <1>0, <1>9 DEF WatchEnds
<1>10. CASE Change
  <2>1. Now' = Now + 1 /\ Now + 1 <= MaxVersion
    BY <1>0, <1>10, SessionAssumption DEF Change
  <2>2. 0..Now \subseteq 0..Now'
    BY <1>0, <2>1
  <2>3. cluster' \in [Objects -> [rv : 0..Now', exists : BOOLEAN]]
    BY <1>0, <1>10, <2>1, <2>2 DEF Change
  <2>4. batch' \in [Objects -> 0..Now'] /\ shown' \in [Objects -> 0..Now']
    BY <1>10, <2>2 DEF Change
  <2>5. history' \in Seq(Objects)
    BY <1>10 DEF Change
  <2> QED
    BY <1>0, <1>10, <2>1, <2>2, <2>3, <2>4, <2>5 DEF Change
<1>11. CASE UNCHANGED vars
  BY <1>11 DEF vars
<1> QED
  BY <1>1, <1>2, <1>3, <1>4, <1>5, <1>6, <1>7, <1>8, <1>9, <1>10, <1>11 DEF Next, Command

\* Types hold in every state.
THEOREM SessionTypeOK == Spec => []TypeOKSession
BY TypeInit, TypeNext, PTL DEF Spec

-----------------------------------------------------------------------------
(***************************************************************************)
(* The settings.                                                           *)
(***************************************************************************)

\* complete() keeps what was given and makes the rest follow the flags.
LEMMA CompleteSettings ==
    ASSUME NEW v \in Requests, validate(complete(v)), NEW k \in Includes
    PROVE  GetBool(complete(v), k) = IF IsSet(v, k) THEN GetBool(v, k)
                                     ELSE /\ ~GetBool(v, "shallow")
                                          /\ GetBool(v, "deep") \/ k \in OnByDefault
<1> DEFINE w == IF GetBool(v, "shallow") THEN allowExplicitIncludesOnly(v) ELSE v
           x == IF GetBool(w, "deep") THEN enableAllIncludes(w) ELSE w
<1>1. v \in [Keys -> Setting] /\ k \in Keys
  BY SessionAssumption DEF Keys
<1>2. IsSet(v, k) \/ v[k] = [set |-> FALSE, value |-> k \in OnByDefault]
  BY SessionAssumption, <1>1 DEF IsSet, Default
<1>3. \A f \in Flags : f \in Keys /\ f \notin Includes
  BY SessionAssumption DEF Keys
<1>4. {"shallow", "deep"} \subseteq Flags
  BY DEF Flags
<1>5. \A f \in {"shallow", "deep"} :
         /\ GetBool(allowExplicitIncludesOnly(v), f) = GetBool(v, f)
         /\ \A u : GetBool(enableAllIncludes(u), f) = GetBool(u, f)
  BY <1>3, <1>4 DEF allowExplicitIncludesOnly, enableAllIncludes, Set, GetBool
<1>6. complete(v) = x
  BY DEF complete
<1>7. ~(GetBool(v, "shallow") /\ GetBool(v, "deep"))
  BY <1>5, <1>6 DEF validate
<1>8. GetBool(v, k) \in BOOLEAN /\ IsSet(v, k) \in BOOLEAN
  BY <1>1 DEF GetBool, IsSet, Setting
<1>9. CASE GetBool(v, "shallow")
  <2>1. complete(v) = allowExplicitIncludesOnly(v)
    BY <1>5, <1>6, <1>7, <1>9
  <2>2. GetBool(allowExplicitIncludesOnly(v), k) = (IsSet(v, k) /\ GetBool(v, k))
    BY <1>1, <1>8 DEF allowExplicitIncludesOnly, Set, GetBool, IsSet
  <2> QED
    BY <1>8, <1>9, <2>1, <2>2
<1>10. CASE ~GetBool(v, "shallow") /\ GetBool(v, "deep")
  <2>1. complete(v) = enableAllIncludes(v)
    BY <1>6, <1>10
  <2>2. GetBool(enableAllIncludes(v), k) = ~(IsSet(v, k) /\ ~GetBool(v, k))
    BY <1>1, <1>8 DEF enableAllIncludes, Set, GetBool, IsSet
  <2> QED
    BY <1>8, <1>10, <2>1, <2>2
<1>11. CASE ~GetBool(v, "shallow") /\ ~GetBool(v, "deep")
  <2>1. complete(v) = v
    BY <1>6, <1>11
  <2>2. ~IsSet(v, k) => GetBool(v, k) = (k \in OnByDefault)
    BY <1>2 DEF GetBool
  <2> QED
    BY <1>8, <1>11, <2>1, <2>2
<1> QED
  BY <1>9, <1>10, <1>11

SettingsInv ==
    /\ phase = "options" => viper = given
    /\ SettingsAsAsked

LEMMA SettingsNext == TypeOKSession /\ SettingsInv /\ [Next]_vars => SettingsInv'
<1> SUFFICES ASSUME TypeOKSession, SettingsInv, [Next]_vars PROVE SettingsInv'
  OBVIOUS
<1>1. CASE RunE
  <2>1. given \in Requests /\ viper = given
    BY <1>1 DEF TypeOKSession, SettingsInv, RunE
  <2>2. CASE phase' = "ended"
    BY <2>2 DEF SettingsInv, SettingsAsAsked
  <2>3. CASE phase' # "ended"
    <3>1. viper' = complete(given) /\ validate(complete(given))
      BY <1>1, <2>1, <2>3 DEF RunE, Return
    <3>2. phase' = "listing" /\ given' = given
      BY <1>1, <2>3 DEF RunE, Return
    <3>3. \A k \in Includes :
             GetBool(complete(given), k) =
                 IF IsSet(given, k) THEN GetBool(given, k)
                 ELSE /\ ~GetBool(given, "shallow")
                      /\ GetBool(given, "deep") \/ k \in OnByDefault
      BY <2>1, <3>1, CompleteSettings
    <3>4. SettingsAsAsked'
      BY <3>1, <3>2, <3>3 DEF SettingsAsAsked
    <3> QED
      BY <3>2, <3>4 DEF SettingsInv
  <2> QED
    BY <2>2, <2>3
<1>2. CASE runWatch
  <2>1. \A k \in Includes : k \in Keys /\ k \notin {"shallow", "watching"}
    BY SessionAssumption DEF Keys, Flags
  <2>2. \A k \in Includes : GetBool(viper', k) = GetBool(viper, k)
    BY <1>2, <2>1 DEF runWatch, Set, GetBool
  <2>3. phase = "listing" /\ phase' = "refetch" /\ given' = given
    BY <1>2 DEF runWatch, Listed
  <2> QED
    BY <2>2, <2>3 DEF SettingsInv, SettingsAsAsked
<1>3. ASSUME UNCHANGED <<viper, given>>,
             phase \in {"options", "ended"} => phase' = phase
      PROVE  phase' # "options" \/ phase = "options" => SettingsInv'
  BY <1>3 DEF SettingsInv, SettingsAsAsked
<1>4. CASE Fetch \/ PrintObject \/ EndListing \/ Refetch \/ Connect \/ Deliver \/ WatchEnds \/ Change
  <2>1. UNCHANGED <<viper, given>>
    BY <1>4 DEF Fetch, PrintObject, EndListing, Refetch, Connect, Deliver, WatchEnds, Change
  <2>2. phase \in {"options", "ended"} => phase' = phase
    BY <1>4 DEF Fetch, PrintObject, EndListing, Refetch, Connect, Deliver, WatchEnds, Change, Listed
  <2>3. phase' # "options" \/ phase = "options"
    BY <1>4 DEF Fetch, PrintObject, EndListing, Refetch, Connect, Deliver, WatchEnds, Change, Return
  <2> QED
    BY <1>3, <2>1, <2>2, <2>3
<1>5. CASE UNCHANGED vars
  BY <1>5 DEF vars, SettingsInv, SettingsAsAsked
<1> QED
  BY <1>1, <1>2, <1>4, <1>5 DEF Next, Command

\* An explicit --include-* setting survives --shallow and --deep, and the
\* switch to watch mode (main.go:299-323).
THEOREM ExplicitSettingsKept == Spec => []SettingsAsAsked
<1>1. Init => SettingsInv
  BY DEF Init, SettingsInv, SettingsAsAsked
<1>2. SettingsInv => SettingsAsAsked
  BY DEF SettingsInv
<1> QED
  BY <1>1, <1>2, SettingsNext, SessionTypeOK, PTL DEF Spec

-----------------------------------------------------------------------------
(***************************************************************************)
(* The versions: what the log, the cluster, the requests under way and the *)
(* pages printed have to do with each other.                               *)
(***************************************************************************)

\* The log and the cluster agree on the last change of each object.
LogInv ==
    /\ \A n \in 1..Now : n <= cluster[history[n]].rv
    /\ \A o \in Objects : cluster[o].rv # 0 => history[cluster[o].rv] = o
    /\ \A o \in Objects : cluster[o].exists => cluster[o].rv # 0

\* What is printed is not newer than what is fetched, nor that than the
\* cluster; a watch begins where everything printed of its objects is past.
OrderInv ==
    /\ \A o \in Objects : shown[o] <= cluster[o].rv /\ batch[o] <= cluster[o].rv
    /\ \A o \in Objects : batch[o] # 0 => shown[o] <= batch[o]
    /\ phase \in {"options", "refetch", "connect"} => batch = NoBatch
    /\ phase = "connect" /\ Len(query) = 1 /\ rv # 0 =>
          \A o \in Wanted : shown[o] <= rv
    /\ phase = "watching" => \A o \in Wanted : shown[o] <= pos /\ batch[o] <= pos

\* The watch has printed, or will, what came after the second fetch.
WatchInv ==
    /\ phase \in {"connect", "watching"} => rv <= fetchedAt
    /\ NothingLost

LEMMA LogNext == TypeOKSession /\ LogInv /\ [Next]_vars => LogInv'
<1> SUFFICES ASSUME TypeOKSession, LogInv, [Next]_vars PROVE LogInv'
  OBVIOUS
<1>1. CASE UNCHANGED cluster_vars
  BY <1>1 DEF cluster_vars, LogInv, Now
<1>2. CASE Change
  <2>1. PICK o \in Objects, exists \in BOOLEAN :
           /\ history' = Append(history, o)
           /\ cluster' = [cluster EXCEPT ![o] = [rv |-> Now + 1, exists |-> exists]]
    BY <1>2 DEF Change
  <2>2. /\ Now \in Nat /\ Now' = Now + 1
        /\ history'[Now + 1] = o
        /\ \A n \in 1..Now : history'[n] = history[n]
    <3>1. history \in Seq(Objects) /\ history' = Append(history, o)
      BY <2>1 DEF TypeOKSession
    <3> QED
      BY <3>1 DEF Now
  <2>3. /\ cluster'[o].rv = Now + 1
        /\ \A x \in Objects \ {o} : cluster'[x] = cluster[x]
        /\ \A x \in Objects : cluster[x].rv \in 0..Now
    BY <2>1 DEF TypeOKSession
  <2>4. ASSUME NEW n \in 1..Now'
        PROVE  n <= cluster'[history'[n]].rv
    <3>1. CASE n = Now + 1
      BY <2>2, <2>3, <3>1
    <3>2. CASE n \in 1..Now
      <4>1. n <= cluster[history[n]].rv
        BY <3>2 DEF LogInv
      <4>2. history[n] \in Objects
        <5>1. history \in Seq(Objects) /\ n \in 1..Len(history)
          BY <3>2 DEF TypeOKSession, Now
        <5> QED
          BY <5>1
      <4>3. cluster[history[n]].rv <= cluster'[history[n]].rv
        BY <2>2, <2>3, <4>2
      <4> QED
        BY <2>2, <2>3, <3>2, <4>1, <4>2, <4>3
    <3> QED
      BY <2>2, <3>1, <3>2
  <2>5. ASSUME NEW x \in Objects, cluster'[x].rv # 0
        PROVE  history'[cluster'[x].rv] = x
    <3>1. CASE x = o
      BY <2>2, <2>3, <3>1
    <3>2. CASE x # o
      BY <2>2, <2>3, <2>5, <3>2 DEF LogInv
    <3> QED
      BY <3>1, <3>2
  <2>6. ASSUME NEW x \in Objects, cluster'[x].exists
        PROVE  cluster'[x].rv # 0
    BY <2>2, <2>3, <2>6 DEF LogInv
  <2> QED
    BY <2>4, <2>5, <2>6 DEF LogInv
<1>3. CASE UNCHANGED vars
  BY <1>1, <1>3 DEF vars, cluster_vars
<1> QED
  BY <1>1, <1>2, <1>3 DEF Next, Command, RunE, Fetch, PrintObject, EndListing, runWatch,
     Refetch, Connect, Deliver, WatchEnds

LEMMA OrderNext == TypeOKSession /\ LogInv /\ OrderInv /\ [Next]_vars => OrderInv'
<1> SUFFICES ASSUME TypeOKSession, LogInv, OrderInv, [Next]_vars PROVE OrderInv'
  OBVIOUS
<1>0. /\ Now \in Nat
      /\ Wanted \subseteq Objects
      /\ \A o \in Objects : /\ cluster[o].rv \in 0..Now
                            /\ shown[o] \in 0..Now /\ batch[o] \in 0..Now
      /\ rv \in 0..Now /\ pos \in 0..Now
  BY QueryShape, SMTT(30) DEF TypeOKSession, Now
<1>a. ASSUME UNCHANGED <<query, cluster, shown, batch>>,
             phase' \in {"refetch", "connect"} => batch = NoBatch,
             phase' \in {"connect", "watching", "options"} => phase' = phase /\ UNCHANGED <<rv, pos>>
      PROVE  OrderInv'
  <2>1. Wanted' = Wanted
    BY <1>a DEF Wanted
  <2> QED
    BY <1>a, <2>1 DEF OrderInv
<1>1. CASE RunE
  BY <1>a, <1>1 DEF RunE, Return, watch_vars, cluster_vars
<1>2. CASE Fetch
  <2>1. UNCHANGED <<cluster, shown, phase, query>> /\ phase = "listing" /\ batch = NoBatch
    BY <1>2 DEF Fetch, cluster_vars
  <2>2. \A o \in Objects : batch'[o] = 0 \/ batch'[o] = cluster[o].rv
    BY <1>2, <2>1 DEF Fetch, Fetched, NoBatch
  <2> QED
    BY <1>0, <2>1, <2>2 DEF OrderInv
<1>3. CASE PrintObject
  <2>1. PICK o \in Objects : /\ batch[o] # 0
                            /\ shown' = [shown EXCEPT ![o] = batch[o]]
                            /\ batch' = [batch EXCEPT ![o] = 0]
    BY <1>3 DEF PrintObject
  <2>2. UNCHANGED <<cluster, phase, query, rv, pos>> /\ phase \in {"listing", "watching"}
    BY <1>3 DEF PrintObject, cluster_vars, watch_vars
  <2>3. \A x \in Objects : /\ shown'[x] = IF x = o THEN batch[x] ELSE shown[x]
                           /\ batch'[x] = IF x = o THEN 0 ELSE batch[x]
    BY <2>1 DEF TypeOKSession
  <2>4. Wanted' = Wanted
    BY <2>2 DEF Wanted
  <2> QED
    BY <1>0, <2>2, <2>3, <2>4 DEF OrderInv
<1>4. CASE EndListing
  BY <1>a, <1>4 DEF EndListing, Return, watch_vars, cluster_vars
<1>5. CASE runWatch
  BY <1>a, <1>5 DEF runWatch, Listed, watch_vars, cluster_vars
<1>6. CASE Refetch
  <2>1. CASE phase' = "ended"
    BY <1>a, <1>6, <2>1 DEF Refetch, cluster_vars
  <2>2. CASE phase' # "ended"
    <3>1. /\ rv' = CommonVersion /\ phase' = "connect" /\ phase = "refetch"
          /\ UNCHANGED <<query, cluster, shown, batch>>
      BY <1>6, <2>2 DEF Refetch, Return, cluster_vars
    <3>2. Len(query) = 1 /\ rv' # 0 => \A o \in Wanted : cluster[o].rv <= rv'
      BY <3>1, CommonVersionShape
    <3>3. Len(query) = 1 /\ rv' # 0 => \A o \in Wanted : shown[o] <= rv'
      <4> SUFFICES ASSUME Len(query) = 1, rv' # 0, NEW o \in Wanted
                   PROVE  shown[o] <= rv'
        OBVIOUS
      <4>1. shown[o] <= cluster[o].rv /\ cluster[o].rv <= rv'
        BY <1>0, <3>2 DEF OrderInv
      <4>2. rv' \in Nat
        BY <1>0, <3>1, CommonVersionShape
      <4> QED
        BY <1>0, <4>1, <4>2
    <3>4. Wanted' = Wanted
      BY <3>1 DEF Wanted
    <3> QED
      BY <3>1, <3>3, <3>4 DEF OrderInv
  <2> QED
    BY <2>1, <2>2
<1>7. CASE Connect
  <2>1. CASE phase' = "ended"
    BY <1>a, <1>7, <2>1 DEF Connect, cluster_vars
  <2>2. CASE phase' # "ended"
    <3>1. /\ Len(query) = 1 /\ phase = "connect" /\ phase' = "watching"
          /\ pos' = WatchFrom
          /\ batch' = IF rv = 0 THEN Fetched(Found(query[1])) ELSE NoBatch
          /\ UNCHANGED <<query, cluster, shown, rv>>
      BY <1>7, <2>2 DEF Connect, Return, cluster_vars
    <3>2. \A o \in Objects : batch'[o] = 0 \/ batch'[o] = cluster[o].rv
      BY <3>1 DEF Fetched, NoBatch
    <3>3. Wanted' = Wanted
      BY <3>1 DEF Wanted
    <3>4. CASE rv = 0
      <4>1. pos' = Now
        BY <3>1, <3>4 DEF WatchFrom
      <4>2. \A o \in Wanted : shown[o] <= pos' /\ batch'[o] <= pos'
        BY <1>0, <3>2, <4>1
      <4> QED
        BY <1>0, <3>1, <3>2, <3>3, <4>2 DEF OrderInv
    <3>5. CASE rv # 0
      <4>1. pos' = rv /\ batch' = NoBatch
        BY <3>1, <3>5 DEF WatchFrom
      <4>2. \A o \in Wanted : shown[o] <= pos' /\ batch'[o] <= pos'
        BY <1>0, <3>1, <3>5, <4>1 DEF OrderInv, NoBatch
      <4> QED
        BY <1>0, <3>1, <3>2, <3>3, <4>2 DEF OrderInv
    <3> QED
      BY <3>4, <3>5
  <2> QED
    BY <2>1, <2>2
<1>8. CASE Deliver
  <2>1. /\ phase = "watching" /\ batch = NoBatch /\ pos < Now /\ pos' = pos + 1
        /\ UNCHANGED <<query, cluster, batch, phase, rv>>
    BY <1>8 DEF Deliver, cluster_vars
  <2>2. Wanted' = Wanted
    BY <2>1 DEF Wanted
  <2>3. pos + 1 \in 1..Now /\ pos + 1 <= cluster[history[pos + 1]].rv
    BY <1>0, <2>1 DEF LogInv
  <2>4. \A o \in Objects : shown'[o] = IF o = history[pos + 1] /\ o \in Wanted
                                       THEN pos + 1 ELSE shown[o]
    BY <1>8 DEF Deliver, TypeOKSession
  <2>5. \A o \in Objects : batch[o] = 0
    BY <2>1 DEF NoBatch
  <2>6. \A o \in Objects : shown'[o] <= cluster[o].rv
    BY <2>3, <2>4 DEF OrderInv
  <2>7. \A o \in Wanted : shown'[o] <= pos + 1
    BY <1>0, <2>1, <2>4 DEF OrderInv
  <2> QED
    BY <1>0, <2>1, <2>2, <2>5, <2>6, <2>7 DEF OrderInv
<1>9. CASE WatchEnds
  BY <1>a, <1>9 DEF WatchEnds, Return, cluster_vars
<1>10. CASE Change
  <2>1. PICK o \in Objects, exists \in BOOLEAN :
           cluster' = [cluster EXCEPT ![o] = [rv |-> Now + 1, exists |-> exists]]
    BY <1>10 DEF Change
  <2>2. UNCHANGED <<query, shown, batch, phase, rv, pos>>
    BY <1>10 DEF Change, watch_vars
  <2>3. \A x \in Objects : cluster'[x].rv >= cluster[x].rv /\ cluster'[x].rv \in Nat
    BY <1>0, <2>1 DEF TypeOKSession
  <2>4. \A x \in Objects : shown[x] <= cluster'[x].rv /\ batch[x] <= cluster'[x].rv
    BY <1>0, <2>3 DEF OrderInv
  <2>5. Wanted' = Wanted
    BY <2>2 DEF Wanted
  <2> QED
    BY <2>2, <2>4, <2>5 DEF OrderInv
<1>11. CASE UNCHANGED vars
  BY <1>a, <1>11 DEF vars, OrderInv
<1> QED
  BY <1>1, <1>2, <1>3, <1>4, <1>5, <1>6, <1>7, <1>8, <1>9, <1>10, <1>11 DEF Next, Command

LEMMA VersionsInit == Init => LogInv /\ OrderInv
<1> SUFFICES ASSUME Init PROVE LogInv /\ OrderInv
  OBVIOUS
<1>1. Now = 0
  BY DEF Init, Now
<1>2. LogInv
  BY <1>1 DEF Init, LogInv
<1>3. OrderInv
  BY DEF Init, OrderInv, NoBatch
<1> QED
  BY <1>2, <1>3

THEOREM SessionInvariant == Spec => [](TypeOKSession /\ LogInv /\ OrderInv)
BY TypeInit, TypeNext, VersionsInit, LogNext, OrderNext, PTL DEF Spec

(***************************************************************************)
(* What is printed of an object never goes back in time.                   *)
(***************************************************************************)
LEMMA NoStepBack ==
    TypeOKSession /\ LogInv /\ OrderInv /\ [Next]_vars =>
        [\A o \in Objects : shown'[o] >= shown[o]]_vars
<1> SUFFICES ASSUME TypeOKSession, LogInv, OrderInv, [Next]_vars
             PROVE  vars' # vars => \A o \in Objects : shown'[o] >= shown[o]
  OBVIOUS
<1>0. \A o \in Objects : shown[o] \in 0..Now /\ batch[o] \in 0..Now
  BY DEF TypeOKSession
<1>1. CASE UNCHANGED shown
  BY <1>0, <1>1, QueryShape DEF TypeOKSession, Now
<1>2. CASE PrintObject
  <2>1. PICK o \in Objects : batch[o] # 0 /\ shown' = [shown EXCEPT ![o] = batch[o]]
    BY <1>2 DEF PrintObject
  <2>2. \A x \in Objects : shown'[x] = IF x = o THEN batch[x] ELSE shown[x]
    BY <2>1 DEF TypeOKSession
  <2> QED
    BY <1>0, <2>1, <2>2 DEF OrderInv
<1>3. CASE Deliver
  <2>1. phase = "watching" /\ pos \in 0..Now
    BY <1>3 DEF Deliver, TypeOKSession
  <2>2. \A o \in Objects : shown'[o] = IF o = history[pos + 1] /\ o \in Wanted
                                       THEN pos + 1 ELSE shown[o]
    BY <1>3 DEF Deliver, TypeOKSession
  <2> QED
    BY <1>0, <2>1, <2>2 DEF OrderInv
<1> QED
  BY <1>1, <1>2, <1>3 DEF Next, Command, RunE, Fetch, EndListing, runWatch, Refetch,
     Connect, WatchEnds, Change, vars

THEOREM PagesNeverGoBack == Spec => NeverBackwards
BY SessionInvariant, NoStepBack, PTL DEF Spec, NeverBackwards

-----------------------------------------------------------------------------
(***************************************************************************)
(* Nothing is lost between the second fetch and the watch, nor after.      *)
(***************************************************************************)
LEMMA WatchNext ==
    TypeOKSession /\ LogInv /\ OrderInv /\ WatchInv /\ [Next]_vars => WatchInv'
<1> SUFFICES ASSUME TypeOKSession, LogInv, OrderInv, WatchInv, [Next]_vars
             PROVE  WatchInv'
  OBVIOUS
<1>0. /\ Now \in Nat
      /\ Wanted \subseteq Objects
      /\ \A o \in Objects : /\ cluster[o].rv \in 0..Now
                            /\ shown[o] \in 0..Now /\ batch[o] \in 0..Now
      /\ rv \in 0..Now /\ pos \in 0..Now /\ fetchedAt \in 0..Now
  BY QueryShape DEF TypeOKSession, Now
<1>a. ASSUME phase' \notin {"connect", "watching"}
      PROVE  WatchInv'
  BY <1>a DEF WatchInv, NothingLost
<1>b. CASE RunE \/ Fetch \/ EndListing \/ runWatch \/ WatchEnds
  BY <1>a, <1>b DEF RunE, Fetch, EndListing, runWatch, WatchEnds, Return
<1>1. CASE Refetch
  <2>1. CASE phase' = "ended"
    BY <1>a, <2>1
  <2>2. CASE phase' # "ended"
    <3>1. phase' = "connect" /\ rv' = CommonVersion /\ fetchedAt' = Now
      BY <1>1, <2>2 DEF Refetch, Return
    <3>2. rv' <= fetchedAt'
      BY <1>0, <3>1, CommonVersionShape
    <3> QED
      BY <3>1, <3>2 DEF WatchInv, NothingLost
  <2> QED
    BY <2>1, <2>2
<1>2. CASE Connect
  <2>1. CASE phase' = "ended"
    BY <1>a, <2>1
  <2>2. CASE phase' # "ended"
    <3>1. /\ Len(query) = 1 /\ phase = "connect" /\ phase' = "watching"
          /\ pos' = WatchFrom
          /\ batch' = IF rv = 0 THEN Fetched(Found(query[1])) ELSE NoBatch
          /\ UNCHANGED <<query, cluster, shown, rv, fetchedAt>>
      BY <1>2, <2>2 DEF Connect, Return, cluster_vars
    <3>2. rv <= fetchedAt
      BY <3>1 DEF WatchInv
    <3>3. Wanted = query[1].names /\ Wanted' = Wanted
      BY <3>1, QueryShape DEF Wanted
    <3>4. CASE rv # 0
      <4>1. pos' = rv
        BY <3>1, <3>4 DEF WatchFrom
      <4>2. \A o \in Wanted : cluster[o].rv \notin (fetchedAt + 1)..pos'
        BY <1>0, <3>2, <4>1
      <4> QED
        BY <3>1, <3>2, <3>3, <4>2 DEF WatchInv, NothingLost
    <3>5. CASE rv = 0
      <4>1. \A o \in Wanted : cluster[o].exists => batch'[o] = cluster[o].rv
        BY <1>0, <3>1, <3>3, <3>5 DEF Fetched, Found
      <4> QED
        BY <3>1, <3>2, <3>3, <3>5, <4>1 DEF WatchInv, NothingLost
    <3> QED
      BY <3>4, <3>5
  <2> QED
    BY <2>1, <2>2
<1>3. CASE PrintObject
  <2>1. PICK o \in Objects : /\ batch[o] # 0
                            /\ shown' = [shown EXCEPT ![o] = batch[o]]
                            /\ batch' = [batch EXCEPT ![o] = 0]
    BY <1>3 DEF PrintObject
  <2>2. UNCHANGED <<cluster, phase, query, rv, pos, fetchedAt>>
    BY <1>3 DEF PrintObject, cluster_vars, watch_vars
  <2>3. \A x \in Objects : /\ shown'[x] = IF x = o THEN batch[x] ELSE shown[x]
                           /\ batch'[x] = IF x = o THEN 0 ELSE batch[x]
    BY <2>1 DEF TypeOKSession
  <2>4. Wanted' = Wanted
    BY <2>2 DEF Wanted
  <2>5. ASSUME NEW x \in Wanted, cluster[x].rv \in {shown[x], batch[x]}
        PROVE  cluster[x].rv \in {shown'[x], batch'[x]}
    <3>1. CASE x = o
      BY <1>0, <2>1, <2>3, <2>5, <3>1 DEF OrderInv
    <3>2. CASE x # o
      BY <1>0, <2>3, <2>5, <3>2
    <3> QED
      BY <3>1, <3>2
  <2> QED
    BY <2>2, <2>4, <2>5 DEF WatchInv, NothingLost
<1>4. CASE Deliver
  <2>1. /\ phase = "watching" /\ batch = NoBatch /\ pos < Now /\ pos' = pos + 1
        /\ UNCHANGED <<query, cluster, batch, phase, rv, fetchedAt>>
    BY <1>4 DEF Deliver, cluster_vars
  <2>2. Wanted' = Wanted
    BY <2>1 DEF Wanted
  <2>3. pos + 1 \in 1..Now /\ pos + 1 <= cluster[history[pos + 1]].rv
    BY <1>0, <2>1 DEF LogInv
  <2>4. \A o \in Objects : shown'[o] = IF o = history[pos + 1] /\ o \in Wanted
                                       THEN pos + 1 ELSE shown[o]
    BY <1>4 DEF Deliver, TypeOKSession
  <2>5. ASSUME NEW o \in Wanted,
               cluster[o].rv \in (fetchedAt + 1)..(pos + 1),
               cluster[o].exists \/ rv # 0
        PROVE  cluster[o].rv \in {shown'[o], batch[o]}
    <3>1. CASE cluster[o].rv = pos + 1
      <4>1. history[pos + 1] = o
        BY <1>0, <3>1 DEF LogInv
      <4> QED
        BY <1>0, <2>4, <3>1, <4>1
    <3>2. CASE cluster[o].rv # pos + 1
      <4>1. cluster[o].rv \in (fetchedAt + 1)..pos
        BY <1>0, <2>5, <3>2
      <4>2. cluster[o].rv \in {shown[o], batch[o]}
        BY <2>1, <2>5, <4>1 DEF WatchInv, NothingLost
      <4>3. o # history[pos + 1]
        BY <1>0, <2>3, <4>1
      <4> QED
        BY <1>0, <2>4, <4>2, <4>3
    <3> QED
      BY <3>1, <3>2
  <2> QED
    BY <2>1, <2>2, <2>5 DEF WatchInv, NothingLost
<1>5. CASE Change
  <2>1. PICK o \in Objects, exists \in BOOLEAN :
           cluster' = [cluster EXCEPT ![o] = [rv |-> Now + 1, exists |-> exists]]
    BY <1>5 DEF Change
  <2>2. UNCHANGED <<query, shown, batch, phase, rv, pos, fetchedAt>>
    BY <1>5 DEF Change, watch_vars
  <2>3. /\ cluster'[o].rv = Now + 1
        /\ \A x \in Objects \ {o} : cluster'[x] = cluster[x]
    BY <2>1 DEF TypeOKSession
  <2>4. cluster'[o].rv \notin (fetchedAt + 1)..pos
    BY <1>0, <2>3
  <2>5. Wanted' = Wanted
    BY <2>2 DEF Wanted
  <2> QED
    BY <1>0, <2>2, <2>3, <2>4, <2>5 DEF WatchInv, NothingLost
<1>6. CASE UNCHANGED vars
  BY <1>6 DEF vars, WatchInv, NothingLost, Wanted
<1> QED
  BY <1>b, <1>1, <1>2, <1>3, <1>4, <1>5, <1>6 DEF Next, Command

THEOREM WatchLosesNothing == Spec => []NothingLost
<1>1. Init => WatchInv
  BY DEF Init, WatchInv, NothingLost
<1>2. WatchInv => NothingLost
  BY DEF WatchInv
<1> QED
  BY <1>1, <1>2, WatchNext, SessionInvariant, PTL DEF Spec

-----------------------------------------------------------------------------
(***************************************************************************)
(* The listing.  While it runs, an object of a source that was answered is *)
(* printed or about to be; afterwards it is printed.                       *)
(***************************************************************************)
Settled(o) == cluster[o].exists /\ cluster[o].rv <= startedAt

Past == phase \in {"refetch", "connect", "watching"} \/ exit \in {"ok", "error"}

ListingInv ==
    /\ phase = "listing" =>
          \A i \in DOMAIN query \ failures : i < source =>
              \A o \in query[i].names : Settled(o) => cluster[o].rv \in {shown[o], batch[o]}
    /\ Past =>
          \A i \in DOMAIN query \ failures : \A o \in query[i].names :
              Settled(o) => shown[o] = cluster[o].rv
    /\ phase = "options" => source = 1
    /\ phase # "ended" => exit = "none"
    /\ phase \notin {"listing", "ended"} => failures = {}
    /\ Past /\ failures # {} => exit = "error"

LEMMA ListingNext ==
    TypeOKSession /\ LogInv /\ OrderInv /\ ListingInv /\ [Next]_vars => ListingInv'
<1> SUFFICES ASSUME TypeOKSession, LogInv, OrderInv, ListingInv, [Next]_vars
             PROVE  ListingInv'
  OBVIOUS
<1>0. /\ Now \in Nat /\ Len(query) \in Nat /\ DOMAIN query = 1..Len(query)
      /\ source \in 1..(Len(query) + 1)
      /\ \A i \in DOMAIN query : query[i].names \subseteq Objects
      /\ \A o \in Objects : /\ cluster[o].rv \in 0..Now
                            /\ shown[o] \in 0..Now /\ batch[o] \in 0..Now
      /\ startedAt \in 0..Now
  BY QueryShape DEF TypeOKSession, Now, Sources
\* A step after the listing that prints nothing and changes no object.
<1>a. ASSUME UNCHANGED <<query, cluster, shown, failures, startedAt>>,
             Past, phase' \notin {"listing", "options"},
             phase' # "ended" => exit' = "none",
             failures # {} => exit' = exit
      PROVE  ListingInv'
  <2>1. phase' \notin {"listing", "ended"} => failures' = {}
    BY <1>a DEF ListingInv, Past
  <2>2. failures # {} => exit = "error"
    BY <1>a DEF ListingInv
  <2> QED
    BY <1>a, <2>1, <2>2 DEF ListingInv, Settled, Past
<1>1. CASE RunE
  <2>1. /\ phase = "options" /\ source = 1 /\ failures = {} /\ exit = "none"
        /\ UNCHANGED <<source, failures>>
    BY <1>1 DEF RunE, ListingInv
  <2>2. CASE phase' = "ended"
    BY <1>1, <2>1, <2>2 DEF RunE, Return, ListingInv, Past
  <2>3. CASE phase' # "ended"
    <3>1. phase' = "listing" /\ exit' = "none" /\ UNCHANGED query
      BY <1>1, <2>1, <2>3 DEF RunE, Return
    <3>2. \A i \in DOMAIN query : ~(i < 1)
      BY <1>0
    <3> QED
      BY <2>1, <3>1, <3>2 DEF ListingInv, Past
  <2> QED
    BY <2>2, <2>3
<1>2. CASE Fetch
  <2>1. /\ phase = "listing" /\ batch = NoBatch /\ source \in DOMAIN query
        /\ source' = source + 1 /\ exit = "none"
        /\ UNCHANGED <<query, cluster, shown, startedAt, phase, exit>>
    BY <1>2 DEF Fetch, NextSource, ListingInv, cluster_vars
  <2>2. failures \subseteq failures' /\ failures' \subseteq failures \cup {source}
    BY <1>2 DEF Fetch
  <2>3. ASSUME NEW i \in DOMAIN query \ failures', i < source + 1,
               NEW o \in query[i].names, Settled(o)
        PROVE  cluster[o].rv \in {shown[o], batch'[o]}
    <3>1. cluster[o].rv # 0 /\ o \in Objects
      BY <1>0, <2>3 DEF LogInv, Settled
    <3>2. CASE i < source
      <4>1. cluster[o].rv \in {shown[o], batch[o]}
        BY <2>1, <2>2, <2>3, <3>2 DEF ListingInv
      <4> QED
        BY <2>1, <3>1, <4>1 DEF NoBatch
    <3>3. CASE i = source
      <4>1. batch' = Fetched(Found(query[source]))
        BY <1>2, <2>3, <3>3 DEF Fetch
      <4> QED
        BY <2>3, <3>1, <3>3, <4>1 DEF Fetched, Found, Settled
    <3> QED
      BY <1>0, <2>3, <3>2, <3>3
  <2>4. \A o : Settled(o)' = Settled(o)
    BY <2>1 DEF Settled
  <2> QED
    BY <2>1, <2>3, <2>4 DEF ListingInv, Past
<1>3. CASE PrintObject
  <2>1. PICK o \in Objects : /\ batch[o] # 0
                            /\ shown' = [shown EXCEPT ![o] = batch[o]]
                            /\ batch' = [batch EXCEPT ![o] = 0]
    BY <1>3 DEF PrintObject
  <2>2. UNCHANGED <<cluster, phase, query, failures, startedAt, source, exit>>
    BY <1>3 DEF PrintObject, cluster_vars
  <2>3. \A x \in Objects : /\ shown'[x] = IF x = o THEN batch[x] ELSE shown[x]
                           /\ batch'[x] = IF x = o THEN 0 ELSE batch[x]
    BY <2>1 DEF TypeOKSession
  <2>4. shown[o] <= batch[o] /\ batch[o] <= cluster[o].rv
    BY <2>1 DEF OrderInv
  <2>5. ASSUME NEW x \in Objects, cluster[x].rv \in {shown[x], batch[x]}
        PROVE  cluster[x].rv \in {shown'[x], batch'[x]}
    <3>1. CASE x = o
      BY <1>0, <2>1, <2>3, <2>4, <2>5, <3>1
    <3>2. CASE x # o
      BY <2>3, <2>5, <3>2
    <3> QED
      BY <3>1, <3>2
  <2>6. ASSUME NEW x \in Objects, shown[x] = cluster[x].rv
        PROVE  shown'[x] = cluster[x].rv
    <3>1. CASE x = o
      BY <1>0, <2>1, <2>3, <2>4, <2>6, <3>1
    <3>2. CASE x # o
      BY <2>3, <2>6, <3>2
    <3> QED
      BY <3>1, <3>2
  <2>7. \A x : Settled(x)' = Settled(x)
    BY <2>2 DEF Settled
  <2> QED
    BY <1>0, <2>2, <2>5, <2>6, <2>7 DEF ListingInv, Past
<1>4. CASE EndListing \/ runWatch
  <2>1. /\ phase = "listing" /\ batch = NoBatch /\ source \notin DOMAIN query
        /\ exit = "none"
        /\ UNCHANGED <<query, cluster, shown, failures, startedAt>>
    BY <1>4 DEF EndListing, runWatch, Listed, ListingInv, cluster_vars
  <2>2. \A i \in DOMAIN query : i < source
    BY <1>0, <2>1
  <2>3. ASSUME NEW i \in DOMAIN query \ failures, NEW o \in query[i].names, Settled(o)
        PROVE  shown[o] = cluster[o].rv
    <3>1. cluster[o].rv # 0 /\ o \in Objects
      BY <1>0, <2>3 DEF LogInv, Settled
    <3>2. cluster[o].rv \in {shown[o], batch[o]}
      BY <2>1, <2>2, <2>3 DEF ListingInv
    <3> QED
      BY <2>1, <3>1, <3>2 DEF NoBatch
  <2>4. phase' \in {"refetch", "ended"} /\ (phase' # "ended" => exit' = "none" /\ failures = {})
    BY <1>4, <2>1 DEF EndListing, runWatch, Return
  <2>5. failures # {} => exit' = "error"
    BY <1>4 DEF EndListing, runWatch, Return
  <2>6. \A o : Settled(o)' = Settled(o)
    BY <2>1 DEF Settled
  <2> QED
    BY <2>1, <2>3, <2>4, <2>5, <2>6 DEF ListingInv, Past
<1>5. CASE Refetch \/ Connect
  <2>1. /\ phase \in {"refetch", "connect"} /\ phase' \in {"connect", "watching", "ended"}
        /\ UNCHANGED <<query, cluster, shown, failures, startedAt>>
        /\ phase' # "ended" => exit' = exit
    BY <1>5 DEF Refetch, Connect, Return, cluster_vars
  <2>2. exit = "none" /\ failures = {}
    BY <2>1 DEF ListingInv
  <2> QED
    BY <1>a, <2>1, <2>2 DEF Past
<1>6. CASE WatchEnds
  <2>1. /\ phase = "watching" /\ phase' = "ended"
        /\ UNCHANGED <<query, cluster, shown, failures, startedAt>>
    BY <1>6 DEF WatchEnds, Return, cluster_vars
  <2>2. failures = {}
    BY <2>1 DEF ListingInv
  <2> QED
    BY <1>a, <2>1, <2>2 DEF Past
<1>7. CASE Deliver
  <2>1. /\ phase = "watching" /\ pos \in 0..Now /\ pos < Now
        /\ UNCHANGED <<query, cluster, phase, failures, startedAt, exit>>
    BY <1>7 DEF Deliver, cluster_vars, TypeOKSession
  <2>2. pos + 1 \in 1..Now /\ pos + 1 <= cluster[history[pos + 1]].rv
    BY <1>0, <2>1 DEF LogInv
  <2>3. \A o \in Objects : shown'[o] = IF o = history[pos + 1] /\ o \in Wanted
                                       THEN pos + 1 ELSE shown[o]
    BY <1>7 DEF Deliver, TypeOKSession
  <2>4. ASSUME NEW o \in Objects, shown[o] = cluster[o].rv
        PROVE  shown'[o] = cluster[o].rv
    <3>1. CASE o = history[pos + 1] /\ o \in Wanted
      <4>1. shown[o] <= pos
        BY <2>1, <3>1 DEF OrderInv
      <4> QED
        BY <1>0, <2>1, <2>2, <2>4, <3>1, <4>1
    <3>2. CASE ~(o = history[pos + 1] /\ o \in Wanted)
      BY <2>3, <2>4, <3>2
    <3> QED
      BY <3>1, <3>2
  <2>5. \A x : Settled(x)' = Settled(x)
    BY <2>1 DEF Settled
  <2> QED
    BY <1>0, <2>1, <2>4, <2>5 DEF ListingInv, Past
<1>8. CASE Change
  <2>1. PICK o \in Objects, exists \in BOOLEAN :
           cluster' = [cluster EXCEPT ![o] = [rv |-> Now + 1, exists |-> exists]]
    BY <1>8 DEF Change
  <2>2. UNCHANGED <<query, shown, batch, phase, source, failures, exit, startedAt>>
    BY <1>8 DEF Change
  <2>3. /\ cluster'[o].rv = Now + 1
        /\ \A x \in Objects \ {o} : cluster'[x] = cluster[x]
    BY <2>1 DEF TypeOKSession
  <2>4. \A x \in Objects : Settled(x)' => x # o /\ Settled(x) /\ cluster'[x] = cluster[x]
    BY <1>0, <2>2, <2>3 DEF Settled
  <2> QED
    BY <1>0, <2>2, <2>4 DEF ListingInv, Past
<1>9. CASE UNCHANGED vars
  BY <1>9 DEF vars, ListingInv, Settled, Past
<1> QED
  BY <1>1, <1>2, <1>3, <1>4, <1>5, <1>6, <1>7, <1>8, <1>9 DEF Next, Command

\* A source that fails costs nothing but itself, and is reported.
THEOREM ListingIsComplete == Spec => []ListingComplete
<1>1. Init => ListingInv
  BY DEF Init, ListingInv, Past
<1>2. ListingInv => ListingComplete
  BY DEF ListingInv, ListingComplete, Settled, Past
<1> QED
  BY <1>1, <1>2, ListingNext, SessionInvariant, PTL DEF Spec

=============================================================================
