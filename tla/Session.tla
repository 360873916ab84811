-------------------------------- MODULE Session --------------------------------
(***************************************************************************)
(* One command against a cluster that keeps changing: the settings         *)
(* (complete and validate in cmd/main.go), the listing and the watch (Run  *)
(* and runWatch in pkg/plugin/plugin.go).                                  *)
(*                                                                         *)
(* The cluster is an event log: version n is the n-th change, and history  *)
(* [n] is the object it changed.  Rendering one object (module Render) is  *)
(* the single step of printing a version of it; shown remembers the last   *)
(* version printed of each object, and 0 stands for none.                  *)
(*                                                                         *)
(* Objects read from local manifests have no versions and nothing to       *)
(* watch, and are not part of this module.                                 *)
(***************************************************************************)
EXTENDS Integers, Sequences

CONSTANTS
    Objects,            \* the objects a query may be about
    Includes,           \* the --include-* settings
    OnByDefault,        \* those whose flag defaults to true
    Requests,           \* the settings commands are started with
    Queries,            \* the queries commands are started with
    MaxVersion          \* bound on the number of changes

VARIABLES
    history,    \* the object changed by each version
    cluster,    \* the version an object was last changed by, and if it exists
    given,      \* the settings as the user gave them
    query,      \* the sources the arguments name
    viper,      \* the settings as the program sees them
    phase,      \* how far Run has come
    source,     \* the next source results.Visit will fetch
    batch,      \* versions fetched and still to be printed
    failures,   \* sources whose listing failed
    shown,      \* the last version printed of each object
    rv,         \* the version runWatch asks to watch from, 0 for ""
    pos,        \* the version the watch has come to
    exit,       \* what the command returned
    startedAt,  \* history: the version when the listing began
    fetchedAt   \* history: the version when runWatch fetched the objects again

cluster_vars == <<history, cluster>>
watch_vars   == <<rv, pos, fetchedAt>>
vars == <<history, cluster, given, query, viper, phase, source, batch, failures,
          shown, rv, pos, exit, startedAt, fetchedAt>>

Flags    == {"shallow", "deep", "watch", "watching"}
Keys     == Includes \cup Flags
Setting  == [set : BOOLEAN, value : BOOLEAN]
Versions == 0..MaxVersion

\* A source is an object asked for by name, or all objects of a type.
Sources  == [named : BOOLEAN, names : SUBSET Objects]

Default(key) == [set |-> FALSE, value |-> key \in OnByDefault]

ASSUME SessionAssumption ==
    /\ OnByDefault \subseteq Includes
    /\ Includes \cap Flags = {}
    /\ Requests \subseteq [Keys -> Setting]
    /\ \A r \in Requests, k \in Keys : r[k].set \/ r[k] = Default(k)
    /\ \A r \in Requests : r["watching"] = Default("watching")
    /\ Queries \subseteq Seq(Sources)
    /\ \A q \in Queries : \A i \in DOMAIN q :
          q[i].named => \E o \in Objects : q[i].names = {o}
    /\ MaxVersion \in Nat

-----------------------------------------------------------------------------
(***************************************************************************)
(* The cluster.  Its version is the number of changes so far.  Changes are *)
(* of interest while the command lasts.                                    *)
(***************************************************************************)
Now == Len(history)

Change ==
    \E o \in Objects, exists \in BOOLEAN :
        /\ Now < MaxVersion /\ phase # "ended"
        /\ exists \/ cluster[o].exists
        /\ history' = Append(history, o)
        /\ cluster' = [cluster EXCEPT ![o] = [rv |-> Now + 1, exists |-> exists]]
        /\ UNCHANGED <<given, query, viper, phase, source, batch, failures, shown,
                       exit, startedAt, watch_vars>>

Found(src) == {o \in src.names : cluster[o].exists}

\* The versions a request for the objects of a set is answered with.
Fetched(S) == [o \in Objects |-> IF o \in S THEN cluster[o].rv ELSE 0]

Wanted == UNION {query[i].names : i \in DOMAIN query}

-----------------------------------------------------------------------------
(***************************************************************************)
(* The settings.  A setting is "set" when a flag, the environment or a     *)
(* call of Set gave it a value.  A value from the environment is a string, *)
(* which the loops of complete pass over; it was explicit, so they would   *)
(* have kept it.                                                           *)
(***************************************************************************)
GetBool(v, key) == v[key].value
IsSet(v, key) == v[key].set
Set(v, S, value) ==
    [k \in Keys |-> IF k \in S THEN [set |-> TRUE, value |-> value] ELSE v[k]]

allowExplicitIncludesOnly(v) ==
    Set(v, {k \in Includes : ~(IsSet(v, k) /\ GetBool(v, k))}, FALSE)

\* Mutation: a setting that is false by default is taken for an explicit one.
enableTrueIncludes(v) == Set(v, {k \in Includes : GetBool(v, k)}, TRUE)
enableAllIncludes(v) ==
    Set(v, {k \in Includes : ~(IsSet(v, k) /\ ~GetBool(v, k))}, TRUE)

complete(v) ==
    LET s == IF GetBool(v, "shallow") THEN allowExplicitIncludesOnly(v) ELSE v
    IN  IF GetBool(s, "deep") THEN enableAllIncludes(s) ELSE s

validate(v) == ~(GetBool(v, "shallow") /\ GetBool(v, "deep"))

-----------------------------------------------------------------------------
(***************************************************************************)
(* The command.                                                            *)
(***************************************************************************)
NoBatch == [o \in Objects |-> 0]

Return(result) == phase' = "ended" /\ exit' = result

\* RunE up to the start of the listing; complete fails without a namespace.
RunE ==
    /\ phase = "options"
    /\ \/ /\ Return("usage")
          /\ UNCHANGED <<viper, startedAt>>
       \/ /\ viper' = complete(viper)
          /\ startedAt' = Now
          /\ IF validate(viper')
             THEN phase' = "listing" /\ UNCHANGED exit
             ELSE Return("usage")
    /\ UNCHANGED <<given, query, source, batch, failures, shown, watch_vars, cluster_vars>>

\* results.Visit fetches one source and prints its objects, then the next
\* one.  It goes on after a failure, and returns the errors together.
\* Mutation: the first failure ends the listing.
StopAtFailure(failed) == IF failed THEN Len(query) + 1 ELSE source + 1
\* Mutation: a source that fails is tried again.
TryAgain(failed) == IF failed THEN source ELSE source + 1
NextSource(failed) == source + 1

Fetch ==
    /\ phase = "listing" /\ batch = NoBatch
    /\ source \in DOMAIN query
    /\ \/ /\ query[source].named => Found(query[source]) # {}
          /\ batch' = Fetched(Found(query[source]))
          /\ source' = NextSource(FALSE)
          /\ UNCHANGED failures
       \/ /\ failures' = failures \cup {source}
          /\ source' = NextSource(TRUE)
          /\ UNCHANGED batch
    /\ UNCHANGED <<given, query, viper, phase, shown, exit, startedAt, watch_vars, cluster_vars>>

\* processObj on one of the objects fetched.
PrintObject ==
    /\ phase \in {"listing", "watching"}
    /\ \E o \in Objects :
          /\ batch[o] # 0
          /\ shown' = [shown EXCEPT ![o] = batch[o]]
          /\ batch' = [batch EXCEPT ![o] = 0]
    /\ UNCHANGED <<given, query, viper, phase, source, failures, exit, startedAt,
                   watch_vars, cluster_vars>>

Listed == phase = "listing" /\ batch = NoBatch /\ source \notin DOMAIN query

\* Run after results.Visit.
EndListing ==
    /\ Listed
    /\ failures # {} \/ ~GetBool(viper, "watch")
    /\ Return(IF failures # {} \/ \A o \in Objects : shown[o] = 0 THEN "error" ELSE "ok")
    /\ UNCHANGED <<given, query, viper, source, batch, failures, shown, startedAt,
                   watch_vars, cluster_vars>>

runWatch ==
    /\ Listed
    /\ failures = {} /\ GetBool(viper, "watch")
    /\ viper' = Set(viper, {"shallow", "watching"}, TRUE)
    /\ phase' = "refetch"
    /\ UNCHANGED <<given, query, source, batch, failures, shown, exit, startedAt,
                   watch_vars, cluster_vars>>

\* results.Object fetches everything once more.  The version of a named
\* object is its own, that of a list is the cluster's when the list was
\* answered; an empty list, or sources of several versions, have none.
CommonVersion ==
    IF Len(query) # 1 \/ Found(query[1]) = {} THEN 0
    ELSE IF query[1].named THEN CHOOSE n \in Versions : \E o \in query[1].names : n = cluster[o].rv
         ELSE Now

Refetch ==
    /\ phase = "refetch"
    /\ \/ /\ Return("error")
          /\ UNCHANGED watch_vars
       \/ /\ \A i \in DOMAIN query : query[i].named => Found(query[i]) # {}
          /\ rv' = CommonVersion
          /\ fetchedAt' = Now
          /\ phase' = "connect"
          /\ UNCHANGED <<pos, exit>>
    /\ UNCHANGED <<given, query, viper, source, batch, failures, shown, startedAt, cluster_vars>>

\* results.Watch, which accepts a single source only.  A watch from no
\* version begins with the objects that exist.
\* Mutations: the watch ignores the version it is to start from; it asks for
\* the oldest events there are; it starts one version late.
WatchFromNow == Now
WatchFromZero == IF rv = 0 THEN Now ELSE 0
WatchAfter    == IF rv = 0 THEN Now + 1 ELSE rv + 1
WatchFrom == IF rv = 0 THEN Now ELSE rv

Connect ==
    /\ phase = "connect"
    /\ \/ /\ Return("error")
          /\ UNCHANGED <<pos, batch>>
       \/ /\ Len(query) = 1
          /\ phase' = "watching"
          /\ pos' = WatchFrom
          /\ batch' = IF rv = 0 THEN Fetched(Found(query[1])) ELSE NoBatch
          /\ UNCHANGED exit
    /\ UNCHANGED <<given, query, viper, source, failures, shown, startedAt, rv, fetchedAt,
                   cluster_vars>>

\* The callback of UntilWithoutRetry prints the object of every event, of a
\* deletion too.  Changes of other objects are passed over by the server.
Deliver ==
    /\ phase = "watching" /\ batch = NoBatch
    /\ pos < Now
    /\ pos' = pos + 1
    /\ shown' = IF history[pos + 1] \in Wanted
                THEN [shown EXCEPT ![history[pos + 1]] = pos + 1] ELSE shown
    /\ UNCHANGED <<given, query, viper, phase, source, batch, failures, exit, startedAt, rv,
                   fetchedAt, cluster_vars>>

\* The channel closes, possibly after an ERROR event whose Status is rendered
\* as any object would be, and runWatch drops the error; or Ctrl-C, on which
\* the handler ends the process.
WatchEnds ==
    /\ phase = "watching"
    /\ \E result \in {"ok", "interrupted"} : Return(result)
    /\ UNCHANGED <<given, query, viper, source, batch, failures, shown, startedAt,
                   watch_vars, cluster_vars>>

-----------------------------------------------------------------------------
Init ==
    /\ history = <<>>
    /\ cluster = [o \in Objects |-> [rv |-> 0, exists |-> FALSE]]
    /\ given \in Requests
    /\ viper = given
    /\ query \in Queries
    /\ phase = "options"
    /\ source = 1
    /\ batch = NoBatch
    /\ failures = {}
    /\ shown = NoBatch
    /\ rv = 0 /\ pos = 0
    /\ exit = "none"
    /\ startedAt = 0 /\ fetchedAt = 0

Command == \/ RunE \/ Fetch \/ PrintObject \/ EndListing \/ runWatch \/ Refetch \/ Connect
           \/ Deliver

Next == Command \/ WatchEnds \/ Change

\* The program does not block but on the API server, and the server answers
\* each request and delivers each event in the end.  It need never close the
\* watch, and the cluster need not change.
Spec == Init /\ [][Next]_vars /\ WF_vars(Command)

-----------------------------------------------------------------------------
(***************************************************************************)
(* Properties.                                                             *)
(***************************************************************************)
Phases == {"options", "listing", "refetch", "connect", "watching", "ended"}

TypeOKSession ==
    /\ history \in Seq(Objects) /\ Now <= MaxVersion
    /\ cluster \in [Objects -> [rv : 0..Now, exists : BOOLEAN]]
    /\ given \in Requests
    /\ viper \in [Keys -> Setting]
    /\ query \in Queries
    /\ phase \in Phases
    /\ source \in 1..(Len(query) + 1)
    /\ batch \in [Objects -> 0..Now]
    /\ failures \subseteq DOMAIN query
    /\ shown \in [Objects -> 0..Now]
    /\ rv \in 0..Now /\ pos \in 0..Now
    /\ startedAt \in 0..Now /\ fetchedAt \in 0..Now
    /\ exit \in {"none", "ok", "error", "usage", "interrupted"}

(***************************************************************************)
(* An --include-* setting the user gave is never overruled, neither by     *)
(* --shallow nor by --deep; all others follow --shallow and --deep, or     *)
(* keep their defaults (allowExplicitIncludesOnly, enableAllIncludes).     *)
(***************************************************************************)
SettingsAsAsked ==
    phase \notin {"options", "ended"} =>
        \A k \in Includes :
            GetBool(viper, k) = IF IsSet(given, k) THEN GetBool(given, k)
                                ELSE /\ ~GetBool(given, "shallow")
                                     /\ GetBool(given, "deep") \/ k \in OnByDefault

(***************************************************************************)
(* What is printed of an object never goes back in time: the watch does    *)
(* not repeat states that the listing, or the watch itself, has passed.    *)
(***************************************************************************)
NeverBackwards == [][\A o \in Objects : shown'[o] >= shown[o]]_vars

(***************************************************************************)
(* Nothing is lost between the second fetch of runWatch and the events of  *)
(* the watch, nor afterwards: a change the watch has passed has been       *)
(* printed or is about to be.  A watch from no version owes nothing for    *)
(* objects that vanished before it began.                                  *)
(***************************************************************************)
NothingLost ==
    phase = "watching" =>
        \A o \in Wanted :
            /\ cluster[o].rv \in (fetchedAt + 1)..pos
            /\ cluster[o].exists \/ rv # 0
            => cluster[o].rv \in {shown[o], batch[o]}

(***************************************************************************)
(* A source that fails costs nothing but itself: an object that stayed as  *)
(* it was since the listing began is printed if any source that names it   *)
(* was answered, and the command does not end without the error.           *)
(***************************************************************************)
ListingComplete ==
    phase \in {"refetch", "connect", "watching"} \/ exit \in {"ok", "error"} =>
        /\ \A i \in DOMAIN query \ failures : \A o \in query[i].names :
              cluster[o].exists /\ cluster[o].rv <= startedAt => shown[o] = cluster[o].rv
        /\ failures # {} => exit = "error"

(***************************************************************************)
(* A command ends, or comes to watch with nothing left to print.           *)
(***************************************************************************)
UpToDate == phase = "watching" /\ batch = NoBatch /\ pos = Now
CommandProgresses == phase # "ended" ~> phase = "ended" \/ UpToDate

=============================================================================
