--------------------------- MODULE Invocations_proof ---------------------------
(***************************************************************************)
(* checkErr returns to every invocation its own error, for any number of   *)
(* concurrent invocations, and the invocations refine independent ones.    *)
(***************************************************************************)
EXTENDS Invocations, TLAPS

Critical == {"install", "consume", "restore", "unlock"}

\* The mutex is held exactly by the invocation inside the critical section.
Mutex == \A p \in Proc : pc[p] \in Critical <=> fatalMu = p

\* What each location knows of the stage, its error and the outcome.
Progress ==
    \A p \in Proc :
        /\ pc[p] # "done" <=> outcome[p] = "running"
        /\ pc[p] # "done" => fails[p] = 0 \/ stage[p] <= fails[p]
        /\ pc[p] = "render" => stage[p] = 3
        /\ pc[p] \in Critical \cup {"lock"} => err[p] = p /\ stage[p] = fails[p]
        /\ pc[p] \in {"restore", "unlock"} => out[p] = p

IInv ==
    /\ TypeOKInvocations
    /\ Mutex
    /\ HandlerScoped
    /\ Progress
    /\ OwnError

-----------------------------------------------------------------------------
(* The invariant holds initially: nobody is in checkErr (main.go:136).     *)
LEMMA InitIInv == InitInvocations => IInv
  BY ProcAssumption
  DEF InitInvocations, IInv, TypeOKInvocations, Mutex, HandlerScoped, Progress,
      OwnError, Critical, Locations, Stages, nil

(* A function that succeeds sends RunE to its next stage or to its end, and *)
(* one that fails sends it to checkErr (main.go:112-123, 142-146).          *)
LEMMA StageReturnsIInv ==
  ASSUME NEW p \in Proc, IInv, StageReturns(p, Result(p)), pc[p] \in {"work", "render"},
         UNCHANGED <<out, fatalMu, fatalErrHandler, color, noColor, printed>>
  PROVE  IInv'
  <1>1. CASE stage[p] = fails[p]
    <2>1. /\ err' = [err EXCEPT ![p] = p]
          /\ pc' = [pc EXCEPT ![p] = "lock"]
          /\ UNCHANGED <<fails, stage, outcome>>
      BY <1>1, ProcAssumption DEF StageReturns, Result, Go, nil
    <2> QED
      BY <2>1, <1>1, ProcAssumption
      DEF IInv, TypeOKInvocations, Mutex, HandlerScoped, Progress, OwnError, Critical,
          Locations, Stages, nil
  <1>2. CASE stage[p] # fails[p] /\ stage[p] < 3
    <2>1. /\ err' = [err EXCEPT ![p] = nil]
          /\ stage' = [stage EXCEPT ![p] = @ + 1]
          /\ pc' = [pc EXCEPT ![p] = "work"]
          /\ UNCHANGED <<fails, outcome>>
      BY <1>2, ProcAssumption
      DEF StageReturns, Result, NextStage, Go, nil, Stages, IInv, TypeOKInvocations
    <2> QED
      BY <2>1, <1>2, ProcAssumption
      DEF IInv, TypeOKInvocations, Mutex, HandlerScoped, Progress, OwnError, Critical,
          Locations, Stages, nil
  <1>3. CASE stage[p] # fails[p] /\ stage[p] = 3
    <2>1. /\ err' = [err EXCEPT ![p] = nil]
          /\ outcome' = [outcome EXCEPT ![p] = "ok"]
          /\ pc' = [pc EXCEPT ![p] = "done"]
          /\ UNCHANGED <<fails, stage>>
      BY <1>3, ProcAssumption
      DEF StageReturns, Result, NextStage, Go, nil, Stages, IInv, TypeOKInvocations
    <2>2. fails[p] = 0
      BY <1>3 DEF IInv, TypeOKInvocations, Progress, Stages
    <2> QED
      BY <2>1, <2>2, <1>3, ProcAssumption
      DEF IInv, TypeOKInvocations, Mutex, HandlerScoped, Progress, OwnError, Critical,
          Locations, Stages, nil
  <1> QED
    BY <1>1, <1>2, <1>3 DEF IInv, TypeOKInvocations, Stages

(* Every step keeps the invariant: a stage that returns, the color switch   *)
(* and the prints of Run, and the five steps of checkErr (main.go:110-159). *)
LEMMA NextIInv == IInv /\ [NextInvocations]_vars => IInv'
  <1> SUFFICES ASSUME IInv, [NextInvocations]_vars PROVE IInv'
    OBVIOUS
  <1> USE ProcAssumption DEF nil
  <1>1. ASSUME NEW p \in Proc, CompleteOrValidate(p) PROVE IInv'
    BY <1>1, StageReturnsIInv DEF CompleteOrValidate, At, lockVars, colorVars
  <1>2. ASSUME NEW p \in Proc, RunReturns(p) PROVE IInv'
    BY <1>2, StageReturnsIInv DEF RunReturns, At, lockVars, colorVars
  <1>3. ASSUME NEW p \in Proc, RunSetsColor(p) PROVE IInv'
    <2>1. noColor' \in BOOLEAN
      BY <1>3 DEF RunSetsColor, IInv, TypeOKInvocations
    <2>2. /\ pc[p] = "work" /\ stage[p] = 3
          /\ pc' = [pc EXCEPT ![p] = "render"]
          /\ UNCHANGED <<fails, stage, outcome, err, out, fatalMu, fatalErrHandler,
                         color, printed>>
      BY <1>3 DEF RunSetsColor, At, Go, lockVars
    <2> QED
      BY <2>1, <2>2
      DEF IInv, TypeOKInvocations, Mutex, HandlerScoped, Progress, OwnError, Critical,
          Locations
  <1>4. ASSUME NEW p \in Proc, RunPrints(p) PROVE IInv'
    BY <1>4
    DEF RunPrints, At, lockVars, IInv, TypeOKInvocations, Mutex, HandlerScoped,
        Progress, OwnError
  <1>5. ASSUME NEW p \in Proc, Lock(p) PROVE IInv'
    BY <1>5
    DEF Lock, At, Go, colorVars, IInv, TypeOKInvocations, Mutex, HandlerScoped,
        Progress, OwnError, Critical, Locations
  <1>6. ASSUME NEW p \in Proc, BehaviorOnFatal(p) PROVE IInv'
    BY <1>6
    DEF BehaviorOnFatal, At, Go, colorVars, IInv, TypeOKInvocations, Mutex,
        HandlerScoped, Progress, OwnError, Critical, Locations
  <1>7. ASSUME NEW p \in Proc, CheckErr(p) PROVE IInv'
    <2>1. fatalErrHandler = p /\ err[p] = p
      BY <1>7 DEF CheckErr, At, IInv, HandlerScoped, Progress, Critical
    <2>2. /\ out' = [out EXCEPT ![p] = p]
          /\ pc' = [pc EXCEPT ![p] = "restore"]
          /\ UNCHANGED <<fails, stage, outcome, err, fatalMu, fatalErrHandler, color,
                         noColor, printed>>
      BY <1>7, <2>1 DEF CheckErr, Go, lockVars, colorVars
    <2> QED
      BY <1>7, <2>1, <2>2
      DEF CheckErr, At, IInv, TypeOKInvocations, Mutex, HandlerScoped, Progress,
          OwnError, Critical, Locations
  <1>8. ASSUME NEW p \in Proc, DefaultBehaviorOnFatal(p) PROVE IInv'
    BY <1>8
    DEF DefaultBehaviorOnFatal, At, Go, colorVars, IInv, TypeOKInvocations, Mutex,
        HandlerScoped, Progress, OwnError, Critical, Locations
  <1>9. ASSUME NEW p \in Proc, Unlock(p) PROVE IInv'
    <2>1. out[p] = p /\ stage[p] = fails[p] /\ fatalMu = p /\ fatalErrHandler = "default"
      BY <1>9
      DEF Unlock, At, IInv, TypeOKInvocations, Mutex, HandlerScoped, Progress, Critical
    <2>2. /\ outcome' = [outcome EXCEPT ![p] = p]
          /\ pc' = [pc EXCEPT ![p] = "done"]
          /\ fatalMu' = "free"
          /\ UNCHANGED <<fails, stage, err, out, fatalErrHandler, color, noColor, printed>>
      BY <1>9, <2>1 DEF Unlock, Go, colorVars
    <2> QED
      BY <2>1, <2>2
      DEF IInv, TypeOKInvocations, Mutex, HandlerScoped, Progress, OwnError, Critical,
          Locations, Stages
  <1>10. CASE UNCHANGED vars
    BY <1>10
    DEF vars, IInv, TypeOKInvocations, Mutex, HandlerScoped, Progress, OwnError
  <1> QED
    BY <1>1, <1>2, <1>3, <1>4, <1>5, <1>6, <1>7, <1>8, <1>9, <1>10
    DEF NextInvocations, Step

(* The inductive invariant holds of every behaviour of the invocations      *)
(* (cmd/main.go:110-159).                                                   *)
THEOREM InvocationsInvariant == SpecInvocations => []IInv
  BY InitIInv, NextIInv, PTL DEF SpecInvocations

(* No invocation ends the process, and every variable stays in its range    *)
(* (main.go:138-141: checkErr never lets CheckErr exit).                    *)
THEOREM InvocationsTypeOK == SpecInvocations => []TypeOKInvocations
  BY InvocationsInvariant, PTL DEF IInv

(* The fatal handler never leaks out of checkErr (main.go:148-149).         *)
THEOREM HandlerIsScoped == SpecInvocations => []HandlerScoped
  BY InvocationsInvariant, PTL DEF IInv

(* Each invocation returns its own error, and only if it failed             *)
(* (main.go:133-135), however many run at once.                             *)
THEOREM EachGetsItsOwnError == SpecInvocations => []OwnError
  BY InvocationsInvariant, PTL DEF IInv

-----------------------------------------------------------------------------
(* A step of the concurrent invocations is a step of the independent ones   *)
(* or none: only the return of a stage's function and the last step of      *)
(* checkErr (main.go:158) show outside.                                     *)
Shown == [p \in Proc |-> IF outcome[p] = p THEN "failed" ELSE outcome[p]]
outside == <<fails, stage, Shown>>

LEMMA StepRefinement ==
  IInv /\ [NextInvocations]_vars => [Alone!Next]_outside
  <1> SUFFICES ASSUME IInv, NextInvocations PROVE [Alone!Next]_outside
    BY DEF vars, outside, Shown
  <1> USE ProcAssumption DEF nil
  <1>0. \A p \in Proc : Shown[p] = IF outcome[p] = p THEN "failed" ELSE outcome[p]
    BY DEF Shown
  <1>1. ASSUME NEW p \in Proc, StageReturns(p, Result(p)), pc[p] \in {"work", "render"}
        PROVE  [Alone!Next]_outside
    <2>1. CASE stage[p] = fails[p]
      BY <1>1, <2>1 DEF StageReturns, Result, Go, outside, Shown
    <2>2. CASE stage[p] # fails[p] /\ stage[p] + 1 \in Stages
      <3>1. stage' = [stage EXCEPT ![p] = @ + 1] /\ UNCHANGED <<fails, outcome>>
        BY <1>1, <2>2 DEF StageReturns, Result, NextStage
      <3>2. Shown' = Shown
        BY <3>1 DEF Shown
      <3>3. Shown[p] = "running"
        BY <1>0, <1>1 DEF IInv, Progress
      <3>4. Alone!Succeed(p)
        BY <2>2, <3>1, <3>2, <3>3 DEF Alone!Succeed, Alone!Stages, Stages, Shown
      <3> QED
        BY <3>4 DEF Alone!Next
    <2>3. CASE stage[p] # fails[p] /\ stage[p] + 1 \notin Stages
      <3>1. outcome' = [outcome EXCEPT ![p] = "ok"] /\ UNCHANGED <<fails, stage>>
        BY <1>1, <2>3 DEF StageReturns, Result, NextStage
      <3>2. Shown' = [Shown EXCEPT ![p] = "ok"]
        BY <3>1 DEF Shown, IInv, TypeOKInvocations
      <3>3. Shown[p] = "running"
        BY <1>0, <1>1 DEF IInv, Progress
      <3>4. Alone!Succeed(p)
        BY <2>3, <3>1, <3>2, <3>3 DEF Alone!Succeed, Alone!Stages, Stages, Shown
      <3> QED
        BY <3>4 DEF Alone!Next
    <2> QED
      BY <2>1, <2>2, <2>3
  <1>2. ASSUME NEW p \in Proc, CheckErr(p) PROVE UNCHANGED <<fails, stage, outcome>>
    BY <1>2 DEF CheckErr, At, IInv, HandlerScoped
  <1>3. ASSUME NEW p \in Proc, Unlock(p) PROVE Alone!ReturnError(p)
    <2>1. outcome' = [outcome EXCEPT ![p] = p] /\ UNCHANGED <<fails, stage>>
      BY <1>3 DEF Unlock, At, IInv, Progress, Critical
    <2>2. Shown' = [Shown EXCEPT ![p] = "failed"]
      BY <2>1 DEF Shown, IInv, TypeOKInvocations
    <2>3. Shown[p] = "running" /\ stage[p] = fails[p]
      BY <1>0, <1>3 DEF Unlock, At, IInv, Progress, Critical
    <2> QED
      BY <2>1, <2>2, <2>3 DEF Alone!ReturnError, Shown
  <1>4. ASSUME NEW p \in Proc, CompleteOrValidate(p) \/ RunReturns(p)
        PROVE  [Alone!Next]_outside
    BY <1>4, <1>1 DEF CompleteOrValidate, RunReturns, At
  <1>5. ASSUME NEW p \in Proc, \/ RunSetsColor(p) \/ RunPrints(p) \/ Lock(p)
                               \/ BehaviorOnFatal(p) \/ DefaultBehaviorOnFatal(p)
        PROVE  UNCHANGED <<fails, stage, outcome>>
    BY <1>5 DEF RunSetsColor, RunPrints, Lock, BehaviorOnFatal, DefaultBehaviorOnFatal
  <1>6. UNCHANGED <<fails, stage, outcome>> => UNCHANGED outside
    BY DEF outside, Shown
  <1> QED
    BY <1>2, <1>3, <1>4, <1>5, <1>6 DEF NextInvocations, Step, Alone!Next

(* RootCmd keeps its promise (main.go:81-83) as far as outcomes go:         *)
(* concurrent invocations implement independent ones.                       *)
THEOREM Refinement == SpecInvocations => ImplementsIndependent
  <1>1. InitInvocations => Alone!Init
    BY ProcAssumption DEF InitInvocations, Alone!Init, Alone!Stages, Stages
  <1>2. IInv /\ [NextInvocations]_vars
          => [Alone!Next]_<<fails, stage, [p \in Proc |-> IF outcome[p] = p THEN "failed"
                                                                             ELSE outcome[p]]>>
    BY StepRefinement DEF outside, Shown
  <1> QED
    BY <1>1, <1>2, InvocationsInvariant, PTL
    DEF SpecInvocations, ImplementsIndependent, Alone!Spec
-----------------------------------------------------------------------------
(* While an invocation with an explicit --color prints, the global is as it *)
(* asked (plugin.go:28-34): what ColorWithoutConflict lacks to be inductive. *)
Unopposed(p) == color[p] # "auto" /\ \A q \in Proc : color[q] \in {"auto", color[p]}
ColorInv ==
    \A p \in Proc : Unopposed(p) =>
        /\ pc[p] = "render" => noColor = (color[p] = "never")
        /\ printed[p] \subseteq {color[p] = "never"}

(* Run alone writes the global (plugin.go:28-34), as asked or as no one      *)
(* objects to; checkErr does not touch it.                                  *)
LEMMA NextColorInv == TypeOKInvocations /\ ColorInv /\ [NextInvocations]_vars => ColorInv'
  <1> SUFFICES ASSUME TypeOKInvocations, ColorInv, [NextInvocations]_vars,
                      NEW p \in Proc, Unopposed(p)'
               PROVE  (/\ pc[p] = "render" => noColor = (color[p] = "never")
                       /\ printed[p] \subseteq {color[p] = "never"})'
    BY DEF ColorInv
  <1>1. UNCHANGED color
    BY DEF NextInvocations, Step, CompleteOrValidate, RunSetsColor, RunPrints, RunReturns,
           Lock, BehaviorOnFatal, CheckErr, DefaultBehaviorOnFatal, Unlock, vars, colorVars
  <1>2. /\ Unopposed(p)
        /\ pc[p] = "render" => noColor = (color[p] = "never")
        /\ printed[p] \subseteq {color[p] = "never"}
    BY <1>1 DEF ColorInv, Unopposed
  <1>3. ASSUME NEW q \in Proc, RunSetsColor(q)
        PROVE  /\ printed' = printed
               /\ pc'[p] = "render" => noColor' = (color[p] = "never")
    <2>1. color[q] \in {"auto", color[p]} /\ color[p] \in {"always", "never"}
      BY <1>2 DEF Unopposed, TypeOKInvocations
    <2>2. CASE color[q] = "auto"
      <3>1. q # p
        BY <2>2, <1>2 DEF Unopposed
      <3> QED
        BY <1>3, <2>2, <3>1, <1>2 DEF RunSetsColor, Go, TypeOKInvocations
    <2>3. CASE color[q] = "always"
      BY <1>3, <2>1, <2>3 DEF RunSetsColor
    <2>4. CASE color[q] = "never"
      BY <1>3, <2>1, <2>4 DEF RunSetsColor
    <2> QED
      BY <2>1, <2>2, <2>3, <2>4
  <1>4. ASSUME NEW q \in Proc, RunPrints(q)
        PROVE  /\ noColor' = noColor /\ pc' = pc
               /\ printed'[p] \subseteq {color[p] = "never"}
    <2>1. CASE q = p
      BY <1>4, <1>2, <2>1 DEF RunPrints, At, TypeOKInvocations
    <2>2. CASE q # p
      BY <1>4, <1>2, <2>2 DEF RunPrints, TypeOKInvocations
    <2> QED
      BY <1>4, <2>1, <2>2 DEF RunPrints
  <1>5. ASSUME NEW q \in Proc,
               \/ CompleteOrValidate(q) \/ RunReturns(q) \/ Lock(q) \/ BehaviorOnFatal(q)
               \/ CheckErr(q) \/ DefaultBehaviorOnFatal(q) \/ Unlock(q)
        PROVE  /\ UNCHANGED <<noColor, printed>>
               /\ pc'[p] = "render" => pc[p] = "render"
    <2>1. UNCHANGED <<noColor, printed>>
      BY <1>5 DEF CompleteOrValidate, RunReturns, Lock, BehaviorOnFatal, CheckErr,
                  DefaultBehaviorOnFatal, Unlock, colorVars
    <2>2. CASE CompleteOrValidate(q) \/ RunReturns(q)
      BY <2>1, <2>2 DEF CompleteOrValidate, RunReturns, StageReturns, NextStage, Go,
                  TypeOKInvocations
    <2>3. CASE Lock(q) \/ BehaviorOnFatal(q) \/ DefaultBehaviorOnFatal(q)
      BY <2>1, <2>3 DEF Lock, BehaviorOnFatal, DefaultBehaviorOnFatal, Go, TypeOKInvocations
    <2>4. CASE CheckErr(q)
      BY <2>1, <2>4 DEF CheckErr, Go, TypeOKInvocations
    <2>5. CASE Unlock(q)
      BY <2>1, <2>5 DEF Unlock, Go, TypeOKInvocations
    <2> QED
      BY <1>5, <2>1, <2>2, <2>3, <2>4, <2>5
  <1>6. CASE UNCHANGED vars
    BY <1>6, <1>2 DEF vars
  <1> QED
    BY <1>1, <1>2, <1>3, <1>4, <1>5, <1>6 DEF NextInvocations, Step

(* --color=always and --color=never are honoured in every piece of output   *)
(* as long as no other invocation asks for the opposite (plugin.go:28-34).  *)
THEOREM ColorHonoured == SpecInvocations => []ColorWithoutConflict
  <1>1. InitInvocations => ColorInv
    BY DEF InitInvocations, ColorInv
  <1>2. ColorInv => ColorWithoutConflict
    BY DEF ColorInv, ColorWithoutConflict, Unopposed
  <1> QED
    BY <1>1, <1>2, NextColorInv, InvocationsTypeOK, PTL DEF SpecInvocations
=============================================================================
