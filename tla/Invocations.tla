------------------------------ MODULE Invocations ------------------------------
(***************************************************************************)
(* Invocations of RootCmd running concurrently in one process: the stages  *)
(* of RunE, and checkErr, which borrows the process-global fatal handler   *)
(* of cmdutil under fatalMu (cmd/main.go); and the process-global switch   *)
(* of the color library (pkg/plugin/plugin.go).                            *)
(***************************************************************************)
EXTENDS Naturals

CONSTANT Proc       \* the invocations

\* The error an invocation returns is told from the others' by the invocation
\* it belongs to: outcome[p] = q says that p returned the text of q's error.
ASSUME ProcAssumption ==
    Proc \cap {"running", "ok", "exited", "failed", "nil", "free", "default"} = {}

VARIABLES
    fails,      \* fails[p]: the first stage of p to fail, 0 if none does
    stage,      \* stage[p]: the stage of RunE p is at
    outcome,    \* outcome[p]: "running", what it returned, or "exited"
    color,      \* color[p]: the --color setting
    pc,         \* where each invocation is
    err,        \* err[p]: what the stage's function returned
    out,        \* out[p]: the variable checkErr's closure sets
    fatalMu,    \* the holder of the mutex, or "free"
    fatalErrHandler,    \* whose closure is installed, or "default": os.Exit
    noColor,    \* color.NoColor
    printed     \* printed[p]: the values of NoColor p's output was written with

lockVars == <<fatalMu, fatalErrHandler>>
colorVars == <<color, noColor, printed>>
vars == <<fails, stage, outcome, color, pc, err, out, fatalMu, fatalErrHandler, noColor, printed>>

nil == "nil"

\* complete, validate, plugin.Run
Stages == 1..3

Locations == {"work", "render", "lock", "install", "consume", "restore", "unlock", "done"}

At(p, l)  == pc[p] = l
Go(p, l)  == pc' = [pc EXCEPT ![p] = l]

-----------------------------------------------------------------------------
\* checkErr(nil) returns nil: RunE goes on, or has come to its end.
NextStage(p) ==
    /\ IF stage[p] + 1 \in Stages
       THEN /\ stage' = [stage EXCEPT ![p] = @ + 1]
            /\ Go(p, "work")
            /\ UNCHANGED outcome
       ELSE /\ outcome' = [outcome EXCEPT ![p] = "ok"]
            /\ Go(p, "done")
            /\ UNCHANGED stage
    /\ UNCHANGED fails

\* The function of the stage returns e, which goes to checkErr.
StageReturns(p, e) ==
    /\ err' = [err EXCEPT ![p] = e]
    /\ IF e = nil THEN NextStage(p) ELSE Go(p, "lock") /\ UNCHANGED <<fails, stage, outcome>>

\* What the function of p's stage returns.
Result(p) == IF stage[p] = fails[p] THEN p ELSE nil

CompleteOrValidate(p) ==
    /\ At(p, "work") /\ stage[p] < 3
    /\ StageReturns(p, Result(p))
    /\ UNCHANGED <<out, lockVars, colorVars>>

\* plugin.Run begins by setting the global, unless the setting is "auto".
\* Mutation: "auto" sets it, too, to what fits the output.
RunResetsColor(p) ==
    /\ At(p, "work") /\ stage[p] = 3
    /\ noColor' = (color[p] # "always")
    /\ Go(p, "render")
    /\ UNCHANGED <<fails, stage, outcome, err, out, lockVars, color, printed>>
RunSetsColor(p) ==
    /\ At(p, "work") /\ stage[p] = 3
    /\ noColor' = CASE color[p] = "always" -> FALSE
                    [] color[p] = "never"  -> TRUE
                    [] OTHER               -> noColor
    /\ Go(p, "render")
    /\ UNCHANGED <<fails, stage, outcome, err, out, lockVars, color, printed>>

\* A piece of output reads the global anew.
RunPrints(p) ==
    /\ At(p, "render")
    /\ printed' = [printed EXCEPT ![p] = @ \cup {noColor}]
    /\ UNCHANGED <<fails, stage, outcome, pc, err, out, lockVars, color, noColor>>

RunReturns(p) ==
    /\ At(p, "render")
    /\ StageReturns(p, Result(p))
    /\ UNCHANGED <<out, lockVars, colorVars>>

-----------------------------------------------------------------------------
(***************************************************************************)
(* checkErr with an error.                                                 *)
(***************************************************************************)

\* Mutation: the handler is installed without waiting for the mutex.
LockNothing(p) ==
    /\ At(p, "lock")
    /\ fatalMu' = p
    /\ out' = [out EXCEPT ![p] = nil]
    /\ Go(p, "install")
    /\ UNCHANGED <<fails, stage, outcome, err, fatalErrHandler, colorVars>>

Lock(p) ==
    /\ At(p, "lock")
    /\ fatalMu = "free"
    /\ fatalMu' = p
    /\ out' = [out EXCEPT ![p] = nil]
    /\ Go(p, "install")
    /\ UNCHANGED <<fails, stage, outcome, err, fatalErrHandler, colorVars>>

BehaviorOnFatal(p) ==
    /\ At(p, "install")
    /\ fatalErrHandler' = p
    /\ Go(p, "consume")
    /\ UNCHANGED <<fails, stage, outcome, err, out, fatalMu, colorVars>>

\* CheckErr calls the handler that is installed now.  The default one ends the
\* process: no invocation takes another step.
CheckErr(p) ==
    /\ At(p, "consume")
    /\ IF fatalErrHandler = "default"
       THEN /\ outcome' = [q \in Proc |-> IF outcome[q] = "running" THEN "exited"
                                                                   ELSE outcome[q]]
            /\ pc' = [q \in Proc |-> "done"]
            /\ UNCHANGED out
       ELSE /\ out' = [out EXCEPT ![fatalErrHandler] = err[p]]
            /\ Go(p, "restore")
            /\ UNCHANGED outcome
    /\ UNCHANGED <<fails, stage, err, lockVars, colorVars>>

\* The deferred calls run last in, first out, after the result is taken: the
\* default handler is back before the mutex is free.
\* Mutation: the handler is not restored.
KeepHandler(p) ==
    /\ At(p, "restore")
    /\ Go(p, "unlock")
    /\ UNCHANGED <<fails, stage, outcome, err, out, lockVars, colorVars>>

DefaultBehaviorOnFatal(p) ==
    /\ At(p, "restore")
    /\ fatalErrHandler' = "default"
    /\ Go(p, "unlock")
    /\ UNCHANGED <<fails, stage, outcome, err, out, fatalMu, colorVars>>

\* Mutation: a return that skips Unlock.
ReturnLocked(p) ==
    /\ At(p, "unlock")
    /\ outcome' = [outcome EXCEPT ![p] = IF out[p] = nil THEN err[p] ELSE out[p]]
    /\ Go(p, "done")
    /\ UNCHANGED <<fails, stage, err, out, lockVars, colorVars>>

\* Mutation: RunE drops what checkErr returns.
UnlockAndGoOn(p) ==
    /\ At(p, "unlock")
    /\ fatalMu' = "free"
    /\ NextStage(p)
    /\ UNCHANGED <<err, out, fatalErrHandler, colorVars>>

Unlock(p) ==
    /\ At(p, "unlock")
    /\ fatalMu' = "free"
    /\ outcome' = [outcome EXCEPT ![p] = IF out[p] = nil THEN err[p] ELSE out[p]]
    /\ Go(p, "done")
    /\ UNCHANGED <<fails, stage, err, out, fatalErrHandler, colorVars>>

-----------------------------------------------------------------------------
InitInvocations ==
    /\ fails \in [Proc -> Stages \cup {0}]
    /\ stage = [p \in Proc |-> 1]
    /\ outcome = [p \in Proc |-> "running"]
    /\ color \in [Proc -> {"auto", "always", "never"}]
    /\ pc = [p \in Proc |-> "work"]
    /\ err = [p \in Proc |-> nil]
    /\ out = [p \in Proc |-> nil]
    /\ fatalMu = "free"
    /\ fatalErrHandler = "default"
    /\ noColor = TRUE       \* output is not a terminal
    /\ printed = [p \in Proc |-> {}]

Step(p) ==
    \/ CompleteOrValidate(p) \/ RunSetsColor(p) \/ RunReturns(p)
    \/ Lock(p) \/ BehaviorOnFatal(p) \/ CheckErr(p)
    \/ DefaultBehaviorOnFatal(p) \/ Unlock(p)

NextInvocations == \E p \in Proc : Step(p) \/ RunPrints(p)

\* Each invocation is a goroutine of its own, which the Go scheduler keeps
\* running.  Weak fairness is enough for the mutex too: each invocation holds it
\* at most once, so it is free for good once the others are through.
SpecInvocations ==
    /\ InitInvocations
    /\ [][NextInvocations]_vars
    /\ \A p \in Proc : WF_vars(Step(p))

-----------------------------------------------------------------------------
(***************************************************************************)
(* Properties.                                                             *)
(***************************************************************************)
\* In particular the process is never torn down ("exited").
TypeOKInvocations ==
    /\ fails \in [Proc -> Stages \cup {0}]
    /\ stage \in [Proc -> Stages]
    /\ outcome \in [Proc -> {"running", "ok"} \cup Proc]
    /\ color \in [Proc -> {"auto", "always", "never"}]
    /\ pc \in [Proc -> Locations]
    /\ err \in [Proc -> {nil} \cup Proc]
    /\ out \in [Proc -> {nil} \cup Proc]
    /\ fatalMu \in Proc \cup {"free"}
    /\ fatalErrHandler \in Proc \cup {"default"}
    /\ noColor \in BOOLEAN
    /\ printed \in [Proc -> SUBSET BOOLEAN]

(***************************************************************************)
(* The handler is the process's default whenever no invocation is inside   *)
(* checkErr's critical section, and between install and restore it is the  *)
(* handler of the invocation that is there: it never leaks into an         *)
(* unrelated call (main.go:128-141).                                       *)
(***************************************************************************)
HandlerScoped ==
    /\ fatalErrHandler # "default" =>
          fatalErrHandler = fatalMu /\ pc[fatalErrHandler] \in {"consume", "restore"}
    /\ \A p \in Proc : pc[p] \in {"consume", "restore"} => fatalErrHandler = p

\* An invocation returns an error exactly when one of its stages failed, and
\* then its own, never that of a concurrent invocation (main.go:133-135).
OwnError ==
    \A p \in Proc : outcome[p] # "running" => outcome[p] = IF fails[p] = 0 THEN "ok" ELSE p

\* Concurrent invocations behave as the independent ones of Invocation: to one
\* of those an error is only its own, and the handler, the mutex and the steps
\* of checkErr are not seen (main.go:83, 128-141).
Alone == INSTANCE Invocation WITH
            outcome <- [p \in Proc |-> IF outcome[p] = p THEN "failed" ELSE outcome[p]]

ImplementsIndependent == Alone!Spec

\* Every invocation returns, however they contend for fatalMu.
EveryInvocationReturns == \A p \in Proc : <>(outcome[p] # "running")

(***************************************************************************)
(* main.go:83: "concurrent invocations (e.g. parallel tests) never share   *)
(* mutable state".  Of color.NoColor, which they do share, that much is    *)
(* true: whoever asked for --color=always or never gets it in every piece  *)
(* of output, unless another invocation asks for the opposite.             *)
(***************************************************************************)
ColorWithoutConflict ==
    \A p \in Proc :
        color[p] # "auto" /\ (\A q \in Proc : color[q] \in {"auto", color[p]})
            => printed[p] \subseteq {color[p] = "never"}

=============================================================================
