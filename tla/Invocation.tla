------------------------------ MODULE Invocation ------------------------------
(***************************************************************************)
(* What RootCmd promises of invocations that run in one process (the       *)
(* parallel e2e tests do): each is as if it ran alone.  RunE goes through  *)
(* its stages in order; the first stage that fails decides the error the   *)
(* invocation returns, and that error is its own.                          *)
(***************************************************************************)
EXTENDS Naturals

CONSTANT Proc       \* the invocations

VARIABLES
    fails,      \* fails[p]: the first stage of p to fail, 0 if none does
    stage,      \* stage[p]: the stage of RunE p is at
    outcome     \* outcome[p]: "running", "ok", or "failed"

\* complete, validate, plugin.Run
Stages == 1..3

Init ==
    /\ fails \in [Proc -> Stages \cup {0}]
    /\ stage = [p \in Proc |-> 1]
    /\ outcome = [p \in Proc |-> "running"]

Succeed(p) ==
    /\ outcome[p] = "running" /\ stage[p] # fails[p]
    /\ IF stage[p] + 1 \in Stages
       THEN stage' = [stage EXCEPT ![p] = @ + 1] /\ UNCHANGED outcome
       ELSE outcome' = [outcome EXCEPT ![p] = "ok"] /\ UNCHANGED stage
    /\ UNCHANGED fails

ReturnError(p) ==
    /\ outcome[p] = "running" /\ stage[p] = fails[p]
    /\ outcome' = [outcome EXCEPT ![p] = "failed"]
    /\ UNCHANGED <<fails, stage>>

Next == \E p \in Proc : Succeed(p) \/ ReturnError(p)

Spec == Init /\ [][Next]_<<fails, stage, outcome>>

=============================================================================
