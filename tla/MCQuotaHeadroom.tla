---------------------------- MODULE MCQuotaHeadroom ----------------------------
(***************************************************************************)
(* Two replicas of a small or a big template, and quotas on the limits of  *)
(* memory, on requests for it, with a scope, and on the number of Pods.    *)
(***************************************************************************)
EXTENDS QuotaHeadroom, TLC

CONSTANTS small, big

MCTemplates == {small, big}
MCResources == {"memory"}

MCRequests == small :> [r \in MCResources |-> 1] @@ big :> [r \in MCResources |-> 2]
MCLimits   == small :> [r \in MCResources |-> 2] @@ big :> [r \in MCResources |-> 3]

Is(kind, strategy, percent, surge) ==
    [kind |-> kind, strategy |-> strategy, percent |-> percent, surge |-> surge]

MCWorkloads ==
    {Is("Deployment", "RollingUpdate", TRUE, 25), Is("Deployment", "Recreate", TRUE, 25),
     Is("StatefulSet", "RollingUpdate", FALSE, 0),
     Is("other", "RollingUpdate", FALSE, 0)}

On(scope, what, hard) ==
    [scope |-> scope, what |-> what, resource |-> "memory", hard |-> hard]

MCEntries ==
    {On("none", "limits", 5), On("matches", "requests", 3), On("none", "count/pods", 2)}

\* Others use little, or more than a quota lowered since allows.
MCFirstUse ==
    {use \in [MCEntries -> {0, 4}] : \A e \in MCEntries : e.what # "limits" => use[e] = 0}
=============================================================================
