--------------------------- MODULE InstanceProbes ---------------------------
(***************************************************************************)
(* Manager processes that look into one instance at the same time: each    *)
(* verifies or configures its GitHub access, or probes the continuity of   *)
(* its MCP server's sessions.                                              *)
(***************************************************************************)
EXTENDS GithubAccess, TLC

vars == <<github, server, cont>>

Init == ContinuityInit /\ GithubInit

Idle(p) == At(p, "new") /\ In(p, "new")

Next ==
    \/ \E p \in Procs :
        \/ Idle(p) /\ StartProbe(p) /\ UNCHANGED github
        \/ Idle(p) /\ (\E kind \in {"verify", "configure"} : Begin(p, kind)) /\ UNCHANGED cont
        \/ ContinuityStep(p) /\ UNCHANGED github
        \/ GithubStep(p) /\ UNCHANGED cont
    \/ (CommandExpires \/ ServerRestarts) /\ UNCHANGED github
    \/ Redeclare /\ UNCHANGED cont

Spec == Init /\ [][Next]_vars

ProbesSymmetry == Permutations(Procs) \cup Permutations(Accounts) \cup Permutations(Targets)
=============================================================================
