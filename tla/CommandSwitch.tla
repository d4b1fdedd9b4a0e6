---------------------------- MODULE CommandSwitch ----------------------------
(***************************************************************************)
(* What an account sees of installations (specs/standalone-distribution.md,*)
(* DIST-03): its commands all run one complete release, and change to      *)
(* another distribution in a single step.                                  *)
(***************************************************************************)
CONSTANTS
    Dists,        \* immutable distributions
    Predecessor,  \* a release from before distributions, which may be migrated
    OldNames,     \* commands of the predecessor
    Upgrade,      \* the command only distributions have
    Nothing

VARIABLE runs     \* the release each command runs

Names == OldNames \cup {Upgrade}

Commands(r) == CASE r = Nothing     -> {}
                 [] r = Predecessor -> OldNames
                 [] OTHER           -> Names

Projection(r) == [n \in Names |-> IF n \in Commands(r) THEN r ELSE Nothing]

Init == \E r \in {Nothing, Predecessor} : runs = Projection(r)

Switch == \E d \in Dists : runs' = Projection(d)

Spec == Init /\ [][Switch]_runs
==============================================================================
