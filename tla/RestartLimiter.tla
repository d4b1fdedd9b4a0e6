---------------------------- MODULE RestartLimiter ----------------------------
(***************************************************************************)
(* What the admission guard promises about the MCP restarts it causes      *)
(* (specs/p11-admission-recovery.md, "Cooldown"): every restart is covered *)
(* by an attempt recorded before it, one attempt covers one restart, and   *)
(* two attempts are dated at least a cooldown apart in real time.          *)
(***************************************************************************)
EXTENDS Integers

CONSTANTS
    Cooldown,   \* recovery_cooldown_seconds
    MaxLag      \* an attempt is dated at most this long before it is recorded

VARIABLES
    age,        \* real time since the date of the last attempt, up to AgeCap
    owed,       \* recorded attempts whose restart may still come
    restarts    \* flips with every restart

vars == <<age, owed, restarts>>

AgeCap == Cooldown + MaxLag

Older(a, cap) == IF a < cap THEN a + 1 ELSE a

Init ==
    /\ age = AgeCap
    /\ owed = 0
    /\ restarts = FALSE

TimePasses ==
    /\ age' = Older(age, AgeCap)
    /\ UNCHANGED <<owed, restarts>>

Attempt ==
    /\ \E l \in 0..MaxLag :
        /\ age - l >= Cooldown
        /\ age' = l
    /\ owed' = owed + 1
    /\ UNCHANGED restarts

Restart ==
    /\ owed' \in 0..(owed - 1)
    /\ restarts' = ~restarts
    /\ UNCHANGED age

Forfeit ==
    /\ owed' \in 0..owed
    /\ UNCHANGED <<age, restarts>>

Next == TimePasses \/ Attempt \/ Restart \/ Forfeit

Spec == Init /\ [][Next]_vars
===============================================================================
