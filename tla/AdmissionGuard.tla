---------------------------- MODULE AdmissionGuard ----------------------------
(***************************************************************************)
(* The oneshot admission guard (runtime.py, run_admission_guard), its      *)
(* timer, its evidence file admission-recovery.json and the MCP server     *)
(* whose sessions it probes.  HostApply has the guard's race with the      *)
(* transactions of its instance; here are its cooldown and its clock.      *)
(*                                                                         *)
(* Times are ages, so that no clock grows: an age is counted up to a bound *)
(* beyond which no comparison of the code tells two ages apart.            *)
(***************************************************************************)
EXTENDS Integers

CONSTANTS
    Cooldown,    \* recovery_cooldown_seconds
    Slots,       \* sessions the MCP server admits
    MaxLag,      \* time from _utc_now() to the write of the attempt: two socket timeouts
    MaxBack,     \* bound on the steps back of the wall clock
    MaxMishaps   \* bound on failures in one behaviour

ASSUME AdmissionGuardAssumption ==
    /\ Cooldown \in Nat \ {0}
    /\ Slots \in Nat \ {0}
    /\ MaxLag \in Nat
    /\ MaxBack \in Nat
    /\ MaxMishaps \in Nat

VARIABLES
    sessions,   \* sessions the MCP server has open
    guard,      \* progress of the oneshot service
    evidence,   \* wall-clock age of last_restart_attempt_at
    captured,   \* wall-clock age of the now this run has read
    job,        \* systemd holds a restart job whose systemctl has given up
    back,       \* steps back the wall clock has taken
    mishaps,
    since,      \* history: real time since the date of the last attempt
    lag,        \* history: real time since this run has read the clock
    restarts    \* history: flips with every restart the guard causes

vars == <<sessions, guard, evidence, captured, job, back, mishaps, since, lag, restarts>>

Probing == {"probe", "delete", "saturated"}
GuardPc == {"idle", "restart", "result"} \cup Probing

\* An attempt that was never made is as old as an age can be.
EvidenceCap == Cooldown + MaxLag + MaxBack
SinceCap == Cooldown + MaxLag

TypeOK ==
    /\ sessions \in 0..Slots
    /\ guard \in GuardPc
    /\ evidence \in (-MaxBack)..EvidenceCap
    /\ captured \in (-MaxBack)..MaxLag
    /\ job \in BOOLEAN
    /\ back \in 0..MaxBack
    /\ mishaps \in 0..MaxMishaps
    /\ since \in 0..SinceCap
    /\ lag \in 0..MaxLag
    /\ restarts \in BOOLEAN

Init ==
    /\ sessions = 0
    /\ guard = "idle"
    /\ evidence = EvidenceCap
    /\ captured = 0
    /\ job = FALSE
    /\ back = 0
    /\ mishaps = 0
    /\ since = SinceCap
    /\ lag = 0
    /\ restarts = FALSE

Saturated == sessions = Slots

Mishap ==
    /\ mishaps < MaxMishaps
    /\ mishaps' = mishaps + 1

(***************************************************************************)
(* The guard                                                               *)
(***************************************************************************)
times == <<evidence, captured, back, since, lag>>

\* The timer fires; the evidence is loaded and the clock is read.
Begin ==
    /\ guard = "idle"
    /\ guard' = "probe"
    /\ UNCHANGED <<sessions, job, mishaps, restarts, times>>

\* A run leaves the state it would leave by forgetting the time it has read.
End ==
    /\ guard' = "idle"
    /\ captured' = 0
    /\ lag' = 0

\* The initialize request: a session, the exact signature, or no answer.
Probe ==
    /\ guard = "probe"
    /\ UNCHANGED <<evidence, job, back, since, restarts>>
    /\ \/ /\ ~Saturated
          /\ sessions' = sessions + 1
          /\ guard' = "delete"
          /\ UNCHANGED <<captured, lag, mishaps>>
       \/ /\ Saturated
          /\ guard' = "saturated"
          /\ UNCHANGED <<sessions, captured, lag, mishaps>>
       \/ Mishap /\ End /\ UNCHANGED sessions

\* DELETE of the probe's own session; it may fail, or the server have lost it.
Delete ==
    /\ guard = "delete"
    /\ End
    /\ \/ sessions > 0 /\ sessions' = sessions - 1 /\ UNCHANGED mishaps
       \/ sessions = 0 /\ UNCHANGED <<sessions, mishaps>>
       \/ Mishap /\ UNCHANGED sessions
    /\ UNCHANGED <<evidence, job, back, since, restarts>>

\* A bug: abs(now - previous_attempt), a date in the future is like a past one.
AbsoluteElapsed == IF evidence < captured THEN captured - evidence ELSE evidence - captured

\* now - previous_attempt, both as the run sees them.
Elapsed == evidence - captured

InFuture(elapsed) == elapsed < 0
InCooldown(elapsed) == elapsed < Cooldown

\* A recorded attempt in the future raises before anything is written.
FailClosed ==
    /\ guard = "saturated"
    /\ InFuture(Elapsed)
    /\ End
    /\ UNCHANGED <<sessions, evidence, job, back, mishaps, since, restarts>>

\* A bug: the suppressed restart is dated like one that was attempted.
SuppressionIsDated == captured

\* The evidence of a suppressed restart keeps the date of the attempt.
SuppressedDate == evidence

Suppress ==
    /\ guard = "saturated"
    /\ ~InFuture(Elapsed) /\ InCooldown(Elapsed)
    /\ End
    /\ evidence' = SuppressedDate
    /\ UNCHANGED <<sessions, job, back, mishaps, since, restarts>>

\* The attempt is recorded, dated with the time read before the probe.
Record ==
    /\ evidence' = captured
    /\ since' = lag
    /\ captured' = 0 /\ lag' = 0
    /\ guard' = "restart"

Persist ==
    /\ guard = "saturated"
    /\ ~InFuture(Elapsed) /\ ~InCooldown(Elapsed)
    /\ \/ Record /\ UNCHANGED mishaps
       \/ Mishap /\ End /\ UNCHANGED <<evidence, since>>
    /\ UNCHANGED <<sessions, job, back, restarts>>

McpIsNew ==
    /\ sessions' = 0
    /\ job' = FALSE
    /\ restarts' = ~restarts

\* systemctl restart: done, refused, or given up after thirty seconds with
\* the job still in systemd's queue.
Restart ==
    /\ guard = "restart"
    /\ guard' = "result"
    /\ \/ McpIsNew /\ UNCHANGED mishaps
       \/ Mishap /\ UNCHANGED <<sessions, job, restarts>>
       \/ Mishap /\ job' = TRUE /\ UNCHANGED <<sessions, restarts>>
    /\ UNCHANGED times

\* The result of the restart is persisted; the date of the attempt stays.
Result ==
    /\ guard = "result"
    /\ End
    /\ UNCHANGED <<sessions, evidence, job, back, mishaps, since, restarts>>

GuardStep == Probe \/ Delete \/ FailClosed \/ Suppress \/ Persist \/ Restart \/ Result

\* The oneshot process dies at any point of a run.
Dies ==
    /\ guard # "idle"
    /\ Mishap
    /\ End
    /\ UNCHANGED <<sessions, evidence, job, back, since, restarts>>

(***************************************************************************)
(* systemd, the MCP server and its clients, the clock                      *)
(***************************************************************************)
JobRuns ==
    /\ job
    /\ McpIsNew
    /\ UNCHANGED <<guard, mishaps, times>>

Clients ==
    /\ sessions' \in {sessions - 1, sessions + 1} \cap 0..Slots
    /\ UNCHANGED <<guard, job, mishaps, restarts, times>>

Older(a, cap) == IF a < cap THEN a + 1 ELSE a

\* Sockets time out: a run does not probe for longer than MaxLag.
Tick ==
    /\ guard \in Probing => lag < MaxLag
    /\ evidence' = Older(evidence, EvidenceCap)
    /\ since' = Older(since, SinceCap)
    /\ IF guard \in Probing
       THEN captured' = captured + 1 /\ lag' = lag + 1
       ELSE UNCHANGED <<captured, lag>>
    /\ UNCHANGED <<sessions, guard, job, back, mishaps, restarts>>

ClockStepsBack ==
    /\ back < MaxBack
    /\ back' = back + 1
    /\ evidence' = evidence - 1
    /\ captured' = IF guard \in Probing THEN captured - 1 ELSE captured
    /\ UNCHANGED <<sessions, guard, job, mishaps, since, lag, restarts>>

Next ==
    \/ Begin \/ GuardStep \/ Dies \/ JobRuns
    \/ Clients \/ Tick \/ ClockStepsBack

Spec == Init /\ [][Next]_vars

\* The timer fires again and again, every command of a run has a timeout,
\* systemd works off its queue, and time passes.
FairSpec ==
    /\ Spec
    /\ WF_vars(Begin) /\ WF_vars(GuardStep)
    /\ WF_vars(JobRuns) /\ WF_vars(Tick)

-------------------------------------------------------------------------------
(***************************************************************************)
(* Properties                                                              *)
(***************************************************************************)
Limiter == INSTANCE RestartLimiter WITH
    age <- since,
    owed <- (IF guard = "restart" THEN 1 ELSE 0) + (IF job THEN 1 ELSE 0)

\* Every restart the guard causes belongs to an attempt recorded before it,
\* and attempts are dated a cooldown apart in real time: whatever dies or
\* fails between two steps, however late systemd restarts the unit, and when
\* the wall clock is set back between two runs or in the middle of one.
RestartsAreLimited == Limiter!Spec

\* A server that refuses every session is not left so: once nothing fails any
\* more, the guard restarts it after at most one cooldown that it itself
\* does not prolong.
SaturationEnds == Saturated ~> ~Saturated

===============================================================================
