------------------------- MODULE AdmissionGuardProofs -------------------------
(***************************************************************************)
(* The admission guard implements RestartLimiter, for every cooldown, every*)
(* number of sessions, and any number of failures and steps of the clock.  *)
(***************************************************************************)
EXTENDS AdmissionGuard, TLAPS

\* What the refinement needs of the types.
Typed ==
    /\ guard \in GuardPc
    /\ evidence \in Int
    /\ captured \in Int
    /\ job \in BOOLEAN
    /\ since \in 0..SinceCap
    /\ lag \in 0..MaxLag
    /\ restarts \in BOOLEAN

\* Only a run that probes has read a time, and the wall clock, which is only
\* ever set back, shows at most the time that has really passed since.
TimeRead ==
    /\ captured <= lag
    /\ guard \notin Probing => captured = 0 /\ lag = 0

\* The run never sees more time since the last attempt than has really passed.
NeverOlder == since = SinceCap \/ Elapsed <= since - lag

GuardInv == Typed /\ TimeRead /\ NeverOlder

LEMMA GuardInvInit == Init => GuardInv
<1> SUFFICES ASSUME Init PROVE GuardInv
    OBVIOUS
<1>1. Typed
    <2>1. Cooldown \in Nat /\ MaxLag \in Nat /\ MaxBack \in Nat
        BY AdmissionGuardAssumption
    <2>2. evidence \in Int /\ captured \in Int
        BY <2>1 DEF Init, EvidenceCap
    <2>3. since \in 0..SinceCap /\ lag \in 0..MaxLag
        BY <2>1 DEF Init, SinceCap
    <2>4. guard \in GuardPc /\ job \in BOOLEAN /\ restarts \in BOOLEAN
        BY DEF Init, GuardPc
    <2> QED
        BY <2>2, <2>3, <2>4 DEF Typed
<1>2. TimeRead /\ NeverOlder
    BY DEF Init, TimeRead, NeverOlder
<1> QED
    BY <1>1, <1>2 DEF GuardInv

LEMMA GuardInvStep == GuardInv /\ [Next]_vars => GuardInv'
<1> SUFFICES ASSUME GuardInv, [Next]_vars PROVE GuardInv'
    OBVIOUS
<1> USE AdmissionGuardAssumption
    DEF GuardInv, Typed, TimeRead, NeverOlder, Elapsed, GuardPc, Probing, times, SinceCap, EvidenceCap
<1>1. CASE Begin
    BY <1>1 DEF Begin
<1>2. CASE Probe
    BY <1>2 DEF Probe, End
<1>3. CASE Delete
    BY <1>3 DEF Delete, End
<1>4. CASE FailClosed
    BY <1>4 DEF FailClosed, End
<1>5. CASE Suppress
    BY <1>5 DEF Suppress, End, SuppressedDate
<1>6. CASE Persist
    <2>1. CASE Record /\ UNCHANGED mishaps
        BY <1>6, <2>1 DEF Persist, Record
    <2>2. CASE Mishap /\ End /\ UNCHANGED <<evidence, since>>
        BY <1>6, <2>2 DEF Persist, End
    <2> QED
        BY <1>6, <2>1, <2>2 DEF Persist
<1>7. CASE Restart
    BY <1>7 DEF Restart, McpIsNew
<1>8. CASE Result
    BY <1>8 DEF Result, End
<1>9. CASE Dies
    BY <1>9 DEF Dies, End
<1>10. CASE JobRuns
    BY <1>10 DEF JobRuns, McpIsNew
<1>11. CASE Clients
    BY <1>11 DEF Clients
<1>12. CASE Tick
    BY <1>12 DEF Tick, Older
<1>13. CASE ClockStepsBack
    BY <1>13 DEF ClockStepsBack
<1>14. CASE UNCHANGED vars
    BY <1>14 DEF vars
<1> QED
    BY <1>1, <1>2, <1>3, <1>4, <1>5, <1>6, <1>7, <1>8, <1>9, <1>10, <1>11, <1>12,
       <1>13, <1>14 DEF Next, GuardStep

LEMMA LimiterInit == Init => Limiter!Init
BY DEF Init, Limiter!Init, Limiter!AgeCap, SinceCap

\* A step of the guard is an attempt, a restart or a forfeit of the limiter;
\* a tick of the clock is its passing of time; the rest it does not see.
LEMMA LimiterStep == GuardInv /\ [Next]_vars => [Limiter!Next]_(Limiter!vars)
<1> SUFFICES ASSUME GuardInv, [Next]_vars PROVE [Limiter!Next]_(Limiter!vars)
    OBVIOUS
<1> USE AdmissionGuardAssumption DEF GuardInv, Typed, GuardPc, Probing, Limiter!vars
<1> DEFINE Owed == (IF guard = "restart" THEN 1 ELSE 0) + (IF job THEN 1 ELSE 0)
<1>0. Owed \in 0..2
    OBVIOUS
<1>1. ASSUME guard # "restart", guard' # "restart", UNCHANGED <<since, job, restarts>>
      PROVE  UNCHANGED Limiter!vars
    BY <1>1
<1>2. CASE Begin
    BY <1>1, <1>2 DEF Begin, times
<1>3. CASE Probe
    BY <1>1, <1>3 DEF Probe, End
<1>4. CASE Delete
    BY <1>1, <1>4 DEF Delete, End
<1>5. CASE FailClosed
    BY <1>1, <1>5 DEF FailClosed, End
<1>6. CASE Suppress
    BY <1>1, <1>6 DEF Suppress, End
<1>7. CASE Persist
    <2>1. CASE Record /\ UNCHANGED mishaps
        <3>1. since - lag >= Cooldown
            BY <1>7 DEF Persist, InCooldown, NeverOlder, SinceCap, Elapsed
        <3>2. lag \in 0..MaxLag /\ since' = lag /\ Owed' = Owed + 1 /\ restarts' = restarts
            BY <1>7, <2>1 DEF Persist, Record
        <3> QED
            BY <3>1, <3>2 DEF Limiter!Next, Limiter!Attempt
    <2>2. CASE Mishap /\ End /\ UNCHANGED <<evidence, since>>
        BY <1>1, <1>7, <2>2 DEF Persist, End
    <2> QED
        BY <1>7, <2>1, <2>2 DEF Persist
<1>8. CASE Restart
    <2>1. CASE McpIsNew
        <3>1. Owed >= 1 /\ Owed' = 0 /\ restarts' = ~restarts /\ since' = since
            BY <1>8, <2>1 DEF Restart, McpIsNew, times
        <3> QED
            BY <1>0, <3>1 DEF Limiter!Next, Limiter!Restart
    <2>2. CASE ~McpIsNew
        <3>1. Owed' \in 0..Owed /\ since' = since /\ restarts' = restarts
            BY <1>8, <2>2 DEF Restart, times
        <3> QED
            BY <3>1 DEF Limiter!Next, Limiter!Forfeit
    <2> QED
        BY <2>1, <2>2
<1>9. CASE Result
    BY <1>1, <1>9 DEF Result, End
<1>10. CASE Dies
    <2>1. Owed' \in 0..Owed /\ since' = since /\ restarts' = restarts
        BY <1>10 DEF Dies, End
    <2> QED
        BY <2>1 DEF Limiter!Next, Limiter!Forfeit
<1>11. CASE JobRuns
    <2>1. Owed' \in 0..(Owed - 1) /\ since' = since /\ restarts' = ~restarts
        BY <1>11 DEF JobRuns, McpIsNew, times
    <2> QED
        BY <2>1 DEF Limiter!Next, Limiter!Restart
<1>12. CASE Clients
    BY <1>12 DEF Clients, times
<1>13. CASE Tick
    <2>1. since' = Limiter!Older(since, SinceCap) /\ Owed' = Owed /\ restarts' = restarts
        BY <1>13 DEF Tick, Older, Limiter!Older
    <2> QED
        BY <2>1 DEF Limiter!Next, Limiter!TimePasses, Limiter!AgeCap, SinceCap
<1>14. CASE ClockStepsBack
    BY <1>14 DEF ClockStepsBack
<1>15. CASE UNCHANGED vars
    BY <1>15 DEF vars
<1> QED
    BY <1>2, <1>3, <1>4, <1>5, <1>6, <1>7, <1>8, <1>9, <1>10, <1>11, <1>12, <1>13,
       <1>14, <1>15 DEF Next, GuardStep

\* The guard implements the limiter (run_admission_guard): no restart without
\* a recorded attempt, no two attempts within a cooldown.
THEOREM GuardIsLimited == Spec => RestartsAreLimited
<1>1. Init => GuardInv
    BY GuardInvInit
<1>2. GuardInv /\ [Next]_vars => GuardInv'
    BY GuardInvStep
<1> QED
    BY <1>1, <1>2, LimiterInit, LimiterStep, PTL DEF Spec, RestartsAreLimited, Limiter!Spec
===============================================================================
