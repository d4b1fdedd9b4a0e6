--------------------------- MODULE CodexJobsProofs ---------------------------
(***************************************************************************)
(* Proofs about CodexJobs for every set of callers, every set of hazards   *)
(* and any number of mishaps.  The argument: a unit that is gone never     *)
(* comes back, every writer of a verdict other than the worker knows the   *)
(* unit gone before it writes, and while the unit is only queued the grace *)
(* keeps a caller from concluding anything from not seeing it.             *)
(***************************************************************************)
EXTENDS CodexJobs, TLAPS

Unlaunched == {"new", "request", "launch"}
Refused == {"refused", "refused-result"}

\* The unit is gone for good.
Over == unit = "absent" /\ submitter \notin Unlaunched

\* Unit and worker agree; before the launch there is neither.
UnitInv ==
    /\ unit # "live" => worker = "none"
    /\ unit = "live" => worker # "none"
    /\ submitter \in Unlaunched => unit = "absent" /\ result = "none"

\* Nobody asks before start() has answered; a canceller has stopped the unit.
CancelInv ==
    /\ \A c \in Callers :
          /\ caller[c].pc # "idle" => submitter = "answered"
          /\ caller[c].pc = "recheck" /\ caller[c].stopped => Over
          /\ caller[c].pc \in {"cancel", "cancel-result"} => Over
    /\ result = "cancelled" => Over

Queued(s) == s.state = "queued" /\ ~s.started

\* While the unit is only queued, the status says so and the grace lasts.
QueuedInv ==
    /\ submitter = "launch" => fresh.created /\ Queued(status)
    /\ unit = "enqueued" =>
          /\ fresh.created
          /\ Queued(status)
          /\ result = "none"
          /\ \A c \in Callers : caller[c].pc = "show" => Queued(caller[c].read)

\* A caller that did not see the unit concludes nothing yet, or it is gone.
InterruptInv ==
    /\ submitter \in Refused => unit = "absent" /\ result = "none"
    /\ \A c \in Callers :
          /\ caller[c].pc = "decide" /\ ~caller[c].active =>
                Over \/ (fresh.created /\ Queued(caller[c].read))
          /\ caller[c].pc \in {"interrupt", "interrupt-result"} => Over
    /\ result # "none" => Over \/ worker = "exit"

\* Nobody is about to replace what the worker, or start(), recorded.
VerdictInv ==
    result \in {"succeeded", "failed"} =>
        \A c \in Callers :
            caller[c].pc \notin {"interrupt", "interrupt-result", "cancel", "cancel-result"}

JobInv == TypeOK /\ UnitInv /\ CancelInv /\ (~misled => QueuedInv /\ InterruptInv /\ VerdictInv)

\* The disjuncts of Next, one by one.
LEMMA NextSplit ==
    ASSUME [Next]_vars
    PROVE  \/ WriteRequest \/ WriteQueued \/ Launch \/ RecordLaunchFailure
           \/ LaunchRefused \/ SubmitterDies
           \/ StartUnit \/ LoadBinding \/ MarkRunning \/ FinishStatus
           \/ FinishResult \/ WorkerExits \/ CodexExits \/ WorkerDies
           \/ GraceEnds \/ Rebind
           \/ \E c \in Callers :
                 \/ \E op \in {"status", "cancel"} : Call(c, op)
                 \/ Show(c) \/ Decide(c) \/ PersistInterrupted(c) \/ Stop(c)
                 \/ Recheck(c) \/ PersistCancelled(c) \/ StopTimesOut(c) \/ CallerDies(c)
           \/ UNCHANGED vars
  BY Zenon DEF Next, Submit, Work, Proceed

LEMMA IdleType == Idle \in CallerVal
  BY DEF Idle, CallerVal, CallerPc, NoStatus, StatusVal, Waiting, Terminal

LEMMA TypeInit == Init => TypeOK
<1> SUFFICES ASSUME Init PROVE TypeOK
  OBVIOUS
<1>1. caller \in [Callers -> CallerVal]
  BY IdleType DEF Init
<1>2. status \in StatusVal
  BY DEF Init, NoStatus, StatusVal
<1>3. fresh \in [created : BOOLEAN, started : BOOLEAN]
  BY DEF Init
<1>4. mishaps \in 0..MaxMishaps
  BY CodexJobsAssumption DEF Init
<1> QED
  BY <1>1, <1>2, <1>3, <1>4 DEF Init, TypeOK

\* An answered caller is idle again; any other step sets single fields of it.
LEMMA AnswerType ==
    ASSUME TypeOK, NEW c \in Callers, Answer(c)
    PROVE  caller' \in [Callers -> CallerVal]
  BY IdleType DEF TypeOK, Answer

LEMMA GotoType ==
    ASSUME TypeOK, NEW c \in Callers, NEW pc \in CallerPc, Goto(c, pc)
    PROVE  caller' \in [Callers -> CallerVal]
  BY DEF TypeOK, Goto, CallerVal

LEMMA RecordType ==
    ASSUME NEW r \in CallerVal, NEW pc \in CallerPc, NEW b \in BOOLEAN
    PROVE  /\ [r EXCEPT !.pc = pc, !.active = b] \in CallerVal
           /\ [r EXCEPT !.pc = pc, !.stopped = b] \in CallerVal
  BY DEF CallerVal

LEMMA MishapType ==
    ASSUME TypeOK, NEW h, Mishap(h)
    PROVE  mishaps' \in 0..MaxMishaps
  BY CodexJobsAssumption DEF TypeOK, Mishap

\* Every action keeps the types.
LEMMA TypeStep ==
    ASSUME TypeOK, [Next]_vars
    PROVE  TypeOK'
<1> USE DEF TypeOK
<1>1. CASE WriteRequest
  BY <1>1 DEF WriteRequest
<1>2. CASE WriteQueued
  BY <1>2 DEF WriteQueued, StatusVal, Waiting, Terminal
<1>3. CASE Launch
  BY <1>3 DEF Launch
<1>4. CASE RecordLaunchFailure
  BY <1>4 DEF RecordLaunchFailure, SetStatus, StatusVal, Waiting, Terminal
<1>5. CASE LaunchRefused
  BY <1>5, MishapType DEF LaunchRefused
<1>6. CASE SubmitterDies
  BY <1>6, MishapType DEF SubmitterDies
<1>7. CASE StartUnit
  BY <1>7 DEF StartUnit
<1>8. CASE LoadBinding
  BY <1>8 DEF LoadBinding, UnitGone
<1>9. CASE MarkRunning
  BY <1>9 DEF MarkRunning, StatusVal, Waiting, Terminal
<1>10. CASE FinishStatus
  BY <1>10 DEF FinishStatus, SetStatus, Verdict, StatusVal, Waiting, Terminal
<1>11. CASE FinishResult
  BY <1>11 DEF FinishResult, Verdict, StatusVal, Waiting, Terminal
<1>12. CASE WorkerExits
  BY <1>12 DEF WorkerExits, UnitGone
<1>13. CASE CodexExits
  BY <1>13 DEF CodexExits
<1>14. CASE WorkerDies
  BY <1>14, MishapType DEF WorkerDies, UnitGone
<1>15. CASE GraceEnds
  BY <1>15, MishapType, ZenonT(60) DEF GraceEnds
<1>16. CASE Rebind
  BY <1>16, MishapType DEF Rebind
<1>17. ASSUME NEW c \in Callers, NEW op \in {"status", "cancel"}, Call(c, op)
       PROVE  TypeOK'
  <2>1. [Idle EXCEPT !.pc = "show", !.op = op, !.read = status] \in CallerVal
    BY DEF Idle, NoStatus, CallerVal, CallerPc
  <2> QED
    BY <1>17, <2>1 DEF Call
<1>18. ASSUME NEW c \in Callers, Show(c) PROVE TypeOK'
  <2>1. caller' \in [Callers -> CallerVal]
    <3>1. "decide" \in CallerPc /\ Active \in BOOLEAN
      BY DEF CallerPc, Active
    <3>2. \A b \in BOOLEAN : [caller[c] EXCEPT !.pc = "decide", !.active = b] \in CallerVal
      BY <3>1, RecordType
    <3> QED
      BY <1>18, <3>1, <3>2 DEF Show
  <2>2. mishaps' \in 0..MaxMishaps /\ misled' \in BOOLEAN
    BY <1>18, MishapType DEF Show
  <2> QED
    BY <1>18, <2>1, <2>2 DEF Show
<1>19. ASSUME NEW c \in Callers, Decide(c) PROVE TypeOK'
  BY <1>19, AnswerType, GotoType DEF Decide, CallerPc
<1>20. ASSUME NEW c \in Callers, PersistInterrupted(c) PROVE TypeOK'
  BY <1>20, AnswerType, GotoType DEF PersistInterrupted, StatusVal, Waiting, Terminal, CallerPc, CallerVal
<1>21. ASSUME NEW c \in Callers, Stop(c) PROVE TypeOK'
  <2>1. "recheck" \in CallerPc /\ (unit # "absent") \in BOOLEAN
    BY DEF CallerPc
  <2>2. [caller[c] EXCEPT !.pc = "recheck", !.stopped = unit # "absent"] \in CallerVal
    BY <2>1, RecordType
  <2> QED
    BY <1>21, <2>2 DEF Stop, UnitGone
<1>22. ASSUME NEW c \in Callers, Recheck(c) PROVE TypeOK'
  BY <1>22, AnswerType DEF Recheck, CallerVal, CallerPc
<1>23. ASSUME NEW c \in Callers, PersistCancelled(c) PROVE TypeOK'
  BY <1>23, AnswerType, GotoType DEF PersistCancelled, StatusVal, Waiting, Terminal, CallerPc, CallerVal
<1>24. ASSUME NEW c \in Callers, StopTimesOut(c) PROVE TypeOK'
  BY <1>24, MishapType, AnswerType DEF StopTimesOut, UnitGone
<1>25. ASSUME NEW c \in Callers, CallerDies(c) PROVE TypeOK'
  BY <1>25, MishapType, AnswerType DEF CallerDies
<1>26. CASE UNCHANGED vars
  BY <1>26 DEF vars
<1> QED
  BY NextSplit, <1>1, <1>2, <1>3, <1>4, <1>5, <1>6, <1>7, <1>8, <1>9, <1>10, <1>11, <1>12, <1>13, <1>14, <1>15, <1>16, <1>17, <1>18, <1>19, <1>20, <1>21, <1>22, <1>23, <1>24, <1>25, <1>26

\* Unit and worker stay in step.
LEMMA UnitStep ==
    ASSUME TypeOK, UnitInv, CancelInv, [Next]_vars
    PROVE  UnitInv'
<1> USE DEF TypeOK, UnitInv, CancelInv, Unlaunched
<1>1. CASE WriteRequest
  BY <1>1 DEF WriteRequest
<1>2. CASE WriteQueued
  BY <1>2 DEF WriteQueued
<1>3. CASE Launch
  BY <1>3 DEF Launch
<1>4. CASE RecordLaunchFailure
  BY <1>4 DEF RecordLaunchFailure, SetStatus
<1>5. CASE LaunchRefused
  BY <1>5 DEF LaunchRefused
<1>6. CASE SubmitterDies
  BY <1>6 DEF SubmitterDies
<1>7. CASE StartUnit
  BY <1>7 DEF StartUnit
<1>8. CASE LoadBinding
  BY <1>8 DEF LoadBinding, UnitGone
<1>9. CASE MarkRunning
  BY <1>9 DEF MarkRunning
<1>10. CASE FinishStatus
  BY <1>10 DEF FinishStatus, SetStatus, Verdict
<1>11. CASE FinishResult
  BY <1>11 DEF FinishResult, Verdict
<1>12. CASE WorkerExits
  BY <1>12 DEF WorkerExits, UnitGone
<1>13. CASE CodexExits
  BY <1>13 DEF CodexExits
<1>14. CASE WorkerDies
  BY <1>14 DEF WorkerDies, UnitGone
<1>15. CASE GraceEnds
  BY <1>15 DEF GraceEnds, Observable, Active
<1>16. CASE Rebind
  BY <1>16 DEF Rebind
<1>17. ASSUME NEW c \in Callers, NEW op \in {"status", "cancel"}, Call(c, op)
       PROVE  UnitInv'
  BY <1>17 DEF Call, Idle, NoStatus
<1>18. ASSUME NEW c \in Callers, Show(c) PROVE UnitInv'
  BY <1>18 DEF Show, Active
<1>19. ASSUME NEW c \in Callers, Decide(c) PROVE UnitInv'
  BY <1>19 DEF Decide, Answer, Idle, NoStatus, Goto, NotInterrupted, WithinGrace
<1>20. ASSUME NEW c \in Callers, PersistInterrupted(c) PROVE UnitInv'
  BY <1>20 DEF PersistInterrupted, Answer, Idle, NoStatus, Goto
<1>21. ASSUME NEW c \in Callers, Stop(c) PROVE UnitInv'
  BY <1>21 DEF Stop, UnitGone
<1>22. ASSUME NEW c \in Callers, Recheck(c) PROVE UnitInv'
  BY <1>22 DEF Recheck, Answer, Idle, NoStatus
<1>23. ASSUME NEW c \in Callers, PersistCancelled(c) PROVE UnitInv'
  BY <1>23 DEF PersistCancelled, Answer, Idle, NoStatus, Goto
<1>24. ASSUME NEW c \in Callers, StopTimesOut(c) PROVE UnitInv'
  BY <1>24 DEF StopTimesOut, UnitGone, Answer, Idle, NoStatus
<1>25. ASSUME NEW c \in Callers, CallerDies(c) PROVE UnitInv'
  BY <1>25 DEF CallerDies, Answer, Idle, NoStatus
<1>26. CASE UNCHANGED vars
  BY <1>26 DEF vars
<1> QED
  BY NextSplit, <1>1, <1>2, <1>3, <1>4, <1>5, <1>6, <1>7, <1>8, <1>9, <1>10, <1>11, <1>12, <1>13, <1>14, <1>15, <1>16, <1>17, <1>18, <1>19, <1>20, <1>21, <1>22, <1>23, <1>24, <1>25, <1>26

\* A unit found gone by a canceller stays gone.
LEMMA CancelStep ==
    ASSUME TypeOK, UnitInv, CancelInv, [Next]_vars
    PROVE  CancelInv'
<1> USE DEF TypeOK, StatusVal, CallerVal, Waiting, Terminal, UnitInv, CancelInv, Over, Unlaunched
<1>1. CASE WriteRequest
  BY <1>1 DEF WriteRequest
<1>2. CASE WriteQueued
  BY <1>2 DEF WriteQueued
<1>3. CASE Launch
  BY <1>3 DEF Launch
<1>4. CASE RecordLaunchFailure
  BY <1>4 DEF RecordLaunchFailure, SetStatus
<1>5. CASE LaunchRefused
  BY <1>5 DEF LaunchRefused
<1>6. CASE SubmitterDies
  BY <1>6 DEF SubmitterDies
<1>7. CASE StartUnit
  BY <1>7 DEF StartUnit
<1>8. CASE LoadBinding
  BY <1>8 DEF LoadBinding, UnitGone
<1>9. CASE MarkRunning
  BY <1>9 DEF MarkRunning
<1>10. CASE FinishStatus
  BY <1>10 DEF FinishStatus, SetStatus, Verdict
<1>11. CASE FinishResult
  BY <1>11 DEF FinishResult, Verdict
<1>12. CASE WorkerExits
  BY <1>12 DEF WorkerExits, UnitGone
<1>13. CASE CodexExits
  BY <1>13 DEF CodexExits
<1>14. CASE WorkerDies
  BY <1>14 DEF WorkerDies, UnitGone
<1>15. CASE GraceEnds
  BY <1>15 DEF GraceEnds, Observable, Active
<1>16. CASE Rebind
  BY <1>16 DEF Rebind
<1>17. ASSUME NEW c \in Callers, NEW op \in {"status", "cancel"}, Call(c, op)
       PROVE  CancelInv'
  BY <1>17 DEF Call, Idle, NoStatus
<1>18. ASSUME NEW c \in Callers, Show(c) PROVE CancelInv'
  BY <1>18 DEF Show, Active
<1>19. ASSUME NEW c \in Callers, Decide(c) PROVE CancelInv'
  BY <1>19 DEF Decide, Answer, Idle, NoStatus, Goto, NotInterrupted, WithinGrace
<1>20. ASSUME NEW c \in Callers, PersistInterrupted(c) PROVE CancelInv'
  BY <1>20 DEF PersistInterrupted, Answer, Idle, NoStatus, Goto
<1>21. ASSUME NEW c \in Callers, Stop(c) PROVE CancelInv'
  BY <1>21 DEF Stop, UnitGone
<1>22. ASSUME NEW c \in Callers, Recheck(c) PROVE CancelInv'
  BY <1>22 DEF Recheck, Answer, Idle, NoStatus
<1>23. ASSUME NEW c \in Callers, PersistCancelled(c) PROVE CancelInv'
  BY <1>23 DEF PersistCancelled, Answer, Idle, NoStatus, Goto
<1>24. ASSUME NEW c \in Callers, StopTimesOut(c) PROVE CancelInv'
  BY <1>24 DEF StopTimesOut, UnitGone, Answer, Idle, NoStatus
<1>25. ASSUME NEW c \in Callers, CallerDies(c) PROVE CancelInv'
  BY <1>25 DEF CallerDies, Answer, Idle, NoStatus
<1>26. CASE UNCHANGED vars
  BY <1>26 DEF vars
<1> QED
  BY NextSplit, <1>1, <1>2, <1>3, <1>4, <1>5, <1>6, <1>7, <1>8, <1>9, <1>10, <1>11, <1>12, <1>13, <1>14, <1>15, <1>16, <1>17, <1>18, <1>19, <1>20, <1>21, <1>22, <1>23, <1>24, <1>25, <1>26

\* The grace outlasts the queueing.
LEMMA QueuedStep ==
    ASSUME TypeOK, UnitInv, CancelInv, QueuedInv, InterruptInv, ~misled, ~misled', [Next]_vars
    PROVE  QueuedInv'
<1> USE DEF TypeOK, StatusVal, CallerVal, Waiting, Terminal, UnitInv, CancelInv, QueuedInv, InterruptInv, Over, Queued, Unlaunched, Refused
<1>1. CASE WriteRequest
  BY <1>1 DEF WriteRequest
<1>2. CASE WriteQueued
  BY <1>2 DEF WriteQueued
<1>3. CASE Launch
  BY <1>3 DEF Launch
<1>4. CASE RecordLaunchFailure
  BY <1>4 DEF RecordLaunchFailure, SetStatus
<1>5. CASE LaunchRefused
  BY <1>5 DEF LaunchRefused
<1>6. CASE SubmitterDies
  BY <1>6 DEF SubmitterDies
<1>7. CASE StartUnit
  BY <1>7 DEF StartUnit
<1>8. CASE LoadBinding
  BY <1>8 DEF LoadBinding, UnitGone
<1>9. CASE MarkRunning
  BY <1>9 DEF MarkRunning
<1>10. CASE FinishStatus
  BY <1>10 DEF FinishStatus, SetStatus, Verdict
<1>11. CASE FinishResult
  BY <1>11 DEF FinishResult, Verdict
<1>12. CASE WorkerExits
  BY <1>12 DEF WorkerExits, UnitGone
<1>13. CASE CodexExits
  BY <1>13 DEF CodexExits
<1>14. CASE WorkerDies
  BY <1>14 DEF WorkerDies, UnitGone
<1>15. CASE GraceEnds
  BY <1>15 DEF GraceEnds, Observable, Active
<1>16. CASE Rebind
  BY <1>16 DEF Rebind
<1>17. ASSUME NEW c \in Callers, NEW op \in {"status", "cancel"}, Call(c, op)
       PROVE  QueuedInv'
  BY <1>17 DEF Call, Idle, NoStatus
<1>18. ASSUME NEW c \in Callers, Show(c) PROVE QueuedInv'
  BY <1>18 DEF Show, Active
<1>19. ASSUME NEW c \in Callers, Decide(c) PROVE QueuedInv'
  BY <1>19 DEF Decide, Answer, Idle, NoStatus, Goto, NotInterrupted, WithinGrace
<1>20. ASSUME NEW c \in Callers, PersistInterrupted(c) PROVE QueuedInv'
  BY <1>20 DEF PersistInterrupted, Answer, Idle, NoStatus, Goto
<1>21. ASSUME NEW c \in Callers, Stop(c) PROVE QueuedInv'
  BY <1>21 DEF Stop, UnitGone
<1>22. ASSUME NEW c \in Callers, Recheck(c) PROVE QueuedInv'
  BY <1>22, SMTT(30) DEF Recheck, Answer, Idle, NoStatus
<1>23. ASSUME NEW c \in Callers, PersistCancelled(c) PROVE QueuedInv'
  BY <1>23 DEF PersistCancelled, Answer, Idle, NoStatus, Goto
<1>24. ASSUME NEW c \in Callers, StopTimesOut(c) PROVE QueuedInv'
  BY <1>24 DEF StopTimesOut, UnitGone, Answer, Idle, NoStatus
<1>25. ASSUME NEW c \in Callers, CallerDies(c) PROVE QueuedInv'
  BY <1>25 DEF CallerDies, Answer, Idle, NoStatus
<1>26. CASE UNCHANGED vars
  BY <1>26 DEF vars
<1> QED
  BY NextSplit, <1>1, <1>2, <1>3, <1>4, <1>5, <1>6, <1>7, <1>8, <1>9, <1>10, <1>11, <1>12, <1>13, <1>14, <1>15, <1>16, <1>17, <1>18, <1>19, <1>20, <1>21, <1>22, <1>23, <1>24, <1>25, <1>26

\* A caller interrupts only what is over.
LEMMA InterruptStep ==
    ASSUME TypeOK, UnitInv, CancelInv, QueuedInv, InterruptInv, ~misled, ~misled', [Next]_vars
    PROVE  InterruptInv'
<1> USE DEF TypeOK, StatusVal, CallerVal, Waiting, Terminal, UnitInv, CancelInv, QueuedInv, InterruptInv, Over, Queued, Unlaunched, Refused
<1>1. CASE WriteRequest
  BY <1>1 DEF WriteRequest
<1>2. CASE WriteQueued
  BY <1>2 DEF WriteQueued
<1>3. CASE Launch
  BY <1>3 DEF Launch
<1>4. CASE RecordLaunchFailure
  BY <1>4 DEF RecordLaunchFailure, SetStatus
<1>5. CASE LaunchRefused
  BY <1>5 DEF LaunchRefused
<1>6. CASE SubmitterDies
  BY <1>6 DEF SubmitterDies
<1>7. CASE StartUnit
  BY <1>7 DEF StartUnit
<1>8. CASE LoadBinding
  BY <1>8 DEF LoadBinding, UnitGone
<1>9. CASE MarkRunning
  BY <1>9 DEF MarkRunning
<1>10. CASE FinishStatus
  BY <1>10 DEF FinishStatus, SetStatus, Verdict
<1>11. CASE FinishResult
  BY <1>11 DEF FinishResult, Verdict
<1>12. CASE WorkerExits
  BY <1>12 DEF WorkerExits, UnitGone
<1>13. CASE CodexExits
  BY <1>13 DEF CodexExits
<1>14. CASE WorkerDies
  BY <1>14 DEF WorkerDies, UnitGone
<1>15. CASE GraceEnds
  BY <1>15 DEF GraceEnds, Observable, Active
<1>16. CASE Rebind
  BY <1>16 DEF Rebind
<1>17. ASSUME NEW c \in Callers, NEW op \in {"status", "cancel"}, Call(c, op)
       PROVE  InterruptInv'
  BY <1>17 DEF Call, Idle, NoStatus
<1>18. ASSUME NEW c \in Callers, Show(c) PROVE InterruptInv'
  BY <1>18 DEF Show, Active
<1>19. ASSUME NEW c \in Callers, Decide(c) PROVE InterruptInv'
  BY <1>19 DEF Decide, Answer, Idle, NoStatus, Goto, NotInterrupted, WithinGrace
<1>20. ASSUME NEW c \in Callers, PersistInterrupted(c) PROVE InterruptInv'
  BY <1>20 DEF PersistInterrupted, Answer, Idle, NoStatus, Goto
<1>21. ASSUME NEW c \in Callers, Stop(c) PROVE InterruptInv'
  BY <1>21 DEF Stop, UnitGone
<1>22. ASSUME NEW c \in Callers, Recheck(c) PROVE InterruptInv'
  BY <1>22 DEF Recheck, Answer, Idle, NoStatus
<1>23. ASSUME NEW c \in Callers, PersistCancelled(c) PROVE InterruptInv'
  BY <1>23 DEF PersistCancelled, Answer, Idle, NoStatus, Goto
<1>24. ASSUME NEW c \in Callers, StopTimesOut(c) PROVE InterruptInv'
  BY <1>24 DEF StopTimesOut, UnitGone, Answer, Idle, NoStatus
<1>25. ASSUME NEW c \in Callers, CallerDies(c) PROVE InterruptInv'
  BY <1>25 DEF CallerDies, Answer, Idle, NoStatus
<1>26. CASE UNCHANGED vars
  BY <1>26 DEF vars
<1> QED
  BY NextSplit, <1>1, <1>2, <1>3, <1>4, <1>5, <1>6, <1>7, <1>8, <1>9, <1>10, <1>11, <1>12, <1>13, <1>14, <1>15, <1>16, <1>17, <1>18, <1>19, <1>20, <1>21, <1>22, <1>23, <1>24, <1>25, <1>26

\* No caller is left with a verdict of its own.
LEMMA VerdictStep ==
    ASSUME TypeOK, UnitInv, CancelInv, QueuedInv, InterruptInv, VerdictInv, ~misled, ~misled', [Next]_vars
    PROVE  VerdictInv'
<1> USE DEF TypeOK, StatusVal, CallerVal, Waiting, Terminal, UnitInv, CancelInv, QueuedInv, InterruptInv, Over, Queued, Unlaunched, Refused, VerdictInv
<1>1. CASE WriteRequest
  BY <1>1 DEF WriteRequest
<1>2. CASE WriteQueued
  BY <1>2 DEF WriteQueued
<1>3. CASE Launch
  BY <1>3 DEF Launch
<1>4. CASE RecordLaunchFailure
  BY <1>4 DEF RecordLaunchFailure, SetStatus
<1>5. CASE LaunchRefused
  BY <1>5 DEF LaunchRefused
<1>6. CASE SubmitterDies
  BY <1>6 DEF SubmitterDies
<1>7. CASE StartUnit
  BY <1>7 DEF StartUnit
<1>8. CASE LoadBinding
  BY <1>8 DEF LoadBinding, UnitGone
<1>9. CASE MarkRunning
  BY <1>9 DEF MarkRunning
<1>10. CASE FinishStatus
  BY <1>10 DEF FinishStatus, SetStatus, Verdict
<1>11. CASE FinishResult
  BY <1>11 DEF FinishResult, Verdict
<1>12. CASE WorkerExits
  BY <1>12 DEF WorkerExits, UnitGone
<1>13. CASE CodexExits
  BY <1>13 DEF CodexExits
<1>14. CASE WorkerDies
  BY <1>14 DEF WorkerDies, UnitGone
<1>15. CASE GraceEnds
  BY <1>15 DEF GraceEnds, Observable, Active
<1>16. CASE Rebind
  BY <1>16 DEF Rebind
<1>17. ASSUME NEW c \in Callers, NEW op \in {"status", "cancel"}, Call(c, op)
       PROVE  VerdictInv'
  BY <1>17 DEF Call, Idle, NoStatus
<1>18. ASSUME NEW c \in Callers, Show(c) PROVE VerdictInv'
  BY <1>18 DEF Show, Active
<1>19. ASSUME NEW c \in Callers, Decide(c) PROVE VerdictInv'
  BY <1>19 DEF Decide, Answer, Idle, NoStatus, Goto, NotInterrupted, WithinGrace
<1>20. ASSUME NEW c \in Callers, PersistInterrupted(c) PROVE VerdictInv'
  BY <1>20 DEF PersistInterrupted, Answer, Idle, NoStatus, Goto
<1>21. ASSUME NEW c \in Callers, Stop(c) PROVE VerdictInv'
  BY <1>21 DEF Stop, UnitGone
<1>22. ASSUME NEW c \in Callers, Recheck(c) PROVE VerdictInv'
  BY <1>22 DEF Recheck, Answer, Idle, NoStatus
<1>23. ASSUME NEW c \in Callers, PersistCancelled(c) PROVE VerdictInv'
  BY <1>23 DEF PersistCancelled, Answer, Idle, NoStatus, Goto
<1>24. ASSUME NEW c \in Callers, StopTimesOut(c) PROVE VerdictInv'
  BY <1>24 DEF StopTimesOut, UnitGone, Answer, Idle, NoStatus
<1>25. ASSUME NEW c \in Callers, CallerDies(c) PROVE VerdictInv'
  BY <1>25 DEF CallerDies, Answer, Idle, NoStatus
<1>26. CASE UNCHANGED vars
  BY <1>26 DEF vars
<1> QED
  BY NextSplit, <1>1, <1>2, <1>3, <1>4, <1>5, <1>6, <1>7, <1>8, <1>9, <1>10, <1>11, <1>12, <1>13, <1>14, <1>15, <1>16, <1>17, <1>18, <1>19, <1>20, <1>21, <1>22, <1>23, <1>24, <1>25, <1>26

(***************************************************************************)
(* Theorems                                                                *)
(***************************************************************************)
LEMMA MisledForEver ==
    ASSUME [Next]_vars, ~misled', TypeOK
    PROVE  ~misled
<1> USE DEF TypeOK
<1> QED
  BY NextSplit
     DEF WriteRequest, WriteQueued, Launch, RecordLaunchFailure, LaunchRefused,
         SubmitterDies, StartUnit, LoadBinding, MarkRunning, FinishStatus, FinishResult,
         WorkerExits, CodexExits, WorkerDies, GraceEnds, Rebind, Call, Show, Decide,
         PersistInterrupted, Stop, Recheck, PersistCancelled, StopTimesOut, CallerDies, vars

LEMMA JobInvInit == Init => JobInv
<1> SUFFICES ASSUME Init PROVE JobInv
  OBVIOUS
<1>1. TypeOK
  BY TypeInit
<1> QED
  BY <1>1 DEF Init, JobInv, UnitInv, CancelInv, QueuedInv, InterruptInv, VerdictInv,
         Unlaunched, Refused, Idle, NoStatus

LEMMA JobInvStep == JobInv /\ [Next]_vars => JobInv'
<1> SUFFICES ASSUME JobInv, [Next]_vars PROVE JobInv'
  OBVIOUS
<1>1. TypeOK' /\ UnitInv' /\ CancelInv'
  BY TypeStep, UnitStep, CancelStep DEF JobInv
<1>2. ASSUME ~misled' PROVE QueuedInv' /\ InterruptInv' /\ VerdictInv'
  <2>1. ~misled
    BY <1>2, MisledForEver DEF JobInv
  <2> QED
    BY <1>2, <2>1, QueuedStep, InterruptStep, VerdictStep DEF JobInv
<1> QED
  BY <1>1, <1>2 DEF JobInv

THEOREM JobInvariant == Spec => []JobInv
  BY JobInvInit, JobInvStep, PTL DEF Spec

\* Whatever systemd answers and whoever dies: a job answered "cancelled" has no unit
\* left (cancel() stops the unit before it writes, codex_jobs.py).
THEOREM CancelledJobsAreStopped == Spec => []CancelledIsStopped
<1>1. JobInv => CancelledIsStopped
  BY DEF JobInv, CancelInv, Over, CancelledIsStopped
<1> QED
  BY <1>1, JobInvariant, PTL

\* No job with a result runs Codex, for any number of concurrent callers.
THEOREM EndedJobsAreStopped == Spec => []EndedJobIsStopped
<1>1. JobInv => EndedJobIsStopped
  BY DEF JobInv, UnitInv, InterruptInv, Over, EndedJobIsStopped
<1> QED
  BY <1>1, JobInvariant, PTL

\* No caller ever replaces the verdict of the worker.
THEOREM WorkerVerdictsAreKept == Spec => WorkerVerdictKept
<1>1. JobInv /\ [Next]_vars
        => [(~misled' /\ result \in {"succeeded", "failed"}) => (result' = result)]_vars
  <2> SUFFICES ASSUME JobInv, [Next]_vars, ~misled', result \in {"succeeded", "failed"}
               PROVE  result' = result
    OBVIOUS
  <2>1. TypeOK /\ QueuedInv /\ InterruptInv /\ VerdictInv /\ UnitInv
    BY MisledForEver DEF JobInv
  <2> QED
    BY <2>1, NextSplit
       DEF TypeOK, UnitInv, InterruptInv, VerdictInv, Over, Refused, Terminal,
           WriteRequest, WriteQueued, Launch, RecordLaunchFailure, LaunchRefused,
           SubmitterDies, StartUnit, LoadBinding, MarkRunning, FinishStatus, FinishResult,
           WorkerExits, CodexExits, WorkerDies, GraceEnds, Rebind, Call, Show, Decide,
           PersistInterrupted, Stop, Recheck, PersistCancelled, StopTimesOut, CallerDies, vars
<1> QED
  BY <1>1, JobInvariant, PTL DEF Spec, WorkerVerdictKept
=============================================================================
