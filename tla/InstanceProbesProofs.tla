------------------------ MODULE InstanceProbesProofs ------------------------
(***************************************************************************)
(* For every number of manager processes and accounts: evidence of GitHub  *)
(* access never goes back in time, because the operation lock is held from *)
(* before anything is asked until the record is written; and a probe that  *)
(* passed has left nothing on the server, because its verdict waits for    *)
(* the answers to its last kill and its last delete.                       *)
(***************************************************************************)
EXTENDS InstanceProbes, TLAPS

Profiles == {"absent", "unmarked", "ready"}
Contexts ==
    [mode : {"managed", "other"}, target : Targets, profile : Profiles \cup {"not applicable"}]

\* Where a process holds the operation lock, and where it has begun to ask.
Asking == {"identity", "mcp", "delete", "write"}
Locked == Asking \cup {"provision", "mark", "helper", "login", "sample"}
OpPc == Locked \cup {"new", "lock", "over"}

Operations ==
    [pc : OpPc, kind : {"verify", "configure", None}, context : Contexts \cup {None},
     began : Nat, seen : Accounts \cup {Unknown, None}, login : BOOLEAN, session : BOOLEAN]

\* What the two parts below need of the types.
Typed ==
    /\ op \in [Procs -> Operations]
    /\ writes \in Nat
    /\ declared \in Settings /\ profile \in Profiles
    /\ credential \in Accounts \cup {None}
    /\ stateful \in BOOLEAN

\* Only the holder of the lock is between taking and releasing it.
OneOperation == \A p \in Procs : op[p].pc \in Locked => holder = p

\* No record has been written since the answers that will be were asked for.
AskedSinceLastRecord == \A p \in Procs : op[p].pc \in Asking => op[p].began = writes

EvidenceInv == Typed /\ OneOperation /\ AskedSinceLastRecord

LEMMA EvidenceInvInit == Init => EvidenceInv
<1> SUFFICES ASSUME Init PROVE EvidenceInv
    OBVIOUS
<1>1. NoOp \in Operations /\ NoOp.pc \notin Locked
    BY DEF NoOp, Operations, OpPc, Locked, Asking
<1>2. declared \in Settings /\ profile \in Profiles
    BY DEF Init, GithubInit, Profiles
<1>3. op = [p \in Procs |-> NoOp] /\ writes = 0 /\ credential = None /\ stateful \in BOOLEAN
    BY DEF Init, GithubInit, ContinuityInit
<1> QED
    BY <1>1, <1>2, <1>3 DEF EvidenceInv, Typed, OneOperation, AskedSinceLastRecord, Locked

\* A process that moves within the lock, or out of it, without writing a record.
LEMMA Moves ==
    ASSUME EvidenceInv, NEW p \in Procs, NEW next \in Operations,
           op' = [op EXCEPT ![p] = next],
           writes' = writes, declared' \in Settings, profile' \in Profiles,
           credential' \in Accounts \cup {None}, stateful' = stateful,
           \/ holder' = holder
           \/ (holder' = None \/ holder' = p) /\ (holder = p \/ holder = None),
           next.pc \in Locked => holder' = p,
           next.pc \in Asking => next.began = writes
    PROVE  EvidenceInv'
<1> USE GithubAssumption DEF EvidenceInv, Typed, OneOperation, AskedSinceLastRecord
<1>1. Typed'
    OBVIOUS
<1>2. \A q \in Procs : op'[q] = IF q = p THEN next ELSE op[q]
    OBVIOUS
<1>3. OneOperation'
    BY <1>2
<1>4. AskedSinceLastRecord'
    BY <1>2
<1> QED
    BY <1>1, <1>3, <1>4

\* A process goes on to another place with nothing of its operation changed.
LEMMA GoesOn ==
    ASSUME EvidenceInv, NEW p \in Procs, NEW pc \in OpPc \ Asking, Step(p, pc),
           writes' = writes, declared' = declared, profile' \in Profiles,
           credential' \in Accounts \cup {None}, stateful' = stateful,
           \/ holder' = holder
           \/ (holder' = None \/ holder' = p) /\ (holder = p \/ holder = None),
           pc \in Locked => holder' = p
    PROVE  EvidenceInv'
<1> DEFINE next == [op[p] EXCEPT !.pc = pc]
<1>1. op[p] \in Operations /\ declared \in Settings
    BY DEF EvidenceInv, Typed
<1>2. next \in Operations /\ next.pc = pc
    BY <1>1 DEF Operations
<1>3. op' = [op EXCEPT ![p] = next]
    BY DEF Step, Op
<1> HIDE DEF next
<1> QED
    BY <1>1, <1>2, <1>3, Moves

LEMMA GithubStepKeeps ==
    ASSUME EvidenceInv, NEW p \in Procs, GithubStep(p), stateful' = stateful
    PROVE  EvidenceInv'
<1>1. /\ op[p] \in Operations /\ writes \in Nat /\ stateful \in BOOLEAN
      /\ declared \in Settings /\ profile \in Profiles /\ credential \in Accounts \cup {None}
    BY DEF EvidenceInv, Typed
<1>2. op[p].pc \in Locked => holder = p
    BY DEF EvidenceInv, OneOperation
<1>3. op[p].pc \in Asking => op[p].began = writes
    BY DEF EvidenceInv, AskedSinceLastRecord
<1> USE DEF In, state, OpPc, Locked, Asking
<1>4. CASE OperationLock(p)
    <2>1. PICK pc \in {"sample", "provision"} : Step(p, pc)
        BY <1>4 DEF OperationLock
    <2> QED
        BY <1>4, <1>1, <2>1, GoesOn DEF OperationLock, Free
<1>5. CASE Busy(p)
    BY <1>5, <1>1, GoesOn DEF Busy
<1>6. CASE EnsureProfile(p)
    <2>1. PICK pc \in {"over", "mark", "helper"} :
            /\ Step(p, pc)
            /\ IF pc = "over" THEN holder' = None ELSE UNCHANGED holder
            /\ profile' \in Profiles
        BY <1>6, <1>1 DEF EnsureProfile, Release, Profiles
    <2> QED
        BY <1>6, <1>1, <1>2, <2>1, GoesOn DEF EnsureProfile
<1>7. CASE MarkProfile(p)
    BY <1>7, <1>1, <1>2, GoesOn DEF MarkProfile, Profiles
<1>8. CASE NothingAsked(p)
    BY <1>8, <1>1, <1>2, GoesOn DEF NothingAsked, Release
<1>9. CASE Enter(p)
    <2>1. CASE Step(p, "sample")
        BY <1>9, <1>1, <1>2, <2>1, GoesOn DEF Enter
    <2>2. CASE Op(p, [op[p] EXCEPT !.pc = "login", !.login = TRUE])
        <3> DEFINE next == [op[p] EXCEPT !.pc = "login", !.login = TRUE]
        <3>1. next \in Operations /\ next.pc = "login"
            BY <1>1 DEF Operations
        <3>2. op' = [op EXCEPT ![p] = next]
            BY <2>2 DEF Op
        <3> HIDE DEF next
        <3> QED
            BY <1>9, <1>1, <1>2, <3>1, <3>2, Moves DEF Enter
    <2> QED
        BY <1>9, <2>1, <2>2 DEF Enter
<1>10. CASE LoginEnds(p)
    <2>1. Step(p, "sample") /\ credential' \in Accounts \cup {None}
        BY <1>10, <1>1 DEF LoginEnds, AfterLogin
    <2> QED
        BY <1>10, <1>1, <1>2, <2>1, GoesOn DEF LoginEnds
<1>11. CASE HelperKilled(p)
    BY <1>11, <1>1, <1>2, GoesOn DEF HelperKilled
<1>12. CASE LateLogin(p)
    BY <1>12, <1>1 DEF LateLogin, EvidenceInv, Typed, OneOperation, AskedSinceLastRecord
<1>13. CASE Sample(p)
    <2>1. PICK asked \in BOOLEAN :
            op' = [op EXCEPT ![p] = [op[p] EXCEPT !.pc = IF asked THEN "identity" ELSE "write",
                               !.context = Context, !.began = writes, !.seen = Unknown]]
        BY <1>13 DEF Sample, Op
    <2> DEFINE next == [op[p] EXCEPT !.pc = IF asked THEN "identity" ELSE "write",
                               !.context = Context, !.began = writes, !.seen = Unknown]
    <2>2. Context \in Contexts
        BY <1>1 DEF Context, Contexts, Settings
    <2>3. next \in Operations /\ next.began = writes
        BY <1>1, <2>2 DEF Operations
    <2> HIDE DEF next
    <2>4. op' = [op EXCEPT ![p] = next]
        BY <2>1 DEF next
    <2> QED
        BY <1>13, <1>1, <1>2, <2>3, <2>4, Moves DEF Sample
<1>14. CASE AskGithub(p)
    <2>1. PICK a \in {credential, Unknown} :
            op' = [op EXCEPT ![p] =
                [op[p] EXCEPT !.pc = IF a \in Accounts THEN "mcp" ELSE "write", !.seen = a]]
        BY <1>14 DEF AskGithub, Op
    <2> DEFINE next == [op[p] EXCEPT !.pc = IF a \in Accounts THEN "mcp" ELSE "write", !.seen = a]
    <2>2. next \in Operations /\ next.began = op[p].began
        BY <1>1 DEF Operations
    <2> HIDE DEF next
    <2>3. op' = [op EXCEPT ![p] = next]
        BY <2>1 DEF next
    <2> QED
        BY <1>14, <1>1, <1>2, <1>3, <2>2, <2>3, Moves DEF AskGithub
<1>15. CASE McpSession(p)
    <2>1. PICK next \in {[op[p] EXCEPT !.pc = "delete", !.session = stateful],
                         [op[p] EXCEPT !.pc = "write"]} : op' = [op EXCEPT ![p] = next]
        BY <1>15 DEF McpSession, Op, Step
    <2>2. next \in Operations /\ next.began = op[p].began
        BY <1>1 DEF Operations
    <2> QED
        BY <1>15, <1>1, <1>2, <1>3, <2>1, <2>2, Moves DEF McpSession
<1>16. CASE McpDelete(p)
    <2> DEFINE next == [op[p] EXCEPT !.pc = "write", !.session = FALSE]
    <2>1. next \in Operations /\ next.began = op[p].began
        BY <1>1 DEF Operations
    <2>2. op' = [op EXCEPT ![p] = next]
        BY <1>16 DEF McpDelete, Op
    <2> HIDE DEF next
    <2> QED
        BY <1>16, <1>1, <1>2, <1>3, <2>1, <2>2, Moves DEF McpDelete
<1>17. CASE WriteRecord(p)
    <2>1. op[p].pc = "write" /\ holder = p /\ writes' = writes + 1
        BY <1>17, <1>2 DEF WriteRecord
    <2>2. op' = [op EXCEPT ![p] = [op[p] EXCEPT !.pc = "over"]] /\ holder' = None
        BY <1>17 DEF WriteRecord, Release, Step, Op
    <2>3. [op[p] EXCEPT !.pc = "over"] \in Operations
        BY <1>1 DEF Operations
    <2>4. \A q \in Procs : op'[q].pc \notin Locked
        BY <2>1, <2>2, <1>1 DEF EvidenceInv, OneOperation, Typed, Operations
    <2>5. Typed'
        BY <1>17, <1>1, <2>1, <2>2, <2>3 DEF WriteRecord, EvidenceInv, Typed
    <2> QED
        BY <2>4, <2>5 DEF EvidenceInv, OneOperation, AskedSinceLastRecord
<1>18. CASE Dies(p)
    BY <1>18, <1>1, GoesOn DEF Dies, InLock, Release
<1> QED
    BY <1>4, <1>5, <1>6, <1>7, <1>8, <1>9, <1>10, <1>11, <1>12, <1>13, <1>14, <1>15, <1>16,
       <1>17, <1>18 DEF GithubStep

\* The probes leave the GitHub side alone, and nothing ever makes a server
\* stateful or stateless.
LEMMA ProbesStayOut ==
    ASSUME EvidenceInv, UNCHANGED github, stateful' = stateful
    PROVE  EvidenceInv'
BY DEF EvidenceInv, Typed, OneOperation, AskedSinceLastRecord, github

LEMMA ServerKeepsItsKind ==
    ASSUME NEW p \in Procs
    PROVE  /\ ContinuityStep(p) => stateful' = stateful
           /\ GithubStep(p) => stateful' = stateful
           /\ StartProbe(p) => stateful' = stateful
<1>1. ContinuityStep(p) => stateful' = stateful
    BY DEF ContinuityStep, Initialize, ExecCommand, Interact, FreshSession, CrossKill, KillSession,
           Done, Raises, DeleteFresh, LastKill, DeleteMine, Return, server
<1>2. GithubStep(p) => stateful' = stateful
    BY DEF GithubStep, OperationLock, Busy, EnsureProfile, MarkProfile, NothingAsked, Enter,
           LoginEnds, HelperKilled, LateLogin, Sample, AskGithub, McpSession, McpDelete,
           WriteRecord, Dies, server
<1>3. StartProbe(p) => stateful' = stateful
    BY DEF StartProbe, server
<1> QED
    BY <1>1, <1>2, <1>3

LEMMA EvidenceInvStep == EvidenceInv /\ [Next]_vars => EvidenceInv'
<1> SUFFICES ASSUME EvidenceInv, [Next]_vars PROVE EvidenceInv'
    OBVIOUS
<1>1. ASSUME NEW p \in Procs, StartProbe(p) \/ ContinuityStep(p), UNCHANGED github
      PROVE  EvidenceInv'
    BY <1>1, ServerKeepsItsKind, ProbesStayOut
<1>2. ASSUME NEW p \in Procs, NEW kind \in {"verify", "configure"}, Idle(p), Begin(p, kind)
      PROVE  EvidenceInv'
    <2> DEFINE next == [NoOp EXCEPT !.pc = "lock", !.kind = kind]
    <2>1. next \in Operations /\ next.pc \notin Locked
        BY DEF NoOp, Operations, OpPc, Locked, Asking
    <2>2. op' = [op EXCEPT ![p] = next]
        BY <1>2 DEF Begin, Op
    <2>3. /\ writes' = writes /\ declared' \in Settings /\ profile' \in Profiles
          /\ credential' \in Accounts \cup {None} /\ stateful' = stateful /\ holder' = holder
        BY <1>2 DEF Begin, state, server, EvidenceInv, Typed
    <2> HIDE DEF next
    <2> QED
        BY <2>1, <2>2, <2>3, Moves DEF Locked
<1>3. ASSUME NEW p \in Procs, GithubStep(p)
      PROVE  EvidenceInv'
    BY <1>3, ServerKeepsItsKind, GithubStepKeeps
<1>4. CASE (CommandExpires \/ ServerRestarts) /\ UNCHANGED github
    BY <1>4, ProbesStayOut DEF CommandExpires, ServerRestarts
<1>5. CASE Redeclare
    <2>1. declared' \in Settings
        BY <1>5 DEF Redeclare, EvidenceInv, Typed, Settings
    <2> QED
        BY <1>5, <2>1 DEF Redeclare, server, EvidenceInv, Typed, OneOperation, AskedSinceLastRecord
<1>6. CASE UNCHANGED vars
    BY <1>6, ProbesStayOut DEF vars, server
<1> QED
    BY <1>1, <1>2, <1>3, <1>4, <1>5, <1>6 DEF Next

\* A record is only written by an operation that asked after the last one.
LEMMA RecordsInOrder ==
    EvidenceInv /\ [Next]_vars => [record' # record => record'.began = writes]_github
<1> SUFFICES ASSUME EvidenceInv, [Next]_vars, record' # record PROVE record'.began = writes
    BY DEF github
<1>1. PICK p \in Procs : WriteRecord(p)
    BY DEF Next, vars, github, state, Begin, Redeclare, GithubStep, OperationLock, Busy,
           EnsureProfile, MarkProfile, NothingAsked, Enter, LoginEnds, HelperKilled, LateLogin,
           Sample, AskGithub, McpSession, McpDelete, Dies
<1>2. op[p].began = writes
    BY <1>1 DEF WriteRecord, In, EvidenceInv, AskedSinceLastRecord, Asking
<1> QED
    BY <1>1, <1>2 DEF WriteRecord

\* Evidence of GitHub access is never replaced by evidence that was asked for
\* before it, whoever verifies or configures at the same time and whoever
\* dies meanwhile: `verify` and `configure` ask and write under the one
\* operation lock.
THEOREM EvidenceInOrder == Spec => LatestEvidenceWins
<1>1. Spec => []EvidenceInv
    BY EvidenceInvInit, EvidenceInvStep, PTL DEF Spec
<1>2. EvidenceInv /\ [Next]_vars => [record' # record => record'.began = writes]_github
    BY RecordsInOrder
<1> QED
    BY <1>1, <1>2, PTL DEF Spec, LatestEvidenceWins

(***************************************************************************)
(* The truth of evidence.                                                  *)
(***************************************************************************)
LEMMA ContextTellsMode == Context.mode = declared.mode
BY Zenon DEF Context

\* The account o has seen is still the one that is logged in, for an instance
\* that was declared managed.
SeenTrue(o) ==
    \/ o.seen = Unknown
    \/ o.context.mode = "managed" /\ (exposed \/ o.seen = credential)

\* What the place of an operation says of it.
OpTrue(o) ==
    /\ o.pc \in {"lock", "provision", "mark", "helper"} => ~o.login
    /\ o.pc = "login" => o.login
    /\ o.pc = "identity" => o.context.mode = "managed"
    /\ o.pc \in {"mcp", "delete", "write"} => SeenTrue(o)

\* An operation that has logged in, and will write a record.
LoggingIn(o) == o.pc \in Locked /\ o.login

RecordTrue ==
    record = None \/ record.account = Unknown \/
        /\ record.context.mode = "managed"
        /\ exposed \/ record.account = credential \/ \E p \in Procs : LoggingIn(op[p])

TruthInv ==
    /\ exposed \in BOOLEAN /\ (logins # {} => exposed)
    /\ \A p \in Procs : OpTrue(op[p])
    /\ RecordTrue

LEMMA TruthInvInit == Init => TruthInv
<1> SUFFICES ASSUME Init PROVE TruthInv
    OBVIOUS
<1>1. exposed = FALSE /\ logins = {} /\ record = None
    BY DEF Init, GithubInit
<1>2. \A p \in Procs : op[p] = NoOp
    BY DEF Init, GithubInit
<1>3. OpTrue(NoOp)
    BY DEF OpTrue, NoOp
<1> QED
    BY <1>1, <1>2, <1>3 DEF TruthInv, RecordTrue

\* A process that moves on without a login that is lost to view.
LEMMA TruthMoves ==
    ASSUME EvidenceInv, TruthInv, NEW p \in Procs, NEW next, op' = [op EXCEPT ![p] = next],
           record' = record, credential' = credential, exposed' = exposed, logins' = logins,
           OpTrue(next), LoggingIn(op[p]) => LoggingIn(next)
    PROVE  TruthInv'
<1>1. \A q \in Procs : op'[q] = IF q = p THEN next ELSE op[q]
    BY DEF EvidenceInv, Typed
<1>2. \A q \in Procs : OpTrue(op[q])'
    BY <1>1 DEF TruthInv, OpTrue, SeenTrue
<1>3. (\E q \in Procs : LoggingIn(op[q])) => \E q \in Procs : LoggingIn(op'[q])
    BY <1>1
<1>4. RecordTrue'
    BY <1>3 DEF TruthInv, RecordTrue, LoggingIn
<1> QED
    BY <1>2, <1>4 DEF TruthInv

\* A process at a given place moves to another with nothing else changed.
LEMMA TruthGoesOn ==
    ASSUME EvidenceInv, TruthInv, NEW p \in Procs, NEW pc, Step(p, pc),
           record' = record, credential' = credential, exposed' = exposed, logins' = logins,
           OpTrue([op[p] EXCEPT !.pc = pc]), LoggingIn(op[p]) => pc \in Locked
    PROVE  TruthInv'
<1> DEFINE next == [op[p] EXCEPT !.pc = pc]
<1>1. op' = [op EXCEPT ![p] = next]
    BY DEF Step, Op
<1>2. op[p] \in Operations
    BY DEF EvidenceInv, Typed
<1>3. next.pc = pc /\ next.login = op[p].login
    BY <1>2 DEF Operations
<1>4. OpTrue(next) /\ (LoggingIn(op[p]) => LoggingIn(next))
    BY <1>3 DEF LoggingIn
<1> HIDE DEF next
<1> QED
    BY <1>1, <1>4, TruthMoves

\* Once a login may have gone unseen, nothing more is claimed.
LEMMA ExposedIsTrue ==
    ASSUME TruthInv, exposed' = TRUE, record' = record,
           \A q \in Procs : op'[q] = op[q] \/ op'[q].pc \in {"sample", "over"}
    PROVE  TruthInv'
<1>1. \A q \in Procs : OpTrue(op[q])'
    BY DEF TruthInv, OpTrue, SeenTrue
<1> QED
    BY <1>1 DEF TruthInv, RecordTrue

LEMMA GithubStepIsTrue ==
    ASSUME EvidenceInv, TruthInv, NEW p \in Procs, GithubStep(p)
    PROVE  TruthInv'
<1>1. /\ op[p] \in Operations /\ credential \in Accounts \cup {None} /\ OpTrue(op[p])
      /\ declared \in Settings
    BY DEF EvidenceInv, Typed, TruthInv
<1>2. op[p].pc \in Locked => \A q \in Procs \ {p} : op[q].pc \notin Locked
    BY DEF EvidenceInv, OneOperation
<1> USE DEF In, state
<1>3. CASE OperationLock(p)
    <2>1. PICK pc \in {"sample", "provision"} : Step(p, pc)
        BY <1>3 DEF OperationLock
    <2>2. OpTrue([op[p] EXCEPT !.pc = pc]) /\ ~LoggingIn(op[p])
        BY <1>3, <1>1 DEF OperationLock, OpTrue, Operations, LoggingIn
    <2> QED
        BY <1>3, <2>1, <2>2, TruthGoesOn DEF OperationLock
<1>4. CASE Busy(p) \/ NothingAsked(p)
    <2>1. OpTrue([op[p] EXCEPT !.pc = "over"]) /\ ~LoggingIn(op[p]) /\ Step(p, "over")
        BY <1>4, <1>1 DEF Busy, NothingAsked, Release, OpTrue, Operations, LoggingIn, Locked, Asking
    <2> QED
        BY <1>4, <2>1, TruthGoesOn DEF Busy, NothingAsked
<1>5. CASE EnsureProfile(p) \/ MarkProfile(p)
    <2>1. PICK pc \in {"over", "mark", "helper"} : Step(p, pc)
        BY <1>5 DEF EnsureProfile, MarkProfile, Release
    <2>2. OpTrue([op[p] EXCEPT !.pc = pc]) /\ ~LoggingIn(op[p])
        BY <1>5, <1>1 DEF EnsureProfile, MarkProfile, OpTrue, Operations, LoggingIn
    <2> QED
        BY <1>5, <2>1, <2>2, TruthGoesOn DEF EnsureProfile, MarkProfile
<1>6. CASE Enter(p)
    <2>1. CASE Step(p, "sample")
        <3>1. OpTrue([op[p] EXCEPT !.pc = "sample"])
            BY <1>1 DEF OpTrue, Operations
        <3> QED
            BY <1>6, <2>1, <3>1, TruthGoesOn DEF Enter, Locked
    <2>2. CASE Op(p, [op[p] EXCEPT !.pc = "login", !.login = TRUE])
        <3> DEFINE next == [op[p] EXCEPT !.pc = "login", !.login = TRUE]
        <3>1. next.pc = "login" /\ next.login
            BY <1>1 DEF Operations
        <3>2. op' = [op EXCEPT ![p] = next]
            BY <2>2 DEF Op
        <3> HIDE DEF next
        <3> QED
            BY <1>6, <3>1, <3>2, TruthMoves DEF Enter, OpTrue, LoggingIn, Locked
    <2> QED
        BY <1>6, <2>1, <2>2 DEF Enter
<1>7. CASE LoginEnds(p)
    <2>1. /\ op[p].pc = "login" /\ record' = record /\ exposed' = exposed /\ logins' = logins
          /\ op' = [op EXCEPT ![p] = [op[p] EXCEPT !.pc = "sample"]]
        BY <1>7 DEF LoginEnds, AfterLogin, Step, Op
    <2>2. op'[p].pc = "sample" /\ op'[p].login /\ \A q \in Procs \ {p} : op'[q] = op[q]
        BY <2>1, <1>1 DEF OpTrue, Operations, EvidenceInv, Typed
    <2>3. \A q \in Procs : OpTrue(op[q])'
        BY <2>1, <2>2, <1>2 DEF TruthInv, OpTrue, Locked, Asking
    <2>4. LoggingIn(op'[p])
        BY <2>2 DEF LoggingIn, Locked
    <2>5. RecordTrue'
        BY <2>1, <2>4 DEF TruthInv, RecordTrue
    <2> QED
        BY <2>1, <2>3, <2>5 DEF TruthInv
<1>8. CASE HelperKilled(p)
    <2>1. \A q \in Procs : op'[q] = op[q] \/ op'[q].pc = "sample"
        BY <1>8, <1>1 DEF HelperKilled, Step, Op, EvidenceInv, Typed, Operations
    <2> QED
        BY <1>8, <2>1, ExposedIsTrue DEF HelperKilled
<1>9. CASE LateLogin(p)
    BY <1>9, ExposedIsTrue DEF LateLogin, TruthInv
<1>10. CASE Sample(p)
    <2>1. PICK asked \in BOOLEAN :
            /\ asked => ProfileReady
            /\ op' = [op EXCEPT ![p] = [op[p] EXCEPT !.pc = IF asked THEN "identity" ELSE "write",
                               !.context = Context, !.began = writes, !.seen = Unknown]]
        BY <1>10 DEF Sample, Op
    <2> DEFINE next == [op[p] EXCEPT !.pc = IF asked THEN "identity" ELSE "write",
                               !.context = Context, !.began = writes, !.seen = Unknown]
    <2>2. /\ next.pc = IF asked THEN "identity" ELSE "write"
          /\ next.seen = Unknown /\ next.context = Context /\ next.login = op[p].login
        BY <1>1 DEF Operations
    <2>3. op' = [op EXCEPT ![p] = next]
        BY <2>1
    <2> HIDE DEF next
    <2>4. OpTrue(next)
        BY <2>1, <2>2, ContextTellsMode DEF OpTrue, SeenTrue, ProfileReady
    <2> QED
        BY <1>10, <2>2, <2>3, <2>4, TruthMoves DEF Sample, LoggingIn, Locked, Asking
<1>11. CASE AskGithub(p)
    <2>1. PICK a \in {credential, Unknown} :
            op' = [op EXCEPT ![p] =
                [op[p] EXCEPT !.pc = IF a \in Accounts THEN "mcp" ELSE "write", !.seen = a]]
        BY <1>11 DEF AskGithub, Op
    <2> DEFINE next == [op[p] EXCEPT !.pc = IF a \in Accounts THEN "mcp" ELSE "write", !.seen = a]
    <2>2. /\ next.pc \in {"mcp", "write"} /\ next.seen = a
          /\ next.context = op[p].context /\ next.login = op[p].login
        BY <1>1 DEF Operations
    <2>3. op' = [op EXCEPT ![p] = next]
        BY <2>1
    <2> HIDE DEF next
    <2>4. OpTrue(next)
        BY <1>11, <1>1, <2>2 DEF AskGithub, OpTrue, SeenTrue
    <2> QED
        BY <1>11, <2>2, <2>3, <2>4, TruthMoves DEF AskGithub, LoggingIn, Locked, Asking
<1>12. CASE McpSession(p) \/ McpDelete(p)
    <2>1. PICK next \in {[op[p] EXCEPT !.pc = "delete", !.session = stateful],
                         [op[p] EXCEPT !.pc = "write"],
                         [op[p] EXCEPT !.pc = "write", !.session = FALSE]} :
            op' = [op EXCEPT ![p] = next]
        BY <1>12 DEF McpSession, McpDelete, Op, Step
    <2>2. /\ next.pc \in {"delete", "write"} /\ next.seen = op[p].seen
          /\ next.context = op[p].context /\ next.login = op[p].login
        BY <1>1 DEF Operations
    <2>3. op[p].pc \in {"mcp", "delete"} /\ UNCHANGED state
        BY <1>12 DEF McpSession, McpDelete
    <2>4. OpTrue(next)
        BY <1>1, <2>2, <2>3 DEF OpTrue, SeenTrue
    <2> QED
        BY <2>1, <2>2, <2>3, <2>4, TruthMoves DEF LoggingIn, Locked, Asking
<1>13. CASE WriteRecord(p)
    <2>1. /\ op[p].pc = "write" /\ UNCHANGED <<credential, logins, exposed>>
          /\ record'.context = op[p].context /\ record'.account = op[p].seen
        BY <1>13 DEF WriteRecord, ContextProbed
    <2>2. \A q \in Procs : op'[q] = op[q] \/ op'[q].pc = "over"
        BY <1>13, <1>1 DEF WriteRecord, Release, Step, Op, EvidenceInv, Typed, Operations
    <2>3. \A q \in Procs : OpTrue(op[q])'
        BY <2>1, <2>2 DEF TruthInv, OpTrue, SeenTrue
    <2>4. SeenTrue(op[p])
        BY <2>1, <1>1 DEF OpTrue
    <2>5. RecordTrue'
        BY <2>1, <2>4 DEF RecordTrue, SeenTrue
    <2> QED
        BY <2>1, <2>3, <2>5 DEF TruthInv
<1>14. CASE Dies(p)
    <2>1. \A q \in Procs : op'[q] = op[q] \/ op'[q].pc = "over"
        BY <1>14, <1>1 DEF Dies, Release, Step, Op, EvidenceInv, Typed, Operations
    <2>2. CASE op[p].login \/ exposed
        BY <1>14, <2>1, <2>2, ExposedIsTrue DEF Dies, Unseen
    <2>3. CASE ~op[p].login /\ ~exposed
        <3>1. op[p].pc # "login" /\ exposed' = exposed /\ logins' = logins
            <4>1. exposed \in BOOLEAN /\ op[p].login \in BOOLEAN
                BY <1>1 DEF TruthInv, Operations
            <4>2. op[p].pc # "login" /\ exposed' = FALSE /\ exposed = FALSE
                BY <1>14, <1>1, <2>3, <4>1 DEF Dies, Unseen, OpTrue
            <4> QED
                BY <1>14, <4>2 DEF Dies
        <3>2. OpTrue([op[p] EXCEPT !.pc = "over"])
            BY <1>1 DEF OpTrue, Operations
        <3>3. ~LoggingIn(op[p]) /\ Step(p, "over")
            BY <1>14, <2>3 DEF Dies, Release, LoggingIn
        <3>4. record' = record /\ credential' = credential
            BY <1>14 DEF Dies
        <3> QED
            BY <3>1, <3>2, <3>3, <3>4, TruthGoesOn
    <2> QED
        BY <2>2, <2>3
<1> QED
    BY <1>3, <1>4, <1>5, <1>6, <1>7, <1>8, <1>9, <1>10, <1>11, <1>12, <1>13, <1>14
    DEF GithubStep

LEMMA TruthInvStep == EvidenceInv /\ TruthInv /\ [Next]_vars => TruthInv'
<1> SUFFICES ASSUME EvidenceInv, TruthInv, [Next]_vars PROVE TruthInv'
    OBVIOUS
<1>1. ASSUME UNCHANGED <<op, credential, record, logins, exposed>>
      PROVE  TruthInv'
    BY <1>1 DEF TruthInv, OpTrue, SeenTrue, RecordTrue
<1>2. ASSUME NEW p \in Procs, NEW kind \in {"verify", "configure"}, Idle(p), Begin(p, kind)
      PROVE  TruthInv'
    <2> DEFINE next == [NoOp EXCEPT !.pc = "lock", !.kind = kind]
    <2>1. next.pc = "lock" /\ ~next.login
        BY DEF NoOp
    <2>2. op' = [op EXCEPT ![p] = next]
        BY <1>2 DEF Begin, Op
    <2>3. UNCHANGED <<record, credential, exposed, logins>> /\ op[p].pc = "new"
        BY <1>2 DEF Begin, state, Idle, In
    <2> HIDE DEF next
    <2> QED
        BY <2>1, <2>2, <2>3, TruthMoves DEF OpTrue, LoggingIn, Locked, Asking
<1>3. ASSUME NEW p \in Procs, GithubStep(p)
      PROVE  TruthInv'
    BY <1>3, GithubStepIsTrue
<1>4. UNCHANGED github \/ Redeclare => UNCHANGED <<op, credential, record, logins, exposed>>
    BY DEF github, Redeclare
<1> QED
    BY <1>1, <1>2, <1>3, <1>4 DEF Next, vars

\* Evidence that `status` takes for valid names the account that is logged in,
\* if any, whenever nobody is at work, no login was left running and no
\* configure died after its login: what is logged in is verified before the
\* lock is given back.
THEOREM ValidEvidenceIsTrue == Spec => []ValidEvidenceHolds
<1>1. EvidenceInv /\ TruthInv => ValidEvidenceHolds
    <2> SUFFICES ASSUME EvidenceInv, TruthInv, Free, ~exposed, ContextValid
                 PROVE  record.account \in IF declared.mode = "managed" THEN {credential, Unknown}
                                                                        ELSE {Unknown}
        BY DEF ValidEvidenceHolds
    <2>1. \A p \in Procs : ~LoggingIn(op[p])
        BY GithubAssumption DEF EvidenceInv, OneOperation, LoggingIn, Free
    <2>2. record # None /\ record.context.mode = declared.mode
        BY ContextTellsMode DEF ContextValid
    <2> QED
        BY <2>1, <2>2 DEF TruthInv, RecordTrue
<1> QED
    BY <1>1, EvidenceInvInit, EvidenceInvStep, TruthInvInit, TruthInvStep, PTL DEF Spec

(***************************************************************************)
(* The continuity probe.                                                   *)
(***************************************************************************)
Probes ==
    [pc : {"new", "initialize", "exec", "own", "fresh", "cross", "kill", "done", "finally", "over"},
     local : BOOLEAN, mine : BOOLEAN, fresh : BOOLEAN, handle : BOOLEAN, limited : BOOLEAN,
     result : {"unavailable", "failed", "passed", "passed_with_limitations"},
     cleanup : {"unknown", "passed", "failed", "unavailable"}]

Ending == {"finally", "over"}

\* Where p's command is known to be gone.
CommandGone(p) ==
    \/ cont[p].pc \in {"new", "done"}
    \/ cont[p].pc \in Ending /\ cont[p].result # "failed"

\* What p's cleanup and verdict rest on.
CleanupTrue(p) ==
    /\ cont[p].pc \notin Ending => cont[p].cleanup = "unknown"
    /\ cont[p].cleanup = "passed" \/ ~stateful => <<p, "A">> \notin sessions
    /\ cont[p].pc = "over" /\ cont[p].result = "passed" =>
            ~stateful \/ ~cont[p].local \/ cont[p].cleanup = "passed"

ProbesInv ==
    /\ stateful \in BOOLEAN
    /\ cont \in [Procs -> Probes]
    /\ \A p \in Procs : CommandGone(p) => p \notin commands
    /\ \A p \in Procs : CleanupTrue(p)

LEMMA ProbesInvInit == Init => ProbesInv
BY DEF Init, ContinuityInit, NoProbe, ProbesInv, Probes, CommandGone, CleanupTrue, Ending

\* Without a step of a probe, commands and the probes' own sessions only
\* go away.
LEMMA ServerForgets ==
    ASSUME ProbesInv, cont' = cont, stateful' = stateful, commands' \subseteq commands,
           \A p \in Procs : <<p, "A">> \in sessions' => <<p, "A">> \in sessions
    PROVE  ProbesInv'
BY DEF ProbesInv, CommandGone, CleanupTrue

\* The step of one probe adds nothing but its own.
LEMMA ProbeGoesOn ==
    ASSUME ProbesInv, NEW p \in Procs, NEW next \in Probes, Now(p, next), stateful' = stateful,
           commands' \subseteq commands \cup {p},
           \A q \in Procs \ {p} : <<q, "A">> \in sessions' => <<q, "A">> \in sessions,
           CommandGone(p)' => p \notin commands', CleanupTrue(p)'
    PROVE  ProbesInv'
<1> USE DEF ProbesInv, Now
<1>1. \A q \in Procs \ {p} : cont'[q] = cont[q]
    OBVIOUS
<1>2. \A q \in Procs : CommandGone(q)' => q \notin commands'
    BY <1>1 DEF CommandGone
<1>3. \A q \in Procs : CleanupTrue(q)'
    BY <1>1 DEF CleanupTrue
<1> QED
    BY <1>2, <1>3

LEMMA ContinuityStepKeeps ==
    ASSUME ProbesInv, NEW p \in Procs, ContinuityStep(p)
    PROVE  ProbesInv'
<1>1. /\ cont[p] \in Probes /\ stateful \in BOOLEAN /\ stateful' = stateful
      /\ CommandGone(p) => p \notin commands
      /\ CleanupTrue(p)
    BY ServerKeepsItsKind DEF ProbesInv
<1>2. PICK next \in Probes : Now(p, next)
    <2> USE DEF Goto, Failed, Probes
    <2>1. CASE Initialize(p) \/ ExecCommand(p) \/ Interact(p)
        BY <1>1, <2>1 DEF Initialize, ExecCommand, Interact
    <2>2. CASE FreshSession(p)
        BY <1>1, <2>2 DEF FreshSession
    <2>3. CASE CrossKill(p)
        BY <1>1, <2>3 DEF CrossKill
    <2>4. CASE KillSession(p) \/ Raises(p)
        BY <1>1, <2>4 DEF KillSession, Raises
    <2>5. CASE Done(p)
        BY <1>1, <2>5 DEF Done
    <2>6. CASE DeleteFresh(p) \/ LastKill(p)
        BY <1>1, <2>6 DEF DeleteFresh, LastKill
    <2>7. CASE DeleteMine(p)
        BY <1>1, <2>7 DEF DeleteMine
    <2>8. CASE Return(p)
        BY <1>1, <2>8 DEF Return, Verdict
    <2> QED
        BY <2>1, <2>2, <2>3, <2>4, <2>5, <2>6, <2>7, <2>8 DEF ContinuityStep
<1>3. \A x : Now(p, x) => cont'[p] = x
    BY DEF Now, ProbesInv
<1>4. /\ commands' \subseteq commands \cup {p}
      /\ \A q \in Procs \ {p} : <<q, "A">> \in sessions' => <<q, "A">> \in sessions
    BY <1>1 DEF ContinuityStep, Initialize, ExecCommand, Interact, FreshSession, CrossKill,
        KillSession, Done, Raises, DeleteFresh, LastKill, DeleteMine, Return, Open, server
<1>5. ~stateful => <<p, "A">> \notin sessions'
    BY <1>1 DEF ContinuityStep, Initialize, ExecCommand, Interact, FreshSession, CrossKill,
        KillSession, Done, Raises, DeleteFresh, LastKill, DeleteMine, Return, Open, server,
        CleanupTrue
<1> DEFINE Kept == (CommandGone(p)' => p \notin commands') /\ CleanupTrue(p)'
<1>6. ASSUME cont[p].pc \notin Ending, cont'[p].cleanup = cont[p].cleanup,
             \/ cont'[p].pc \notin Ending \cup {"new", "done"}
             \/ cont'[p].pc = "finally" /\ cont'[p].result = "failed"
             \/ cont'[p].pc = "done" /\ p \notin commands'
      PROVE  Kept
    BY <1>1, <1>5, <1>6 DEF CommandGone, CleanupTrue, Ending
<1>7. Kept
    <2>1. CASE Initialize(p)
        BY <2>1, <1>1, <1>3, <1>6 DEF At, Probes, Ending, Initialize, Failed
    <2>2. CASE ExecCommand(p)
        BY <2>2, <1>1, <1>3, <1>6 DEF At, Probes, Ending, ExecCommand, Failed
    <2>3. CASE Interact(p)
        BY <2>3, <1>1, <1>3, <1>6 DEF At, Probes, Ending, Interact, Goto
    <2>4. CASE FreshSession(p)
        BY <2>4, <1>1, <1>3, <1>6 DEF At, Probes, Ending, FreshSession, Failed
    <2>5. CASE CrossKill(p)
        BY <2>5, <1>1, <1>3, <1>6 DEF At, Probes, Ending, CrossKill, CrossSession, Failed
    <2>6. CASE KillSession(p)
        BY <2>6, <1>1, <1>3, <1>6 DEF At, Probes, Ending, KillSession, Failed
    <2>7. CASE Raises(p)
        BY <2>7, <1>1, <1>3, <1>6 DEF At, Probes, Ending, Raises, Failed
    <2>8. CASE Done(p)
        <3>1. /\ cont[p].pc = "done" /\ cont'[p].pc = "finally" /\ UNCHANGED server
              /\ cont'[p].cleanup = cont[p].cleanup
            BY <2>8, <1>1, <1>3 DEF Done, At, Probes
        <3> QED
            BY <3>1, <1>1, <1>5 DEF CommandGone, CleanupTrue, Ending, server
    <2>9. CASE DeleteFresh(p) \/ LastKill(p)
        <3>1. /\ cont[p].pc = "finally" /\ cont'[p].pc = "finally"
              /\ cont'[p].cleanup = cont[p].cleanup /\ cont'[p].result = cont[p].result
            BY <2>9, <1>1, <1>3 DEF DeleteFresh, LastKill, At, Probes
        <3>2. commands' \subseteq commands /\ sessions' \subseteq sessions
            BY <2>9 DEF DeleteFresh, LastKill
        <3> QED
            BY <3>1, <3>2, <1>1, <1>5 DEF CommandGone, CleanupTrue, Ending
    <2>10. CASE DeleteMine(p)
        <3>1. /\ cont[p].pc = "finally" /\ cont'[p].pc = "finally"
              /\ cont'[p].result = cont[p].result
              /\ cont'[p].cleanup = "passed" => <<p, "A">> \notin sessions'
            BY <2>10, <1>1, <1>3 DEF DeleteMine, At, Probes
        <3>2. commands' = commands
            BY <2>10 DEF DeleteMine
        <3> QED
            BY <3>1, <3>2, <1>1, <1>5 DEF CommandGone, CleanupTrue, Ending
    <2>11. CASE Return(p)
        <3>1. /\ cont[p].pc = "finally" /\ cont'[p].pc = "over" /\ UNCHANGED server
              /\ cont'[p].result = Verdict(p)
              /\ cont'[p].cleanup = cont[p].cleanup /\ cont'[p].local = cont[p].local
            BY <2>11, <1>1, <1>3 DEF Return, At, Probes
        <3>2. /\ Verdict(p) # "failed" => cont[p].result # "failed"
              /\ Verdict(p) = "passed" =>
                    ~stateful \/ ~cont[p].local \/ cont[p].cleanup = "passed"
            BY DEF Verdict
        <3> QED
            BY <3>1, <3>2, <1>1, <1>5 DEF CommandGone, CleanupTrue, Ending, server
    <2> QED
        BY <2>1, <2>2, <2>3, <2>4, <2>5, <2>6, <2>7, <2>8, <2>9, <2>10, <2>11
        DEF ContinuityStep
<1> QED
    BY <1>1, <1>2, <1>4, <1>7, ProbeGoesOn

\* Verifying opens and closes sessions of its own.
LEMMA GithubLeavesProbes ==
    ASSUME ProbesInv, NEW p \in Procs, GithubStep(p) \/ (\E kind \in {"verify", "configure"} : Begin(p, kind)),
           cont' = cont
    PROVE  ProbesInv'
<1>1. /\ stateful' = stateful /\ commands' = commands
      /\ \A q \in Procs : <<q, "A">> \in sessions' => <<q, "A">> \in sessions
    BY DEF Begin, GithubStep, OperationLock, Busy, EnsureProfile, MarkProfile, NothingAsked, Enter,
           LoginEnds, HelperKilled, LateLogin, Sample, AskGithub, McpSession, McpDelete,
           WriteRecord, Dies, server, Open
<1> QED
    BY <1>1, ServerForgets

LEMMA ProbesInvStep == ProbesInv /\ [Next]_vars => ProbesInv'
<1> SUFFICES ASSUME ProbesInv, [Next]_vars PROVE ProbesInv'
    OBVIOUS
<1>1. ASSUME NEW p \in Procs, Idle(p), StartProbe(p)
      PROVE  ProbesInv'
    <2>1. PICK next \in Probes :
            /\ Now(p, next) /\ next.pc \in {"initialize", "over"}
            /\ next.result = "unavailable" /\ next.cleanup = "unknown"
        <3> DEFINE Begun(next) ==
                /\ next \in Probes /\ next.pc \in {"initialize", "over"}
                /\ next.result = "unavailable" /\ next.cleanup = "unknown"
        <3>1. \A local \in BOOLEAN : Begun([NoProbe EXCEPT !.pc = "initialize", !.local = local])
            BY DEF NoProbe, Probes
        <3>2. Begun([NoProbe EXCEPT !.pc = "over"])
            BY DEF NoProbe, Probes
        <3>3. \E next : Begun(next) /\ Now(p, next)
            <4> HIDE DEF Begun
            <4> QED
                BY <1>1, <3>1, <3>2, Zenon DEF StartProbe
        <3> QED
            BY <3>3
    <2>2. cont'[p] = next /\ UNCHANGED server
        BY <1>1, <2>1 DEF StartProbe, Now, ProbesInv
    <2>3. p \notin commands /\ CleanupTrue(p)
        BY <1>1 DEF Idle, At, ProbesInv, CommandGone
    <2>4. (CommandGone(p)' => p \notin commands') /\ CleanupTrue(p)'
        BY <2>1, <2>2, <2>3 DEF server, CleanupTrue
    <2> QED
        BY <2>1, <2>2, <2>4, ProbeGoesOn DEF server
<1>2. ASSUME NEW p \in Procs, ContinuityStep(p)
      PROVE  ProbesInv'
    BY <1>2, ContinuityStepKeeps
<1>3. ASSUME NEW p \in Procs, UNCHANGED cont,
             GithubStep(p) \/ (\E kind \in {"verify", "configure"} : Begin(p, kind))
      PROVE  ProbesInv'
    BY <1>3, GithubLeavesProbes
<1>4. CASE CommandExpires \/ ServerRestarts
    BY <1>4, ServerForgets DEF CommandExpires, ServerRestarts
<1>5. CASE Redeclare /\ UNCHANGED cont
    BY <1>5, ServerForgets DEF Redeclare, server
<1>6. CASE UNCHANGED vars
    BY <1>6, ServerForgets DEF vars, server
<1> QED
    BY <1>1, <1>2, <1>3, <1>4, <1>5, <1>6 DEF Next

\* A continuity probe that says it passed has killed its command and, on a
\* local server, ended its session: the verdict is "failed" when the answers
\* to that are missing, and what is gone does not come back, whatever
\* verifications and other probes do to the same server.
THEOREM PassedProbesReclaimed == Spec => []PassedMeansReclaimed
<1>1. ProbesInv => PassedMeansReclaimed
    BY DEF ProbesInv, Probes, PassedMeansReclaimed, CommandGone, CleanupTrue, Ending, At
<1> QED
    BY <1>1, ProbesInvInit, ProbesInvStep, PTL DEF Spec
=============================================================================
