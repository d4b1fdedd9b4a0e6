------------------------------ MODULE HostApply ------------------------------
(***************************************************************************)
(* The lifecycle worker (`HostLifecycleWorker.run`) and the journaled      *)
(* apply transaction (`HostApplyService.apply`) of one instance.  A        *)
(* transaction is planned from fresh observation under the instance lock,  *)
(* executes one journaled operation at a time, qualifies and re-plans, and *)
(* only then writes the ownership evidence `applied`; any exception rolls  *)
(* it back.  The admission guard, the operator and systemd act meanwhile.  *)
(***************************************************************************)
EXTENDS Planner

CONSTANTS
    GuardChoices,   \* values the operator gives recovery.admission_guard_enabled
    Commands,       \* lifecycle commands the operator issues
    Hazards         \* what may go wrong: see Hazard below

VARIABLES
    pending,        \* workers past their registry update, waiting for the lock
    tx,             \* the transaction that holds the instance lock
    rb,             \* _RollbackState of that transaction
    journal,        \* status of the last transaction's journal
    failedFirst,    \* a failed journal proves CREATE of state-dir and owner
    pre,            \* history: what the transaction started from
    late            \* history: files that turned foreign after their last check

vars == <<hostVars, applied, pending, tx, rb, journal, failedFirst, pre, late>>

(* "fault": an operation raises, its bookkeeping intact.  "unclean": an    *)
(* undo step raises.  "timeout": systemctl gives up on a job that then     *)
(* completes.  "record": the journal cannot be written after applied.json. *)
(* "kill": the worker dies.  "reboot": so does the host.  "tamper": a file *)
(* is replaced by one that is not ours.  "unknown": somebody leaves a file *)
(* in the state directory.  "tick": the admission guard's timer fires.     *)
Hazard == {"fault", "unclean", "timeout", "record", "kill", "reboot",
           "tamper", "unknown", "tick"}

ASSUME HostApplyAssumption ==
    /\ GuardChoices \subseteq BOOLEAN
    /\ Commands \subseteq {"apply", "start", "stop", "restart", "remove"}
    /\ Hazards \subseteq Hazard

(***************************************************************************)
(* Steps of a transaction, executed in the order of their Rank.            *)
(***************************************************************************)
HostOp == {"check", "recheck", "reload", "reload-removed"}
FileOp == {"create", "update", "remove"}
UnitOp == {"stop", "enable", "start", "restart", "force", "stop-stale", "disable"}
Step == (HostOp \X {"host"}) \cup (FileOp \X Resource) \cup (UnitOp \X Unit)

RemoveBeforeDisable ==
    <<{"check"}, {"stop"}, {"create", "update"}, {"reload"}, {"enable"},
      {"start", "restart"}, {"force"}, {"stop-stale"}, {"recheck"}, {"remove"},
      {"reload-removed"}, {"disable"}>>
ReloadAfterStart ==
    <<{"check"}, {"stop"}, {"create", "update"}, {"enable"}, {"start", "restart"},
      {"reload"}, {"force"}, {"stop-stale"}, {"disable"},
      {"recheck"}, {"remove"}, {"reload-removed"}>>
OpOrder == <<{"check"}, {"stop"}, {"create", "update"}, {"reload"}, {"enable"},
             {"start", "restart"}, {"force"}, {"stop-stale"}, {"disable"},
             {"recheck"}, {"remove"}, {"reload-removed"}>>
OpRank(op) == CHOOSE i \in DOMAIN OpOrder : op \in OpOrder[i]

\* _unit_priority, the bundle order, and deepest path first for removal.
StartOrder == <<Mcp, GuardSvc, Timer, Tunnel>>
StopOrder == <<Tunnel, GuardSvc, Timer, Mcp>>
BundleOrder == <<StateDir, Owner, Profile, Mcp, Tunnel, GuardSvc, Timer>>
RemovalOrder == <<Owner, Timer, GuardSvc, Mcp, Tunnel, Profile, StateDir>>

Position(r, seq) ==
    IF \E i \in DOMAIN seq : seq[i] = r THEN CHOOSE i \in DOMAIN seq : seq[i] = r ELSE 0

ResourceRank(op, r) ==
    IF op \in {"enable", "start", "restart", "force"} THEN Position(r, StartOrder)
    ELSE IF op \in {"stop", "stop-stale", "disable"} THEN Position(r, StopOrder)
    ELSE IF op = "remove" THEN Position(r, RemovalOrder)
    ELSE Position(r, BundleOrder)

Rank(s) == 10 * OpRank(s[1]) + ResourceRank(s[1], s[2])

On(op, S) == {<<op, r>> : r \in S}
If(cond, op) == IF cond THEN {<<op, "host">>} ELSE {}

\* What lifecycle.py adds in front of _execute for a deployment that stays.
NoStopPass(d) == {}
StopPass(d) == On("stop", Stops(d))

UnitFileCreated(d) == Creates(d) \cap Unit # {}
UnitFileChanged(d) == Changed(d) \cap Unit # {}

\* _execute when deployment=present
PresentSteps(d, force) ==
    StopPass(d)
        \cup On("create", Creates(d)) \cup On("update", Updates(d))
        \cup If(UnitFileChanged(d), "reload")
        \cup On("enable", Enables(d))
        \cup On("start", Starts(d)) \cup On("restart", Restarts(d))
        \cup On("force", IF force /\ Running(d) THEN {Mcp, Tunnel} ELSE {})
        \cup On("stop-stale", Stops(d) \cap Stale(d))
        \cup On("disable", Disables(d))
        \cup If(Removes(d) # {}, "recheck")
        \cup On("remove", Removes(d)) \cup If(Removes(d) # {}, "reload-removed")

\* _execute when deployment=absent
AbsentSteps(d) ==
    If(TRUE, "check")
        \cup On("stop", Stops(d)) \cup On("disable", Disables(d))
        \cup On("remove", Removes(d))
        \cup If(Removes(d) \cap Unit # {}, "reload-removed")

PlanSteps(d, force) == IF Present(d) THEN PresentSteps(d, force) ELSE AbsentSteps(d)

(***************************************************************************)
(* Transaction state.                                                      *)
(***************************************************************************)
NoTx == [phase |-> "idle", want |-> None, force |-> FALSE, todo |-> {}, made |-> {}]
NoUndo == [text |-> [r \in Resource |-> None], created |-> {}, newDir |-> FALSE,
           goneDir |-> FALSE, logs |-> FALSE, discarded |-> FALSE, started |-> {}, enabled |-> {}]
NoPre == [file |-> [r \in Resource |-> Absent], enabled |-> {}, active |-> {},
          fresh |-> TRUE]

Phase == {"idle", "planning", "execute", "qualify", "final", "final-guard",
          "evidence", "commit", "undo-units", "undo-files", "undo-reload"}

TypeOK ==
    /\ HostTypeOK
    /\ applied \in ValidDeclaration \cup {None}
    /\ pending \subseteq {"plain", "forced"}
    /\ tx \in [phase : Phase, want : ValidDeclaration \cup {None}, force : BOOLEAN,
               todo : SUBSET Step, made : SUBSET {StateDir, Owner}]
    /\ rb \in [text : [Resource -> FileValue \cup {None}], created : SUBSET Resource,
               newDir : BOOLEAN, goneDir : BOOLEAN, logs : BOOLEAN, discarded : BOOLEAN,
               started : SUBSET Unit, enabled : SUBSET Unit]
    /\ journal \in [status : {"none", "running", "failed", "succeeded"}, clean : BOOLEAN]
    /\ failedFirst \in BOOLEAN
    /\ pre \in [file : [Resource -> FileValue], enabled : SUBSET Unit,
               active : SUBSET Unit, fresh : BOOLEAN]
    /\ late \subseteq Resource

Init ==
    /\ desired \in {d \in ValidDeclaration : d.dep = "present" /\ d.guard \in GuardChoices}
    /\ file = [r \in Resource |-> Absent]
    /\ contents = {} /\ enabled = {}
    /\ cached = [u \in Unit |-> Absent]
    /\ running = [u \in Service |-> None]
    /\ guardpc = "off"
    /\ applied = None /\ pending = {}
    /\ tx = NoTx /\ rb = NoUndo
    /\ journal = [status |-> "none", clean |-> TRUE]
    /\ failedFirst = FALSE
    /\ pre = NoPre /\ late = {}

Idle == tx.phase = "idle"
want == tx.want

(***************************************************************************)
(* The operator: `instance update`, and the lifecycle commands, whose      *)
(* worker commits the new lifecycle intent to the registry (by compare and *)
(* swap) before it asks for the instance lock.                             *)
(***************************************************************************)
notOperator == <<file, contents, enabled, cached, running, guardpc, applied,
                 tx, rb, journal, failedFirst, pre, late>>

Update(c, g) ==
    /\ g \in GuardChoices
    /\ desired' = [desired EXCEPT !.cfg = c, !.guard = g]
    /\ desired' # desired
    /\ UNCHANGED <<notOperator, pending>>

RemoveKeepsRuntime(a) ==
    IF a \in {"start", "restart"} THEN [desired EXCEPT !.run = "running"]
    ELSE IF a = "stop" THEN [desired EXCEPT !.run = "stopped"]
    ELSE IF a = "remove" THEN [desired EXCEPT !.dep = "absent"]
    ELSE desired
Intent(a) ==
    IF a \in {"start", "restart"} THEN [desired EXCEPT !.run = "running"]
    ELSE IF a = "stop" THEN [desired EXCEPT !.run = "stopped"]
    ELSE IF a = "remove" THEN [desired EXCEPT !.dep = "absent", !.run = "stopped"]
    ELSE desired

Command(a) ==
    /\ a \in {"start", "restart"} => Present(desired)
    /\ desired' = Intent(a)
    /\ pending' = pending \cup {IF a = "restart" THEN "forced" ELSE "plain"}
    /\ UNCHANGED notOperator

\* `instance update` of a removed instance makes it present again.
Redeclare ==
    /\ ~Present(desired)
    /\ desired' = [desired EXCEPT !.dep = "present"]
    /\ UNCHANGED <<notOperator, pending>>

Operator ==
    \/ \E c \in Configs, g \in GuardChoices : Update(c, g)
    \/ \E a \in Commands : Command(a)
    \/ Redeclare

(***************************************************************************)
(* The worker: planning under the lock.                                    *)
(***************************************************************************)
notHost == <<desired, file, contents, enabled, cached, running, guardpc>>

Lock(req) ==
    /\ Idle /\ req \in pending
    /\ pending' = pending \ {req}
    /\ tx' = [NoTx EXCEPT !.phase = "planning", !.want = desired, !.force = (req = "forced")]
    /\ UNCHANGED <<hostVars, applied, rb, journal, failedFirst, pre, late>>

\* _recover_failed_first_apply_state
RecoverableWhenEmpty ==
    /\ applied = None /\ failedFirst
    /\ file[StateDir] # Absent /\ file[Owner] = Absent
    /\ contents = {}
Recoverable ==
    /\ applied = None /\ failedFirst
    /\ file[StateDir] # Absent /\ file[Owner] = Absent
    /\ contents \subseteq {"runtime"}

RecoverOwner ==
    /\ tx.phase = "planning"
    /\ ~PlanValid(want) /\ Recoverable
    /\ file' = [file EXCEPT ![Owner] = Text(Owner, want.cfg)]
    /\ UNCHANGED <<desired, contents, enabled, cached, running, guardpc, applied,
                   pending, tx, rb, journal, failedFirst, pre, late>>

\* History: what systemd has loaded is what is on disk, and so is what runs;
\* the tunnel was started with its unit and profile of one configuration.
Fresh ==
    /\ \A u \in Unit : Def(u) = file[u]
    /\ \A u \in Service : running[u] # None => running[u].unit = file[u]
    /\ running[Tunnel] # None => \E c \in Configs :
          running[Tunnel].unit = Text(Tunnel, c) /\ running[Tunnel].profile = Text(Profile, c)

Begin ==
    /\ tx.phase = "planning" /\ PlanValid(want)
    /\ tx' = [tx EXCEPT !.phase = "execute", !.todo = PlanSteps(want, tx.force)]
    /\ rb' = NoUndo
    /\ journal' = [status |-> "running", clean |-> TRUE]
    /\ pre' = [file |-> file, enabled |-> enabled,
               active |-> {u \in Service : IsActive(u)}, fresh |-> Fresh]
    /\ late' = {}
    /\ UNCHANGED <<notHost, applied, pending, failedFirst>>

Refuse ==
    /\ tx.phase = "planning"
    /\ \/ ~PlanValid(want) /\ ~Recoverable
       \/ "fault" \in Hazards
    /\ tx' = NoTx
    /\ UNCHANGED <<hostVars, applied, pending, rb, journal, failedFirst, pre, late>>

(***************************************************************************)
(* The worker: one action per kind of operation.  Every operation may      *)
(* complete, raise before its effect, or raise after it (its "executed"    *)
(* record cannot be written); raising starts the rollback.                 *)
(***************************************************************************)
Due(s) ==
    /\ tx.phase = "execute" /\ s \in tx.todo
    /\ \A t \in tx.todo : Rank(s) <= Rank(t)

\* The operations that create, recorded as executed once they succeed.
Proceed(s) ==
    tx' = [tx EXCEPT !.todo = @ \ {s},
                     !.made = IF s[1] = "create" /\ s[2] \in {StateDir, Owner}
                              THEN @ \cup {s[2]} ELSE @]
Raise == tx' = [tx EXCEPT !.phase = "undo-units", !.todo = {}]
Raises(hazard) == hazard \in Hazards /\ Raise

Ended(s) == Proceed(s) \/ Raises("fault")
notStep == <<desired, applied, pending, journal, failedFirst, pre, late>>

\* Any operation may raise before it has an effect.
FailsEarly ==
    /\ tx.phase = "execute" /\ tx.todo # {}
    /\ Raises("fault")
    /\ UNCHANGED <<notStep, file, contents, enabled, cached, running, guardpc, rb>>

\* _validate_destructive_operations
Removing == {r \in Resource : <<"remove", r>> \in tx.todo}
Destructive(op) == {u \in Unit : <<op, u>> \in tx.todo}

OwnershipHolds(s) ==
    /\ s[1] = "check" => Destructive("stop") \cup Destructive("disable") \subseteq Removing
    /\ \A r \in Removing : Observe(r, want) \in {"exact", "different"}
    /\ StateDir \in Removing => contents \subseteq {"runtime"}

Check(s) ==
    /\ Due(s) /\ s[1] \in {"check", "recheck"}
    /\ IF OwnershipHolds(s) THEN Proceed(s) ELSE Raise
    /\ UNCHANGED <<notStep, file, contents, enabled, cached, running, guardpc, rb>>

\* _apply_resource_operations
BookedBackupsOnly(s) ==
    IF s[1] = "update" THEN [rb EXCEPT !.text[s[2]] = file[s[2]]] ELSE rb
Booked(s) ==
    LET r == s[2] IN
    [rb EXCEPT
        !.text[r] = IF s[1] = "update" /\ file[r] # Absent THEN file[r] ELSE @,
        !.created = IF file[r] = Absent THEN @ \cup {r} ELSE @,
        !.newDir = @ \/ (r = StateDir /\ file[r] = Absent)]

Write(s) ==
    /\ Due(s) /\ s[1] \in {"create", "update"}
    /\ file' = [file EXCEPT ![s[2]] = Text(s[2], want.cfg)]
    /\ rb' = Booked(s)
    /\ Ended(s)
    /\ UNCHANGED <<notStep, contents, enabled, cached, running, guardpc>>

DaemonReload(s) ==
    /\ Due(s) /\ s[1] \in {"reload", "reload-removed"}
    /\ cached' = Reloaded(file)
    /\ Ended(s)
    /\ UNCHANGED <<notStep, file, contents, enabled, running, guardpc, rb>>

\* SystemdUserAdapter.enable; `systemctl enable` reloads as well
Enable(s) ==
    /\ Due(s) /\ s[1] = "enable"
    /\ enabled' = enabled \cup {s[2]}
    /\ cached' = Reloaded(file)
    /\ \/ Ended(s) /\ rb' = [rb EXCEPT !.enabled = @ \cup {s[2]}]
       \/ Raises("timeout") /\ UNCHANGED rb
    /\ UNCHANGED <<notStep, file, contents, running, guardpc>>

Disable(s) ==
    /\ Due(s) /\ s[1] = "disable"
    /\ enabled' = enabled \ {s[2]}
    /\ cached' = Reloaded(file)
    /\ Ended(s)
    /\ UNCHANGED <<notStep, file, contents, running, guardpc, rb>>

\* START, RESTART and FORCE_RESTART
Launched(s) == IF s[1] = "start" THEN AfterStart(s[2]) ELSE AfterRestart(s[2])

NeverBooked(u) == rb
StartBooked(u) == [rb EXCEPT !.started = IF IsActive(u) THEN @ ELSE @ \cup {u}]

Start(s) ==
    LET u == s[2] IN
    /\ Due(s) /\ s[1] \in {"start", "restart", "force"}
    /\ Startable(u)
    /\ running' = Launched(s)
    /\ cached' = Loaded({v \in Service : running'[v] # None})
    /\ contents' = IF u = Timer THEN contents ELSE WithLog
    /\ \/ Ended(s) /\ rb' = StartBooked(u)
       \/ Raises("timeout") /\ UNCHANGED rb
    /\ UNCHANGED <<notStep, file, enabled, guardpc>>

CannotStart(s) ==
    /\ Due(s) /\ s[1] \in {"start", "restart", "force"}
    /\ ~Startable(s[2])
    /\ Raise
    /\ UNCHANGED <<notStep, file, contents, enabled, cached, running, guardpc, rb>>

Stop(s) ==
    /\ Due(s) /\ s[1] \in {"stop", "stop-stale"}
    /\ running' = AfterStop({s[2]})
    /\ guardpc' = IF s[2] = GuardSvc THEN "off" ELSE guardpc
    /\ Ended(s)
    /\ UNCHANGED <<notStep, file, contents, enabled, cached, rb>>

\* _remove_resource_operations; the state directory loses its runtime files
\* first and must then be empty
RemoveFile(s) ==
    LET r == s[2] IN
    /\ Due(s) /\ s[1] = "remove" /\ r # StateDir
    /\ file' = [file EXCEPT ![r] = Absent]
    /\ rb' = IF file[r] = Absent THEN rb ELSE [rb EXCEPT !.text[r] = file[r]]
    /\ Ended(s)
    /\ UNCHANGED <<notStep, contents, enabled, cached, running, guardpc>>

RemoveStateDir(s) ==
    /\ Due(s) /\ s = <<"remove", StateDir>>
    /\ contents' = contents \ {"runtime"}
    /\ IF contents' = {} /\ file[Owner] = Absent
       THEN /\ file' = [file EXCEPT ![StateDir] = Absent]
            /\ rb' = [rb EXCEPT !.logs = @ \/ "runtime" \in contents, !.goneDir = TRUE]
            /\ Ended(s)
       ELSE /\ rb' = [rb EXCEPT !.logs = @ \/ "runtime" \in contents]
            /\ Raise
            /\ UNCHANGED file
    /\ UNCHANGED <<notStep, enabled, cached, running, guardpc>>

(***************************************************************************)
(* The worker: qualification, the final plan, the evidence.                *)
(***************************************************************************)
Executed ==
    /\ tx.phase = "execute" /\ tx.todo = {}
    /\ tx' = [tx EXCEPT !.phase = "qualify"]
    /\ UNCHANGED <<hostVars, applied, pending, rb, journal, failedFirst, pre, late>>

Move(phase) == tx' = [tx EXCEPT !.phase = phase]
notPhase == <<hostVars, applied, pending, rb, journal, failedFirst, pre, late>>

\* _qualify
Qualified ==
    IF Present(want) /\ Running(want)
    THEN /\ want.cfg["mcp"] \in McpEndpoint
         /\ <<want.cfg["healthHost"], want.cfg["health"]>> \in HealthEndpoint
    ELSE ~IsActive(Mcp) /\ ~IsActive(Tunnel)

QualifyForever ==
    /\ tx.phase = "qualify" /\ Qualified
    /\ Move("final")
    /\ UNCHANGED notPhase
Qualify ==
    /\ tx.phase = "qualify"
    /\ IF Qualified THEN Move("final") \/ Raises("fault") ELSE Raise
    /\ UNCHANGED notPhase

\* The final plan observes the files and the runtime units, then the guard
\* units; systemd is asked about one unit at a time.
UnitWork(S) ==
    S \cap (Enables(want) \cup Starts(want) \cup Restarts(want)
              \cup Stops(want) \cup Disables(want))

FinalPlan ==
    /\ tx.phase = "final"
    /\ IF PlanValid(want) /\ Changed(want) = {} /\ Removes(want) = {}
             /\ UnitWork({Mcp, Tunnel}) = {}
       THEN Move("final-guard") ELSE Raise
    /\ UNCHANGED notPhase

FinalPlanGuard ==
    /\ tx.phase = "final-guard"
    /\ IF UnitWork({GuardSvc, Timer}) = {} THEN Move("evidence") ELSE Raise
    /\ UNCHANGED notPhase

WriteApplied ==
    /\ tx.phase = "evidence"
    /\ \/ applied' = want /\ Move("commit")
       \/ applied' = want /\ Raises("record")
       \/ UNCHANGED applied /\ Raises("fault")
    /\ UNCHANGED <<hostVars, pending, rb, journal, failedFirst, pre, late>>

Finish ==
    /\ tx.phase = "commit"
    /\ tx' = NoTx /\ rb' = NoUndo /\ pre' = NoPre /\ late' = {}
    /\ journal' = [status |-> "succeeded", clean |-> TRUE]
    /\ UNCHANGED <<hostVars, applied, pending, failedFirst>>

\* The backups are already discarded when the last journal write raises.
FinishRaises ==
    /\ tx.phase = "commit"
    /\ Raises("record")
    /\ rb' = [rb EXCEPT !.discarded = TRUE]
    /\ UNCHANGED <<hostVars, applied, pending, journal, failedFirst, pre, late>>

(***************************************************************************)
(* The worker: _rollback, best effort.                                     *)
(***************************************************************************)
notUndo == <<desired, applied, pending, failedFirst, pre, late>>

\* Units and enablements whose undo raises stay as they are.
RollbackUnits ==
    /\ tx.phase = "undo-units"
    /\ \E stuck \in SUBSET (rb.started \cup rb.enabled) :
        /\ stuck # {} => "unclean" \in Hazards
        /\ running' = AfterStop(rb.started \ stuck)
        /\ enabled' = enabled \ (rb.enabled \ stuck)
        /\ journal' = [journal EXCEPT !.clean = IF stuck = {} THEN @ ELSE FALSE]
    /\ cached' = IF rb.enabled = {} THEN cached ELSE Reloaded(file)
    /\ Move("undo-files")
    /\ UNCHANGED <<notUndo, file, contents, guardpc, rb>>

\* _RollbackState.restore: saved files come back (with their directory),
\* then what the transaction created goes, deepest first.  The ownership
\* marker stays when unknown content keeps the directory alive, and the
\* directory stays when a running service logs again in between.
SavedVisible == {r \in Resource \ {Owner} : rb.text[r] # None}
Saved == {r \in Resource : rb.text[r] # None}
DirRestored == rb.goneDir \/ rb.logs \/ Owner \in Saved
BackupsLost == rb.discarded /\ (Saved # {} \/ rb.logs)

RollbackFiles ==
    /\ tx.phase = "undo-files" /\ ~BackupsLost
    /\ \E relog \in IF \E u \in {Mcp, Tunnel} : IsActive(u) THEN BOOLEAN ELSE {FALSE} :
        LET back == contents \cup (IF rb.logs THEN {"runtime"} ELSE {})
            left == IF rb.newDir
                    THEN (back \ {"runtime"}) \cup (IF relog THEN {"runtime"} ELSE {})
                    ELSE back
            keepOwner == rb.newDir /\ "unknown" \in back
            gone == rb.created \ (IF keepOwner THEN {Owner} ELSE {})
            ownerLeft == IF Owner \in Saved THEN TRUE ELSE file[Owner] # Absent /\ Owner \notin gone
        IN  /\ contents' = left
            /\ file' = [r \in Resource |->
                    IF r = StateDir
                    THEN IF StateDir \in gone /\ left = {} /\ ~ownerLeft THEN Absent
                         ELSE IF DirRestored THEN Text(StateDir, want.cfg)
                         ELSE file[StateDir]
                    ELSE IF r \in gone THEN Absent
                    ELSE IF r \in Saved THEN rb.text[r]
                    ELSE file[r]]
    /\ rb' = NoUndo
    /\ Move("undo-reload")
    /\ UNCHANGED <<notUndo, enabled, cached, running, guardpc, journal>>

\* Restoring a saved file or directory raises part way: what came before
\* stays restored (the logs first, the marker last, each after its
\* directory), and nothing that the transaction created goes.  When the
\* backups are lost, the first of them raises.
RollbackFilesRaises ==
    /\ tx.phase = "undo-files"
    /\ Saved # {} \/ rb.logs \/ rb.goneDir
    /\ BackupsLost \/ "unclean" \in Hazards
    /\ \E back \in SUBSET Saved, logs, dir \in BOOLEAN :
        /\ logs => rb.logs
        /\ back # {} /\ rb.logs => logs
        /\ Owner \in back => back = Saved
        /\ logs \/ Owner \in back => dir
        /\ dir => rb.logs \/ (Owner \in Saved /\ Saved \ {Owner} \subseteq back)
        /\ BackupsLost => back = {} /\ ~logs
        /\ contents' = contents \cup (IF logs THEN {"runtime"} ELSE {})
        /\ file' = [r \in Resource |->
                IF r = StateDir THEN IF dir THEN Text(StateDir, want.cfg) ELSE file[StateDir]
                ELSE IF r \in back THEN rb.text[r]
                ELSE file[r]]
    /\ rb' = NoUndo /\ journal' = [journal EXCEPT !.clean = FALSE]
    /\ Move("undo-reload")
    /\ UNCHANGED <<notUndo, enabled, cached, running, guardpc>>

\* The last daemon-reload, and the journal's status
RollbackReload ==
    /\ tx.phase = "undo-reload"
    /\ \/ cached' = Reloaded(file) /\ journal' = [journal EXCEPT !.status = "failed"]
       \/ /\ "unclean" \in Hazards /\ UNCHANGED cached
          /\ journal' = [status |-> "failed", clean |-> FALSE]
    /\ failedFirst' = (failedFirst \/ tx.made = {StateDir, Owner})
    /\ tx' = NoTx /\ pre' = NoPre /\ late' = {}
    /\ UNCHANGED <<desired, applied, pending, file, contents, enabled, running, guardpc, rb>>

Execute(s) ==
    \/ Check(s) \/ Write(s) \/ DaemonReload(s) \/ Enable(s) \/ Disable(s)
    \/ Start(s) \/ CannotStart(s) \/ Stop(s) \/ RemoveFile(s) \/ RemoveStateDir(s)

Worker ==
    \/ \E req \in {"plain", "forced"} : Lock(req)
    \/ RecoverOwner \/ Begin \/ Refuse
    \/ \E s \in tx.todo : Execute(s)
    \/ FailsEarly \/ Executed \/ Qualify \/ FinalPlan \/ FinalPlanGuard
    \/ WriteApplied \/ Finish \/ FinishRaises
    \/ RollbackUnits \/ RollbackFiles \/ RollbackFilesRaises \/ RollbackReload

(***************************************************************************)
(* The environment.                                                        *)
(***************************************************************************)
\* The worker's process dies: its rollback state is lost with it, the
\* journal keeps saying "running".
Kill ==
    /\ "kill" \in Hazards /\ ~Idle
    /\ tx' = NoTx /\ rb' = NoUndo /\ pre' = NoPre /\ late' = {}
    /\ UNCHANGED <<hostVars, applied, pending, journal, failedFirst>>

\* The host reboots: systemd loads the files and starts the enabled units.
Reboot ==
    /\ "reboot" \in Hazards
    /\ tx' = NoTx /\ rb' = NoUndo /\ pre' = NoPre /\ late' = {}
    /\ pending' = {} /\ guardpc' = "off"
    /\ cached' = Reloaded(file)
    /\ running' = [u \in Service |->
            IF /\ u \in enabled \/ (u = Mcp /\ Tunnel \in enabled)
               /\ file[u] # Absent
               /\ u = Tunnel => file[Mcp] # Absent
            THEN [unit |-> file[u],
                  profile |-> IF u = Tunnel THEN file[Profile] ELSE Absent]
            ELSE None]
    /\ UNCHANGED <<desired, file, contents, enabled, applied, journal, failedFirst>>

\* One managed file at a time is replaced by somebody else's.  The worker
\* will look at the ones it is about to remove once more, in `check`.
Rechecked(r) ==
    /\ <<"remove", r>> \in tx.todo
    /\ {<<"check", "host">>, <<"recheck", "host">>} \cap tx.todo # {}

Tamper(r) ==
    /\ "tamper" \in Hazards
    /\ r # StateDir /\ (r = Owner => file[StateDir] # Absent)
    /\ \A q \in Resource : file[q] # Foreign
    /\ file' = [file EXCEPT ![r] = Foreign]
    /\ late' = IF Idle \/ Rechecked(r) THEN late ELSE late \cup {r}
    /\ UNCHANGED <<desired, contents, enabled, cached, running, guardpc, applied,
                   pending, tx, rb, journal, failedFirst, pre>>

DropUnknown ==
    /\ "unknown" \in Hazards /\ file[StateDir] # Absent
    /\ contents' = contents \cup {"unknown"}
    /\ UNCHANGED <<desired, file, enabled, cached, running, guardpc, applied,
                   pending, tx, rb, journal, failedFirst, pre, late>>

Environment == Kill \/ Reboot \/ (\E r \in Resource : Tamper(r)) \/ DropUnknown

(***************************************************************************)
(* The oneshot admission guard (run_admission_guard); AdmissionGuard has   *)
(* its cooldown.  It takes no lock.                                        *)
(***************************************************************************)
notGuard == <<desired, enabled, applied, pending, tx, rb, journal, failedFirst, pre, late>>

GuardBegins ==
    /\ "tick" \in Hazards
    /\ guardpc = "off" /\ IsActive(Timer) /\ Def(GuardSvc) # Absent
    /\ desired.guard
    /\ guardpc' = "probe"
    /\ cached' = Loaded({GuardSvc})
    /\ UNCHANGED <<notGuard, file, contents, running>>

\* _atomic_json creates the state directory when it is missing.
GuardWrites(pc) ==
    /\ file' = [file EXCEPT ![StateDir] = IF @ = Absent THEN Text(StateDir, desired.cfg) ELSE @]
    /\ contents' = contents \cup {"runtime"}
    /\ guardpc' = pc

GuardObserves ==
    /\ guardpc = "probe"
    /\ GuardWrites("off") \/ (IsActive(Mcp) /\ GuardWrites("persisted"))
    /\ UNCHANGED <<notGuard, cached, running>>

GuardRestarts ==
    /\ guardpc = "persisted"
    /\ guardpc' = "restarted"
    /\ IF Startable(Mcp)
       THEN /\ running' = AfterRestart(Mcp)
            /\ cached' = Loaded({v \in Service : running'[v] # None})
            /\ contents' = WithLog
       ELSE UNCHANGED <<running, cached, contents>>
    /\ UNCHANGED <<notGuard, file>>

GuardEnds ==
    /\ guardpc = "restarted"
    /\ GuardWrites("off")
    /\ UNCHANGED <<notGuard, cached, running>>

Guard == GuardBegins \/ GuardObserves \/ GuardRestarts \/ GuardEnds

Next == Operator \/ Worker \/ Environment \/ Guard

\* The worker is one process whose every command has a timeout, so it keeps
\* taking steps for as long as it lives.
Spec == Init /\ [][Next]_vars
FairSpec == Spec /\ WF_vars(Worker)

(***************************************************************************)
(* Safety properties.                                                      *)
(***************************************************************************)
\* A file without this instance's ownership marker is never overwritten or
\* deleted, neither by a plan nor by a rollback, unless it turned foreign
\* after the transaction looked at it for the last time.
ForeignSafe ==
    [][\A r \in Resource : file[r] = Foreign /\ file'[r] # Foreign => r \in late]_vars

\* The steps with which a transaction ends.
EndsFailed == tx.phase = "undo-reload" /\ tx'.phase = "idle" /\ journal'.status = "failed"
EndsApplied == tx.phase = "commit" /\ tx'.phase = "idle" /\ journal'.status = "succeeded"

\* A failed transaction whose rollback reports no error leaves every file
\* as it found it (a state directory that gained content may stay), and
\* enables and runs nothing that it had not found enabled and running.
FailedApplyUndone ==
    [][EndsFailed /\ journal'.clean /\ late = {} =>
        /\ \A r \in Resource \ {StateDir, Owner} : file'[r] = pre.file[r]
        /\ \A r \in {StateDir, Owner} :
              file'[r] = pre.file[r] \/ (pre.file[r] = Absent /\ contents # {})
        /\ enabled' \subseteq pre.enabled
        /\ {u \in Service : running'[u] # None} \subseteq pre.active]_vars

\* Between transactions nothing runs whose unit file is gone, unless the
\* last rollback said it could not undo everything.
NoOrphanedUnit ==
    Idle /\ journal.clean /\ journal.status # "running" =>
        \A u \in Service : running[u] # None => file[u] # Absent

\* What a failed first apply leaves behind never blocks the next apply.
FirstApplyRecoverable ==
    Idle /\ journal.status = "failed" /\ applied = None
         /\ "unknown" \notin contents /\ (\A r \in Resource : file[r] # Foreign) =>
        ~FileConflict(desired) \/ Recoverable

\* What a failed apply leaves behind never blocks the next apply, be it the
\* instance's first or a later one: the state directory is still marked as
\* ours, or the journal of the failed transaction proves it is.
FailedApplyRecoverable ==
    Idle /\ journal.status = "failed"
         /\ "unknown" \notin contents /\ (\A r \in Resource : file[r] # Foreign) =>
        ~FileConflict(desired) \/ Recoverable

\* A removal that succeeds leaves no file, enablement or process behind,
\* guard units of earlier declarations included.
RemovedLeavesNothing ==
    [][EndsApplied /\ ~Present(want) =>
        /\ \A r \in Resource : file[r] = Absent
        /\ enabled = {} /\ contents = {}
        /\ \A u \in Service : running[u] = None]_vars

\* An apply that succeeds leaves every wanted service running from the very
\* unit text the declaration renders, and the tunnel from the declared
\* profile, however many other declarations were applied, failed or were cut
\* short before: provided it began with nothing stale.  Processes that a
\* failed apply restarted keep running from files its rollback takes back,
\* and no plan notices.
AppliedRunsDeclared ==
    [][EndsApplied /\ pre.fresh =>
        /\ \A u \in Wanted(want) :
              running[u] # None /\ running[u].unit = Text(u, want.cfg)
        /\ Tunnel \in Wanted(want) => running[Tunnel].profile = Text(Profile, want.cfg)]_vars

\* No unit is left enabled without its file, so that no boot ever looks for
\* a unit that is not there: files come before enablement and go after it,
\* in a transaction, in its rollback, and wherever either is cut short.
EnabledHasFile == \A u \in enabled : file[u] # Absent

\* The edits of a running instance that the code does not carry out.  The
\* tunnel keeps its health endpoint and its unit changes (mcp.port is edited
\* alone): the endpoint counts as somebody else's.  The tunnel's profile
\* changes and no unit does (health_host is edited alone): nothing restarts.
SameUnit(u, a, d) == Text(u, a.cfg) = Text(u, d.cfg)
SameHealthEndpoint(a, d) ==
    a.cfg["healthHost"] = d.cfg["healthHost"] /\ a.cfg["health"] = d.cfg["health"]
Serving(a) == a # None /\ Running(a)
PortMoved(a, d) ==
    Serving(a) /\ Present(d) /\ SameHealthEndpoint(a, d) /\ ~SameUnit(Tunnel, a, d)
HostMoved(a, d) ==
    /\ Serving(a) /\ Running(d) /\ ~SameHealthEndpoint(a, d)
    /\ SameUnit(Tunnel, a, d) /\ SameUnit(Mcp, a, d)

\* A host with nothing but this instance's own resources is refused at most
\* for one edit: the tunnel is to keep its health endpoint under another unit.
OwnInstanceAccepted ==
    tx.phase = "planning" /\ (\A r \in Resource : file[r] # Foreign)
            /\ ~PortMoved(applied, want) =>
        PlanValid(want)

\* When nothing goes wrong, an apply fails for one edit at most: its health
\* host moved and no unit changed, so the tunnel still listens where it did.
UndoneForHealthHostOnly ==
    tx.phase \in {"undo-units", "undo-files", "undo-reload"} => HostMoved(applied, want)

(***************************************************************************)
(* Liveness.                                                               *)
(***************************************************************************)
\* The worker releases the lock: every transaction ends, rollbacks too.
TransactionEnds == tx.phase # "idle" ~> tx.phase = "idle"

\* When nothing goes wrong, a requested apply makes the host what is declared
\* unless the operator declares something else in the meantime, or the edit
\* is one of the two that are not carried out.
ApplyConverges ==
    [](\A d \in ValidDeclaration :
        pending # {} /\ desired = d =>
            <>(\/ desired # d
               \/ AllNoop(d) /\ applied = d
               \/ PortMoved(applied, d) \/ HostMoved(applied, d)))
=============================================================================
