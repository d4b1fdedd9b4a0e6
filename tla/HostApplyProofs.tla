--------------------------- MODULE HostApplyProofs ---------------------------
(***************************************************************************)
(* Theorems about HostApply, for every set of configurations, commands and *)
(* hazards.  In this order: types; what a transaction may overwrite; what  *)
(* it and its rollback leave behind; what it achieves when nothing fails.  *)
(***************************************************************************)
EXTENDS HostApply, TLAPS

(***************************************************************************)
(* Facts about the renderings and about what a plan is made of.            *)
(***************************************************************************)
\* A rendered text is a file value, and none of the sentinels.
LEMMA TextIsFileValue ==
    ASSUME NEW r \in Resource, NEW c \in Configs
    PROVE  Text(r, c) \in FileValue /\ Text(r, c) \notin {Absent, Foreign, None}
  BY SentinelsAreNotTexts DEF FileValue, Texts

LEMMA SentinelsDiffer == Absent # Foreign /\ None # Absent /\ None # Foreign
  BY SentinelsAreNotTexts

LEMMA NoneIsNoFileValue == None \notin FileValue
  BY SentinelsAreNotTexts DEF FileValue

LEMMA UnitsAreResources == Unit \subseteq Resource /\ Service \subseteq Unit
  BY DEF Unit, Resource, Service

LEMMA DeclarationFields ==
    ASSUME NEW d \in ValidDeclaration
    PROVE  /\ d.cfg \in Configs /\ d.guard \in BOOLEAN
           /\ d \in Declaration
  BY DEF ValidDeclaration, Declaration

\* Every step of a plan names an operation and what it operates on.
LEMMA PlanStepsAreSteps ==
    ASSUME NEW d, NEW force
    PROVE  PlanSteps(d, force) \subseteq Step
  <1>1. /\ Creates(d) \subseteq Resource /\ Updates(d) \subseteq Resource
        /\ Removes(d) \subseteq Resource
    BY DEF Creates, Updates, Removes, Stale, Bundle, GuardResource, Resource
  <1>2. /\ Stops(d) \subseteq Unit /\ Enables(d) \subseteq Unit /\ Starts(d) \subseteq Unit
        /\ Restarts(d) \subseteq Unit /\ Disables(d) \subseteq Unit
    BY DEF Stops, Enables, Starts, Restarts, Disables, Wanted, BundleUnits
  <1>3. (IF force /\ Running(d) THEN {Mcp, Tunnel} ELSE {}) \subseteq Unit
    BY DEF Unit
  <1>4. \A op \in FileOp, S \in SUBSET Resource : On(op, S) \subseteq Step
    BY DEF On, Step
  <1>5. \A op \in UnitOp, S \in SUBSET Unit : On(op, S) \subseteq Step
    BY DEF On, Step
  <1>6. \A op \in HostOp : {<<op, "host">>} \subseteq Step
    BY DEF Step
  <1>7. /\ If(UnitFileChanged(d), "reload") \subseteq Step
        /\ If(Removes(d) # {}, "recheck") \subseteq Step
        /\ If(Removes(d) # {}, "reload-removed") \subseteq Step
        /\ If(TRUE, "check") \subseteq Step
        /\ If(Removes(d) \cap Unit # {}, "reload-removed") \subseteq Step
    BY <1>6 DEF If, HostOp
  <1>8. /\ On("create", Creates(d)) \subseteq Step /\ On("update", Updates(d)) \subseteq Step
        /\ On("remove", Removes(d)) \subseteq Step
    BY <1>1, <1>4 DEF FileOp
  <1>9. /\ StopPass(d) \subseteq Step /\ On("enable", Enables(d)) \subseteq Step
        /\ On("stop", Stops(d)) \subseteq Step
        /\ On("start", Starts(d)) \subseteq Step /\ On("restart", Restarts(d)) \subseteq Step
        /\ On("stop-stale", Stops(d) \cap Stale(d)) \subseteq Step
        /\ On("disable", Disables(d)) \subseteq Step
    BY <1>2, <1>5 DEF StopPass, UnitOp
  <1>10. On("force", IF force /\ Running(d) THEN {Mcp, Tunnel} ELSE {}) \subseteq Step
    BY <1>3, <1>5 DEF UnitOp
  <1> QED
    BY <1>7, <1>8, <1>9, <1>10 DEF PlanSteps, PresentSteps, AbsentSteps

\* The object of a step fits its operation.
LEMMA StepObject ==
    ASSUME NEW s \in Step
    PROVE  /\ s[1] \in FileOp => s[2] \in Resource
           /\ s[1] \in UnitOp => s[2] \in Unit
           /\ s = <<s[1], s[2]>>
  BY DEF Step, FileOp, UnitOp, HostOp

(***************************************************************************)
(* Type correctness.  A transaction in progress has a declaration.         *)
(***************************************************************************)
ActiveWant == tx.phase # "idle" => tx.want \in ValidDeclaration
TypeInv == TypeOK /\ ActiveWant

\* What systemd has loaded stays a file value.
LEMMA DefIsFileValue ==
    ASSUME TypeOK
    PROVE  /\ \A u \in Unit : Def(u) \in FileValue
           /\ Reloaded(file) \in [Unit -> FileValue]
           /\ \A S : Loaded(S) \in [Unit -> FileValue]
  <1>1. file \in [Resource -> FileValue] /\ cached \in [Unit -> FileValue]
    BY DEF TypeOK, HostTypeOK
  <1>2. \A u \in Unit : Def(u) \in FileValue
    BY <1>1, UnitsAreResources DEF Def
  <1>3. Reloaded(file) \in [Unit -> FileValue]
    BY <1>1, UnitsAreResources DEF Reloaded
  <1>4. \A S : Loaded(S) \in [Unit -> FileValue]
    BY <1>1, <1>2 DEF Loaded
  <1> QED
    BY <1>2, <1>3, <1>4

\* The three things systemctl does to the services leave processes or none.
LEMMA LaunchIsProcess ==
    ASSUME TypeOK, NEW u \in Service
    PROVE  Launch(u) \in Process
  <1>1. Def(u) \in FileValue
    BY DefIsFileValue, UnitsAreResources
  <1>2. file[Profile] \in FileValue /\ Absent \in FileValue
    BY DEF TypeOK, HostTypeOK, Profile, Resource, FileValue
  <1> QED
    BY <1>1, <1>2 DEF Launch, Process

LEMMA ServicesTyped ==
    ASSUME TypeOK
    PROVE  /\ \A u : AfterStart(u) \in [Service -> Process \cup {None}]
           /\ \A u : AfterRestart(u) \in [Service -> Process \cup {None}]
           /\ \A S : AfterStop(S) \in [Service -> Process \cup {None}]
  <1>1. running \in [Service -> Process \cup {None}]
    BY DEF TypeOK, HostTypeOK
  <1>2. \A u : AfterStart(u) \in [Service -> Process \cup {None}]
    BY <1>1, LaunchIsProcess DEF AfterStart
  <1>3. \A u : AfterRestart(u) \in [Service -> Process \cup {None}]
    BY <1>1, LaunchIsProcess DEF AfterRestart
  <1>4. \A S : AfterStop(S) \in [Service -> Process \cup {None}]
    BY <1>1 DEF AfterStop
  <1> QED
    BY <1>2, <1>3, <1>4

\* The services that start with the host are processes too.
LEMMA BootedTyped ==
    ASSUME TypeOK, Reboot
    PROVE  running' \in [Service -> Process \cup {None}]
  <1>1. /\ \A r \in Resource : file[r] \in FileValue
        /\ Absent \in FileValue /\ Service \subseteq Resource /\ Profile \in Resource
    BY UnitsAreResources DEF TypeOK, HostTypeOK, Profile, Resource, FileValue
  <1>2. \A u \in Service :
           [unit |-> file[u],
            profile |-> IF u = Tunnel THEN file[Profile] ELSE Absent] \in Process
    BY <1>1 DEF Process
  <1> QED
    BY <1>2 DEF Reboot

LEMMA InitTyped == Init => TypeInv
  <1> SUFFICES ASSUME Init PROVE TypeInv
    OBVIOUS
  <1>1. HostTypeOK
    BY DEF Init, HostTypeOK, FileValue
  <1>2. tx \in [phase : Phase, want : ValidDeclaration \cup {None}, force : BOOLEAN,
                todo : SUBSET Step, made : SUBSET {StateDir, Owner}]
    BY DEF Init, NoTx, Phase
  <1>3. rb \in [text : [Resource -> FileValue \cup {None}], created : SUBSET Resource,
                newDir : BOOLEAN, goneDir : BOOLEAN, logs : BOOLEAN, discarded : BOOLEAN,
                started : SUBSET Unit, enabled : SUBSET Unit]
    BY DEF Init, NoUndo
  <1>4. pre \in [file : [Resource -> FileValue], enabled : SUBSET Unit,
                 active : SUBSET Unit, fresh : BOOLEAN]
    BY DEF Init, NoPre, FileValue
  <1>5. ActiveWant
    BY DEF Init, NoTx, ActiveWant
  <1> QED
    BY <1>1, <1>2, <1>3, <1>4, <1>5 DEF Init, TypeOK, TypeInv

LEMMA OperatorTyped ==
    ASSUME TypeInv, Operator
    PROVE  TypeInv'
  <1> USE DEF TypeInv, TypeOK, HostTypeOK, ActiveWant, notOperator
  <1>1. CASE \E c \in Configs, g \in GuardChoices : Update(c, g)
    <2> PICK c \in Configs, g \in GuardChoices : Update(c, g)
      BY <1>1
    <2>1. g \in BOOLEAN
      BY HostApplyAssumption
    <2>2. desired' \in ValidDeclaration
      BY <2>1 DEF Update, ValidDeclaration, Declaration
    <2> QED
      BY <2>2 DEF Update
  <1>2. CASE \E a \in Commands : Command(a)
    <2> PICK a \in Commands : Command(a)
      BY <1>2
    <2>1. desired' \in ValidDeclaration
      BY DEF Command, Intent, Present, ValidDeclaration, Declaration
    <2>2. pending' \subseteq {"plain", "forced"}
      BY DEF Command
    <2> QED
      BY <2>1, <2>2 DEF Command
  <1>3. CASE Redeclare
    BY <1>3 DEF Redeclare, Present, ValidDeclaration, Declaration
  <1> QED
    BY <1>1, <1>2, <1>3 DEF Operator

LEMMA PlanningTyped ==
    ASSUME TypeInv,
           (\E req \in {"plain", "forced"} : Lock(req)) \/ RecoverOwner \/ Begin \/ Refuse
    PROVE  TypeInv'
  <1> USE DEF TypeInv, TypeOK, HostTypeOK, ActiveWant, hostVars
  <1>1. CASE \E req \in {"plain", "forced"} : Lock(req)
    <2> PICK req \in {"plain", "forced"} : Lock(req)
      BY <1>1
    <2>1. tx' = [phase |-> "planning", want |-> desired, force |-> (req = "forced"),
                 todo |-> {}, made |-> {}]
      BY DEF Lock, NoTx
    <2>2. /\ tx' \in [phase : Phase, want : ValidDeclaration \cup {None}, force : BOOLEAN,
                      todo : SUBSET Step, made : SUBSET {StateDir, Owner}]
          /\ ActiveWant'
      BY <2>1 DEF Phase
    <2>3. pending' \subseteq {"plain", "forced"}
      BY DEF Lock
    <2> QED
      BY <2>2, <2>3 DEF Lock
  <1>2. CASE RecoverOwner
    <2>1. want.cfg \in Configs /\ Owner \in Resource
      BY <1>2, DeclarationFields DEF RecoverOwner, want, Resource
    <2>2. file' \in [Resource -> FileValue]
      BY <1>2, <2>1, TextIsFileValue DEF RecoverOwner
    <2> QED
      BY <1>2, <2>2 DEF RecoverOwner
  <1>3. CASE Begin
    <2>1. tx' \in [phase : Phase, want : ValidDeclaration \cup {None}, force : BOOLEAN,
                   todo : SUBSET Step, made : SUBSET {StateDir, Owner}]
      BY <1>3, PlanStepsAreSteps DEF Begin, Phase
    <2>2. rb' \in [text : [Resource -> FileValue \cup {None}], created : SUBSET Resource,
                   newDir : BOOLEAN, goneDir : BOOLEAN, logs : BOOLEAN, discarded : BOOLEAN,
                   started : SUBSET Unit, enabled : SUBSET Unit]
      BY <1>3 DEF Begin, NoUndo
    <2>3. pre' \in [file : [Resource -> FileValue], enabled : SUBSET Unit,
                    active : SUBSET Unit, fresh : BOOLEAN]
      <3>1. Fresh \in BOOLEAN
        BY DEF Fresh
      <3> QED
        BY <1>3, <3>1, UnitsAreResources DEF Begin
    <2>4. ActiveWant'
      BY <1>3 DEF Begin
    <2> QED
      BY <1>3, <2>1, <2>2, <2>3, <2>4 DEF Begin, notHost
  <1>4. CASE Refuse
    BY <1>4 DEF Refuse, NoTx, Phase
  <1> QED
    BY <1>1, <1>2, <1>3, <1>4

\* Raising and proceeding keep the transaction's type and its declaration.
TxType == [phase : Phase, want : ValidDeclaration \cup {None}, force : BOOLEAN,
           todo : SUBSET Step, made : SUBSET {StateDir, Owner}]

LEMMA StepOutcome ==
    ASSUME TypeInv, tx.phase = "execute", NEW s \in Step, Proceed(s) \/ Raise
    PROVE  tx' \in TxType /\ ActiveWant'
  <1>1. CASE Proceed(s)
    BY <1>1 DEF Proceed, TypeInv, TypeOK, ActiveWant, TxType
  <1>2. CASE Raise
    BY <1>2 DEF Raise, TypeInv, TypeOK, ActiveWant, TxType, Phase
  <1> QED
    BY <1>1, <1>2

RbType == [text : [Resource -> FileValue \cup {None}], created : SUBSET Resource,
           newDir : BOOLEAN, goneDir : BOOLEAN, logs : BOOLEAN, discarded : BOOLEAN,
           started : SUBSET Unit, enabled : SUBSET Unit]

\* What an operation may change, once its outcome is known.
LEMMA StepFrame ==
    ASSUME TypeInv, tx' \in TxType, ActiveWant', UNCHANGED notStep,
           file' \in [Resource -> FileValue], contents' \subseteq {"runtime", "unknown"},
           enabled' \subseteq Unit, cached' \in [Unit -> FileValue],
           running' \in [Service -> Process \cup {None}],
           guardpc' \in {"off", "probe", "persisted", "restarted"}, rb' \in RbType
    PROVE  TypeInv'
  BY DEF TypeInv, TypeOK, HostTypeOK, notStep, TxType, RbType

LEMMA ExecuteTyped ==
    ASSUME TypeInv, NEW s \in tx.todo, Execute(s)
    PROVE  TypeInv'
  <1> USE DEF Ended, Raises
  <1>0. /\ file \in [Resource -> FileValue] /\ contents \subseteq {"runtime", "unknown"}
        /\ enabled \subseteq Unit /\ cached \in [Unit -> FileValue]
        /\ running \in [Service -> Process \cup {None}] /\ rb \in RbType
        /\ guardpc \in {"off", "probe", "persisted", "restarted"} /\ s \in Step
    BY DEF TypeInv, TypeOK, HostTypeOK, RbType
  <1>d. TypeOK
    BY DEF TypeInv
  <1>1. CASE Check(s)
    <2>1. tx' \in TxType /\ ActiveWant'
      BY <1>0, <1>1, StepOutcome DEF Check, Due
    <2> QED
      BY <1>0, <1>1, <2>1, StepFrame DEF Check
  <1>2. CASE Write(s)
    <2>1. tx' \in TxType /\ ActiveWant'
      BY <1>0, <1>2, StepOutcome DEF Write, Due
    <2>2. want.cfg \in Configs
      BY <1>2, DeclarationFields DEF Write, Due, TypeInv, ActiveWant, want
    <2>3. s[2] \in Resource
      BY <1>0, <1>2, StepObject DEF Write, FileOp
    <2>4. file' \in [Resource -> FileValue]
      BY <1>0, <1>2, <2>2, <2>3, TextIsFileValue DEF Write
    <2>5. rb' \in RbType
      BY <1>0, <1>2, <2>3 DEF Write, Booked, RbType
    <2> QED
      BY <1>0, <1>2, <2>1, <2>4, <2>5, StepFrame DEF Write
  <1>3. CASE DaemonReload(s)
    <2>1. tx' \in TxType /\ ActiveWant'
      BY <1>0, <1>3, StepOutcome DEF DaemonReload, Due
    <2> QED
      BY <1>0, <1>d, <1>3, <2>1, StepFrame, DefIsFileValue DEF DaemonReload
  <1>4. CASE Enable(s)
    <2>1. tx' \in TxType /\ ActiveWant'
      BY <1>0, <1>4, StepOutcome DEF Enable, Due
    <2>2. s[2] \in Unit
      BY <1>0, <1>4, StepObject DEF Enable, UnitOp
    <2>3. rb' \in RbType /\ enabled' \subseteq Unit
      BY <1>0, <1>4, <2>2 DEF Enable, RbType
    <2> QED
      BY <1>0, <1>d, <1>4, <2>1, <2>3, StepFrame, DefIsFileValue DEF Enable
  <1>5. CASE Disable(s)
    <2>1. tx' \in TxType /\ ActiveWant'
      BY <1>0, <1>5, StepOutcome DEF Disable, Due
    <2> QED
      BY <1>0, <1>d, <1>5, <2>1, StepFrame, DefIsFileValue DEF Disable
  <1>6. CASE Start(s)
    <2>1. tx' \in TxType /\ ActiveWant'
      BY <1>0, <1>6, StepOutcome DEF Start, Due
    <2>2. s[2] \in Unit
      BY <1>0, <1>6, StepObject DEF Start, UnitOp
    <2>3. rb' \in RbType
      BY <1>0, <1>6, <2>2 DEF Start, StartBooked, RbType
    <2>4. running' \in [Service -> Process \cup {None}]
      BY <1>d, <1>6, ServicesTyped DEF Start, Launched
    <2>5. contents' \subseteq {"runtime", "unknown"}
      BY <1>0, <1>6 DEF Start, WithLog
    <2> QED
      BY <1>0, <1>d, <1>6, <2>1, <2>3, <2>4, <2>5, StepFrame, DefIsFileValue DEF Start
  <1>7. CASE CannotStart(s)
    <2>1. tx' \in TxType /\ ActiveWant'
      BY <1>0, <1>7, StepOutcome DEF CannotStart, Due
    <2> QED
      BY <1>0, <1>7, <2>1, StepFrame DEF CannotStart
  <1>8. CASE Stop(s)
    <2>1. tx' \in TxType /\ ActiveWant'
      BY <1>0, <1>8, StepOutcome DEF Stop, Due
    <2> QED
      BY <1>0, <1>d, <1>8, <2>1, StepFrame, ServicesTyped DEF Stop
  <1>9. CASE RemoveFile(s)
    <2>1. tx' \in TxType /\ ActiveWant'
      BY <1>0, <1>9, StepOutcome DEF RemoveFile, Due
    <2>2. s[2] \in Resource
      BY <1>0, <1>9, StepObject DEF RemoveFile, FileOp
    <2>3. file' \in [Resource -> FileValue]
      BY <1>0, <1>9 DEF RemoveFile, FileValue
    <2>4. rb' \in RbType
      BY <1>0, <1>9, <2>2 DEF RemoveFile, RbType
    <2> QED
      BY <1>0, <1>9, <2>1, <2>3, <2>4, StepFrame DEF RemoveFile
  <1>10. CASE RemoveStateDir(s)
    <2>1. tx' \in TxType /\ ActiveWant'
      BY <1>0, <1>10, StepOutcome DEF RemoveStateDir, Due
    <2>2. file' \in [Resource -> FileValue]
      BY <1>0, <1>10 DEF RemoveStateDir, FileValue
    <2>3. rb' \in RbType
      <3>1. CASE rb' = [rb EXCEPT !.logs = @ \/ "runtime" \in contents, !.goneDir = TRUE]
        BY <1>0, <3>1 DEF RbType
      <3>2. CASE rb' = [rb EXCEPT !.logs = @ \/ "runtime" \in contents]
        BY <1>0, <3>2 DEF RbType
      <3> QED
        BY <1>10, <3>1, <3>2 DEF RemoveStateDir
    <2>4. contents' \subseteq {"runtime", "unknown"}
      BY <1>0, <1>10 DEF RemoveStateDir
    <2> QED
      BY <1>0, <1>10, <2>1, <2>2, <2>3, <2>4, StepFrame DEF RemoveStateDir
  <1> QED
    BY <1>1, <1>2, <1>3, <1>4, <1>5, <1>6, <1>7, <1>8, <1>9, <1>10 DEF Execute

\* Everything but the host: what the steps outside `execute` may change.
LEMMA PhaseFrame ==
    ASSUME TypeInv, tx' \in TxType, ActiveWant', UNCHANGED hostVars,
           applied' \in ValidDeclaration \cup {None}, pending' \subseteq {"plain", "forced"},
           rb' \in RbType, failedFirst' \in BOOLEAN,
           journal' \in [status : {"none", "running", "failed", "succeeded"}, clean : BOOLEAN],
           pre' = pre \/ pre' = NoPre, late' \subseteq Resource
    PROVE  TypeInv'
  <1>1. pre' \in [file : [Resource -> FileValue], enabled : SUBSET Unit,
                  active : SUBSET Unit, fresh : BOOLEAN]
    <2>1. NoPre \in [file : [Resource -> FileValue], enabled : SUBSET Unit,
                     active : SUBSET Unit, fresh : BOOLEAN]
      BY DEF NoPre, FileValue
    <2> QED
      BY <2>1 DEF TypeInv, TypeOK
  <1> QED
    BY <1>1 DEF TypeInv, TypeOK, HostTypeOK, hostVars, TxType, RbType

\* Moving to another phase, raising, or ending keeps the transaction typed.
LEMMA MoveTyped ==
    ASSUME TypeInv, tx.phase # "idle", (\E p \in Phase : Move(p)) \/ Raise \/ tx' = NoTx
    PROVE  tx' \in TxType /\ ActiveWant'
  <1>1. CASE \E p \in Phase : Move(p)
    BY <1>1 DEF Move, TypeInv, TypeOK, ActiveWant, TxType
  <1>2. CASE Raise
    BY <1>2 DEF Raise, TypeInv, TypeOK, ActiveWant, TxType, Phase
  <1>3. CASE tx' = NoTx
    BY <1>3 DEF NoTx, ActiveWant, TxType, Phase
  <1> QED
    BY <1>1, <1>2, <1>3

LEMMA EndTyped ==
    ASSUME TypeInv,
           \/ FailsEarly \/ Executed \/ Qualify \/ FinalPlan \/ FinalPlanGuard
           \/ WriteApplied \/ Finish \/ FinishRaises
    PROVE  TypeInv'
  <1> USE DEF Raises
  <1>0. /\ rb \in RbType /\ NoUndo \in RbType /\ failedFirst \in BOOLEAN
        /\ applied \in ValidDeclaration \cup {None} /\ pending \subseteq {"plain", "forced"}
        /\ journal \in [status : {"none", "running", "failed", "succeeded"}, clean : BOOLEAN]
        /\ late \subseteq Resource
    BY DEF TypeInv, TypeOK, RbType, NoUndo
  <1>1. CASE FailsEarly
    <2>1. tx' \in TxType /\ ActiveWant'
      BY <1>1, MoveTyped DEF FailsEarly
    <2> QED
      BY <1>0, <1>1, <2>1, PhaseFrame DEF FailsEarly, notStep, hostVars
  <1>2. CASE Executed
    <2>1. Move("qualify")
      BY <1>2 DEF Executed, Move
    <2>2. tx' \in TxType /\ ActiveWant'
      BY <1>2, <2>1, MoveTyped DEF Executed, Phase
    <2> QED
      BY <1>0, <1>2, <2>2, PhaseFrame DEF Executed
  <1>3. CASE Qualify
    <2>1. tx' \in TxType /\ ActiveWant'
      BY <1>3, MoveTyped DEF Qualify, Phase
    <2> QED
      BY <1>0, <1>3, <2>1, PhaseFrame DEF Qualify, notPhase
  <1>4. CASE FinalPlan
    <2>1. tx' \in TxType /\ ActiveWant'
      BY <1>4, MoveTyped DEF FinalPlan, Phase
    <2> QED
      BY <1>0, <1>4, <2>1, PhaseFrame DEF FinalPlan, notPhase
  <1>5. CASE FinalPlanGuard
    <2>1. tx' \in TxType /\ ActiveWant'
      BY <1>5, MoveTyped DEF FinalPlanGuard, Phase
    <2> QED
      BY <1>0, <1>5, <2>1, PhaseFrame DEF FinalPlanGuard, notPhase
  <1>6. CASE WriteApplied
    <2>1. tx' \in TxType /\ ActiveWant'
      BY <1>6, MoveTyped DEF WriteApplied, Phase
    <2>2. applied' \in ValidDeclaration \cup {None}
      BY <1>0, <1>6 DEF WriteApplied, TypeInv, ActiveWant, want
    <2> QED
      BY <1>0, <1>6, <2>1, <2>2, PhaseFrame DEF WriteApplied
  <1>7. CASE Finish
    <2>1. tx' \in TxType /\ ActiveWant'
      BY <1>7, MoveTyped DEF Finish
    <2> QED
      BY <1>0, <1>7, <2>1, PhaseFrame DEF Finish
  <1>8. CASE FinishRaises
    <2>1. tx' \in TxType /\ ActiveWant'
      BY <1>8, MoveTyped DEF FinishRaises
    <2>2. rb' \in RbType
      BY <1>0, <1>8 DEF FinishRaises, RbType
    <2> QED
      BY <1>0, <1>8, <2>1, <2>2, PhaseFrame DEF FinishRaises
  <1> QED
    BY <1>1, <1>2, <1>3, <1>4, <1>5, <1>6, <1>7, <1>8

\* A rollback's verdict is a journal entry.
JournalType == [status : {"none", "running", "failed", "succeeded"}, clean : BOOLEAN]

LEMMA JournalMarked ==
    ASSUME NEW j \in JournalType, NEW k,
           \/ k = [j EXCEPT !.status = "failed"]
           \/ k = [status |-> "failed", clean |-> FALSE]
    PROVE  k \in JournalType
  <1>1. CASE k = [j EXCEPT !.status = "failed"]
    BY <1>1 DEF JournalType
  <1>2. CASE k = [status |-> "failed", clean |-> FALSE]
    BY <1>2 DEF JournalType
  <1> QED
    BY <1>1, <1>2

\* A restore that raises part way gives back saved files and logs only.
LEMMA RestoresInPart ==
    ASSUME TypeOK, tx.want \in ValidDeclaration, RollbackFilesRaises
    PROVE  /\ file' \in [Resource -> FileValue]
           /\ \A r \in Resource \ {StateDir} :
                 \/ file'[r] = file[r]
                 \/ r \in Saved /\ file'[r] = rb.text[r]
           /\ \/ file'[StateDir] = file[StateDir]
              \/ file'[StateDir] = Text(StateDir, want.cfg)
           /\ file'[Owner] # file[Owner] => file'[StateDir] = Text(StateDir, want.cfg)
           /\ contents' = contents \/ contents' = contents \cup {"runtime"}
           /\ contents' # contents => file'[StateDir] = Text(StateDir, want.cfg)
           /\ UNCHANGED <<desired, enabled, cached, running, guardpc>>
  <1> PICK back \in SUBSET Saved, logs \in BOOLEAN, dir \in BOOLEAN :
          /\ logs \/ Owner \in back => dir
          /\ contents' = contents \cup (IF logs THEN {"runtime"} ELSE {})
          /\ file' = [r \in Resource |->
                IF r = StateDir THEN IF dir THEN Text(StateDir, want.cfg) ELSE file[StateDir]
                ELSE IF r \in back THEN rb.text[r]
                ELSE file[r]]
    BY DEF RollbackFilesRaises
  <1>1. StateDir \in Resource /\ Owner \in Resource /\ Owner # StateDir
    BY DEF Resource, StateDir, Owner
  <1>2. want.cfg \in Configs
    BY DeclarationFields DEF want
  <1>3. Text(StateDir, want.cfg) \in FileValue
    BY <1>1, <1>2, TextIsFileValue
  <1>4. \A r \in Saved : rb.text[r] \in FileValue
    BY DEF Saved, TypeOK
  <1>5. file \in [Resource -> FileValue]
    BY DEF TypeOK, HostTypeOK
  <1>6. file' \in [Resource -> FileValue]
    BY <1>3, <1>4, <1>5
  <1>7. /\ \A r \in Resource \ {StateDir} :
             \/ file'[r] = file[r]
             \/ r \in Saved /\ file'[r] = rb.text[r]
        /\ \/ file'[StateDir] = file[StateDir]
           \/ file'[StateDir] = Text(StateDir, want.cfg)
        /\ file'[Owner] # file[Owner] => file'[StateDir] = Text(StateDir, want.cfg)
    BY <1>1
  <1>8. UNCHANGED <<desired, enabled, cached, running, guardpc>>
    BY DEF RollbackFilesRaises, notUndo
  <1>9. /\ contents' = contents \/ contents' = contents \cup {"runtime"}
        /\ contents' # contents => file'[StateDir] = Text(StateDir, want.cfg)
    BY <1>1
  <1> QED
    BY <1>6, <1>7, <1>8, <1>9

LEMMA RollbackTyped ==
    ASSUME TypeInv,
           RollbackUnits \/ RollbackFiles \/ RollbackFilesRaises \/ RollbackReload
    PROVE  TypeInv'
  <1>0. /\ rb \in RbType /\ NoUndo \in RbType
        /\ journal \in [status : {"none", "running", "failed", "succeeded"}, clean : BOOLEAN]
        /\ file \in [Resource -> FileValue] /\ TypeOK /\ StateDir \in Resource
    BY DEF TypeInv, TypeOK, HostTypeOK, RbType, NoUndo, Resource
  <1> USE DEF TypeInv, TypeOK, HostTypeOK, notUndo
  <1>1. CASE RollbackUnits
    <2>1. tx' \in TxType /\ ActiveWant'
      BY <1>1, MoveTyped DEF RollbackUnits, Phase
    <2>2. running' \in [Service -> Process \cup {None}] /\ enabled' \subseteq Unit
      BY <1>0, <1>1, ServicesTyped DEF RollbackUnits
    <2>3. cached' \in [Unit -> FileValue]
      BY <1>0, <1>1, DefIsFileValue DEF RollbackUnits
    <2>4. journal' \in [status : {"none", "running", "failed", "succeeded"}, clean : BOOLEAN]
      <3> PICK stuck \in SUBSET (rb.started \cup rb.enabled) :
             journal' = [journal EXCEPT !.clean = IF stuck = {} THEN @ ELSE FALSE]
        BY <1>1 DEF RollbackUnits
      <3> QED
        BY <1>0
    <2> QED
      BY <1>0, <1>1, <2>1, <2>2, <2>3, <2>4 DEF RollbackUnits, TxType, RbType
  <1>2. CASE RollbackFiles
    <2>1. tx' \in TxType /\ ActiveWant'
      BY <1>2, MoveTyped DEF RollbackFiles, Phase
    <2>2. want.cfg \in Configs
      BY <1>2, DeclarationFields DEF RollbackFiles, ActiveWant, want
    <2>3. Text(StateDir, want.cfg) \in FileValue
      BY <1>0, <2>2, TextIsFileValue
    <2>4. \A r \in Saved : rb.text[r] \in FileValue
      BY <1>0 DEF Saved, RbType
    <2>5. file' \in [Resource -> FileValue]
      BY <1>0, <1>2, <2>3, <2>4 DEF RollbackFiles, FileValue
    <2>6. contents' \subseteq {"runtime", "unknown"}
      BY <1>2 DEF RollbackFiles
    <2> QED
      BY <1>0, <1>2, <2>1, <2>5, <2>6 DEF RollbackFiles, TxType, RbType
  <1>3. CASE RollbackFilesRaises
    <2>1. tx' \in TxType /\ ActiveWant'
      BY <1>3, MoveTyped DEF RollbackFilesRaises, Phase
    <2>2. tx.want \in ValidDeclaration
      <3>1. tx.phase = "undo-files"
        BY <1>3 DEF RollbackFilesRaises
      <3> QED
        BY <3>1 DEF ActiveWant
    <2>3. /\ file' \in [Resource -> FileValue] /\ contents' \subseteq {"runtime", "unknown"}
          /\ UNCHANGED <<desired, enabled, cached, running, guardpc>>
      BY <1>0, <1>3, <2>2, RestoresInPart
    <2>4. /\ UNCHANGED <<desired, applied, pending, failedFirst, pre, late>> /\ rb' = NoUndo
          /\ journal' = [journal EXCEPT !.clean = FALSE]
      BY <1>3 DEF RollbackFilesRaises
    <2>5. /\ rb' \in RbType
          /\ journal' \in [status : {"none", "running", "failed", "succeeded"}, clean : BOOLEAN]
      BY <1>0, <2>4
    <2> QED
      BY <2>1, <2>3, <2>4, <2>5 DEF TxType, RbType
  <1>4. CASE RollbackReload
    <2>1. tx' \in TxType /\ ActiveWant'
      BY <1>4, MoveTyped DEF RollbackReload
    <2>2. cached' \in [Unit -> FileValue]
      BY <1>0, <1>4, DefIsFileValue DEF RollbackReload
    <2>3. pre' \in [file : [Resource -> FileValue], enabled : SUBSET Unit,
                    active : SUBSET Unit, fresh : BOOLEAN]
      BY <1>4 DEF RollbackReload, NoPre, FileValue
    <2>4. failedFirst' \in BOOLEAN
      BY <1>4 DEF RollbackReload
    <2>5. journal' \in [status : {"none", "running", "failed", "succeeded"}, clean : BOOLEAN]
      <3>1. \/ journal' = [journal EXCEPT !.status = "failed"]
            \/ journal' = [status |-> "failed", clean |-> FALSE]
        BY <1>4 DEF RollbackReload
      <3> QED
        BY <1>0, <3>1, JournalMarked DEF JournalType
    <2>6. /\ UNCHANGED <<desired, applied, pending, file, contents, enabled, running,
                        guardpc, rb>>
          /\ late' \subseteq Resource
      BY <1>4 DEF RollbackReload
    <2> QED
      BY <1>0, <2>1, <2>2, <2>3, <2>4, <2>5, <2>6 DEF TxType, RbType
  <1> QED
    BY <1>1, <1>2, <1>3, <1>4

LEMMA EnvironmentTyped ==
    ASSUME TypeInv, Environment
    PROVE  TypeInv'
  <1> USE DEF TypeInv, TypeOK, HostTypeOK, ActiveWant
  <1>0. NoTx \in TxType /\ NoTx.phase = "idle" /\ NoUndo \in RbType
    BY DEF NoTx, NoUndo, TxType, RbType, Phase
  <1>1. NoPre \in [file : [Resource -> FileValue], enabled : SUBSET Unit,
                   active : SUBSET Unit, fresh : BOOLEAN]
    BY DEF NoPre, FileValue
  <1>2. CASE Kill
    BY <1>0, <1>1, <1>2 DEF Kill, hostVars, TxType, RbType
  <1>3. CASE Reboot
    <2>1. running' \in [Service -> Process \cup {None}] /\ cached' \in [Unit -> FileValue]
      BY <1>3, BootedTyped, DefIsFileValue DEF Reboot
    <2>2. /\ UNCHANGED <<desired, file, contents, enabled, applied, journal, failedFirst>>
          /\ tx' = NoTx /\ rb' = NoUndo /\ pre' = NoPre /\ late' = {}
          /\ pending' = {} /\ guardpc' = "off"
      BY <1>3 DEF Reboot
    <2> QED
      BY <1>0, <1>1, <2>1, <2>2 DEF TxType, RbType
  <1>4. CASE \E r \in Resource : Tamper(r)
    BY <1>4 DEF Tamper, FileValue
  <1>5. CASE DropUnknown
    BY <1>5 DEF DropUnknown
  <1> QED
    BY <1>2, <1>3, <1>4, <1>5 DEF Environment

LEMMA GuardTyped ==
    ASSUME TypeInv, Guard
    PROVE  TypeInv'
  <1>0. TypeOK
    BY DEF TypeInv
  <1>1. ASSUME NEW pc \in {"off", "persisted"}, GuardWrites(pc)
        PROVE  /\ file' \in [Resource -> FileValue]
               /\ contents' \subseteq {"runtime", "unknown"}
               /\ guardpc' \in {"off", "probe", "persisted", "restarted"}
    <2>1. StateDir \in Resource /\ desired.cfg \in Configs
      BY DeclarationFields DEF Resource, TypeInv, TypeOK, HostTypeOK
    <2>2. Text(StateDir, desired.cfg) \in FileValue
      BY <2>1, TextIsFileValue
    <2> QED
      BY <1>1, <2>1, <2>2 DEF GuardWrites, TypeInv, TypeOK, HostTypeOK
  <1> USE DEF TypeInv, TypeOK, HostTypeOK, ActiveWant, notGuard
  <1>2. CASE GuardBegins
    BY <1>0, <1>2, DefIsFileValue DEF GuardBegins
  <1>3. CASE GuardObserves
    BY <1>1, <1>3 DEF GuardObserves
  <1>4. CASE GuardRestarts
    <2>1. running' \in [Service -> Process \cup {None}] /\ cached' \in [Unit -> FileValue]
      BY <1>0, <1>4, DefIsFileValue, ServicesTyped DEF GuardRestarts
    <2>2. contents' \subseteq {"runtime", "unknown"}
      BY <1>4 DEF GuardRestarts, WithLog
    <2> QED
      BY <1>4, <2>1, <2>2 DEF GuardRestarts
  <1>5. CASE GuardEnds
    BY <1>1, <1>5 DEF GuardEnds
  <1> QED
    BY <1>2, <1>3, <1>4, <1>5 DEF Guard

LEMMA NextTyped == TypeInv /\ [Next]_vars => TypeInv'
  <1> SUFFICES ASSUME TypeInv, [Next]_vars PROVE TypeInv'
    OBVIOUS
  <1>1. CASE Worker
    BY <1>1, PlanningTyped, ExecuteTyped, EndTyped, RollbackTyped DEF Worker
  <1>2. CASE UNCHANGED vars
    BY <1>2 DEF vars, hostVars, TypeInv, TypeOK, HostTypeOK, ActiveWant
  <1> QED
    BY <1>1, <1>2, OperatorTyped, EnvironmentTyped, GuardTyped DEF Next

\* Whatever the configurations, the commands and the hazards, every variable
\* keeps its type: in particular a transaction only ever holds steps of a
\* plan, the services stay the three that have a process, and
\* what a transaction in progress wants is a declaration of the registry.
THEOREM TypeCorrect == Spec => []TypeOK
  <1>1. TypeInv => TypeOK
    BY DEF TypeInv
  <1> QED
    BY <1>1, InitTyped, NextTyped, PTL DEF Spec

(***************************************************************************)
(* ForeignSafe: a transaction, its rollback and the admission guard never  *)
(* overwrite or delete a file of another owner.  The property is not       *)
(* inductive: that a step may write a file follows from what the plan saw, *)
(* that a rollback may from what the steps did.                            *)
(***************************************************************************)
\* The file is ours, or turned foreign after it was looked at last.
Ours(r) == file[r] # Foreign \/ r \in late
Touched(r) == rb.text[r] # None \/ r \in rb.created
CheckPending == {<<"check", "host">>, <<"recheck", "host">>} \cap tx.todo # {}

OnlyExecuteHasSteps == tx.phase # "execute" => tx.todo = {}
NothingToUndo == tx.phase \in {"idle", "planning", "undo-reload"} => rb = NoUndo
WritesOurs ==
    \A r \in Resource : <<"create", r>> \in tx.todo \/ <<"update", r>> \in tx.todo => Ours(r)
RemovesOurs ==
    \A r \in Resource : <<"remove", r>> \in tx.todo => Ours(r) \/ CheckPending
UndoesOurs == \A r \in Resource : Touched(r) => Ours(r)
RemovesOnce ==
    \A r \in Resource : <<"remove", r>> \in tx.todo =>
        /\ ~Touched(r)
        /\ <<"create", r>> \notin tx.todo /\ <<"update", r>> \notin tx.todo

ForeignInv ==
    /\ TypeInv
    /\ file[StateDir] # Foreign
    /\ OnlyExecuteHasSteps /\ NothingToUndo
    /\ WritesOurs /\ RemovesOurs /\ UndoesOurs /\ RemovesOnce

(***************************************************************************)
(* The check before a removal has run when the removal is due.             *)
(***************************************************************************)
LEMMA RanksOfChecks ==
    /\ OpRank("check") = 1 /\ OpRank("recheck") = 10 /\ OpRank("remove") = 11
  <1>1. DOMAIN OpOrder = 1..12
    BY DEF OpOrder
  <1>2. \A i \in 1..12 : "check" \in OpOrder[i] <=> i = 1
    BY DEF OpOrder
  <1>3. \A i \in 1..12 : "recheck" \in OpOrder[i] <=> i = 10
    BY DEF OpOrder
  <1>4. \A i \in 1..12 : "remove" \in OpOrder[i] <=> i = 11
    BY DEF OpOrder
  <1> QED
    BY <1>1, <1>2, <1>3, <1>4 DEF OpRank

LEMMA PositionIsNat ==
    ASSUME NEW r
    PROVE  Position(r, RemovalOrder) \in 0..7
  <1>1. DOMAIN RemovalOrder = 1..7
    BY DEF RemovalOrder
  <1> QED
    BY <1>1 DEF Position

LEMMA RemovalComesLast ==
    ASSUME NEW r \in Resource
    PROVE  /\ Rank(<<"check", "host">>) = 10 /\ Rank(<<"recheck", "host">>) = 100
           /\ Rank(<<"remove", r>>) \in 110..117
  <1>1. Position("host", BundleOrder) = 0
    BY DEF Position, BundleOrder, StateDir, Owner, Profile, Mcp, Tunnel, GuardSvc, Timer
  <1>2. /\ ResourceRank("check", "host") = 0 /\ ResourceRank("recheck", "host") = 0
        /\ ResourceRank("remove", r) \in 0..7
    BY <1>1, PositionIsNat DEF ResourceRank
  <1> QED
    BY <1>2, RanksOfChecks DEF Rank

LEMMA DueRemovalIsChecked ==
    ASSUME NEW r \in Resource, Due(<<"remove", r>>)
    PROVE  ~CheckPending
  <1> SUFFICES ASSUME CheckPending PROVE FALSE
    OBVIOUS
  <1>1. PICK t \in tx.todo : t \in {<<"check", "host">>, <<"recheck", "host">>}
    BY DEF CheckPending
  <1>2. Rank(<<"remove", r>>) <= Rank(t)
    BY <1>1 DEF Due
  <1> QED
    BY <1>1, <1>2, RemovalComesLast
(***************************************************************************)
(* What a plan's steps find.                                               *)
(***************************************************************************)
LEMMA PlanFindsOurs ==
    ASSUME NEW d, NEW force, NEW r \in Resource
    PROVE  /\ <<"create", r>> \in PlanSteps(d, force) \/ <<"update", r>> \in PlanSteps(d, force)
                => file[r] # Foreign
           /\ <<"remove", r>> \in PlanSteps(d, force) =>
                /\ <<"create", r>> \notin PlanSteps(d, force)
                /\ <<"update", r>> \notin PlanSteps(d, force)
                /\ {<<"check", "host">>, <<"recheck", "host">>} \cap PlanSteps(d, force) # {}
  <1>1. <<"create", r>> \in PlanSteps(d, force) => Present(d) /\ r \in Creates(d)
    BY DEF PlanSteps, PresentSteps, AbsentSteps, StopPass, On, If
  <1>2. <<"update", r>> \in PlanSteps(d, force) => Present(d) /\ r \in Updates(d)
    BY DEF PlanSteps, PresentSteps, AbsentSteps, StopPass, On, If
  <1>3. <<"remove", r>> \in PlanSteps(d, force) => r \in Removes(d)
    BY DEF PlanSteps, PresentSteps, AbsentSteps, StopPass, On, If
  <1>4. r \in Creates(d) \cup Updates(d) => file[r] # Foreign
    BY SentinelsDiffer DEF Creates, Updates, Observe
  <1>5. Present(d) /\ r \in Removes(d) => r \notin Creates(d) \cup Updates(d)
    BY DEF Removes, Creates, Updates, Stale
  <1>6. Removes(d) # {} => {<<"check", "host">>, <<"recheck", "host">>} \cap PlanSteps(d, force) # {}
    BY DEF PlanSteps, PresentSteps, AbsentSteps, If
  <1> QED
    BY <1>1, <1>2, <1>3, <1>4, <1>5, <1>6

(***************************************************************************)
(* The invariant.                                                          *)
(***************************************************************************)
LEMMA NothingTouched ==
    ASSUME NEW r \in Resource
    PROVE  NoUndo.text[r] = None /\ NoUndo.created = {}
  BY DEF NoUndo

LEMMA InitForeign == Init => ForeignInv
  <1> SUFFICES ASSUME Init PROVE ForeignInv
    OBVIOUS
  <1>1. tx.phase = "idle" /\ tx.todo = {} /\ rb = NoUndo
    BY DEF Init, NoTx
  <1>2. \A r \in Resource : file[r] = Absent
    BY DEF Init
  <1>3. file[StateDir] # Foreign /\ UndoesOurs
    BY <1>1, <1>2, SentinelsDiffer DEF UndoesOurs, Ours, StateDir, Resource
  <1> QED
    BY <1>1, <1>3, InitTyped DEF ForeignInv, OnlyExecuteHasSteps, NothingToUndo,
       WritesOurs, RemovesOurs, RemovesOnce

\* Steps that leave the files, the transaction and its history alone.
LEMMA ForeignFrame ==
    ASSUME ForeignInv, TypeInv', UNCHANGED <<file, tx, rb, late>>
    PROVE  ForeignInv'
  BY DEF ForeignInv, OnlyExecuteHasSteps, NothingToUndo, WritesOurs, RemovesOurs,
     UndoesOurs, RemovesOnce, Ours, Touched, CheckPending

\* Steps that move on or raise: what is left to do shrinks to nothing.
LEMMA ForeignMoves ==
    ASSUME ForeignInv, TypeInv', UNCHANGED <<file, late>>,
           tx'.todo = {}, \A r \in Resource : Touched(r)' => Touched(r),
           tx'.phase \in {"idle", "planning", "undo-reload"} => rb' = NoUndo
    PROVE  ForeignInv'
  BY DEF ForeignInv, OnlyExecuteHasSteps, NothingToUndo, WritesOurs, RemovesOurs,
     UndoesOurs, RemovesOnce, Ours, Touched

\* Steps that end a transaction.
LEMMA ForeignEnds ==
    ASSUME ForeignInv, TypeInv', UNCHANGED file, tx' = NoTx, rb' = NoUndo
    PROVE  ForeignInv'
  <1>1. tx'.todo = {} /\ tx'.phase = "idle"
    BY DEF NoTx
  <1>2. \A r \in Resource : ~Touched(r)'
    BY NothingTouched DEF Touched
  <1> QED
    BY <1>1, <1>2 DEF ForeignInv, OnlyExecuteHasSteps, NothingToUndo, WritesOurs,
       RemovesOurs, UndoesOurs, RemovesOnce

\* A step of the transaction that completes or raises.
LEMMA ForeignStep ==
    ASSUME ForeignInv, TypeInv', NEW s \in Step, tx.phase = "execute",
           Proceed(s) \/ Raise, UNCHANGED late,
           file'[StateDir] # Foreign,
           \A r \in Resource : file'[r] = Foreign => file[r] = Foreign,
           \A r \in Resource :
              s \in {<<"check", "host">>, <<"recheck", "host">>}
                 /\ <<"remove", r>> \in tx.todo /\ Proceed(s) => Ours(r)',
           \A r \in Resource :
              Touched(r)' => Touched(r) \/ (Ours(r)' /\ <<"remove", r>> \notin tx.todo \ {s})
    PROVE  ForeignInv'
  <1>1. \A r \in Resource : Ours(r) => Ours(r)'
    BY DEF Ours
  <1>2. CASE Proceed(s)
    <2>1. tx'.todo = tx.todo \ {s} /\ tx'.phase = "execute"
      BY <1>2 DEF Proceed, ForeignInv, TypeInv, TypeOK
    <2>2. OnlyExecuteHasSteps' /\ NothingToUndo'
      BY <2>1 DEF OnlyExecuteHasSteps, NothingToUndo
    <2>3. WritesOurs'
      BY <1>1, <2>1 DEF WritesOurs, ForeignInv
    <2>4. RemovesOurs'
      <3> SUFFICES ASSUME NEW r \in Resource, <<"remove", r>> \in tx'.todo
                   PROVE  Ours(r)' \/ CheckPending'
        BY DEF RemovesOurs
      <3>1. <<"remove", r>> \in tx.todo /\ (Ours(r) \/ CheckPending)
        BY <2>1 DEF ForeignInv, RemovesOurs
      <3> QED
        BY <1>1, <1>2, <2>1, <3>1 DEF CheckPending
    <2>5. UndoesOurs'
      BY <1>1 DEF UndoesOurs, ForeignInv
    <2>6. RemovesOnce'
      BY <2>1 DEF RemovesOnce, ForeignInv
    <2> QED
      BY <2>2, <2>3, <2>4, <2>5, <2>6 DEF ForeignInv
  <1>3. CASE Raise
    <2>1. tx'.todo = {} /\ tx'.phase = "undo-units"
      BY <1>3 DEF Raise, ForeignInv, TypeInv, TypeOK
    <2>2. UndoesOurs'
      BY <1>1 DEF UndoesOurs, ForeignInv
    <2> QED
      BY <2>1, <2>2 DEF ForeignInv, OnlyExecuteHasSteps, NothingToUndo, WritesOurs,
         RemovesOurs, RemovesOnce
  <1> QED
    BY <1>2, <1>3

LEMMA PlanningForeign ==
    ASSUME ForeignInv, TypeInv',
           (\E req \in {"plain", "forced"} : Lock(req)) \/ RecoverOwner \/ Begin \/ Refuse
    PROVE  ForeignInv'
  <1>1. CASE \E req \in {"plain", "forced"} : Lock(req)
    <2>1. rb = NoUndo /\ tx'.todo = {} /\ UNCHANGED <<file, late, rb>>
      BY <1>1 DEF Lock, Idle, NoTx, hostVars, ForeignInv, NothingToUndo
    <2>2. \A r \in Resource : Touched(r)' => Touched(r)
      BY <2>1 DEF Touched
    <2> QED
      BY <2>1, <2>2, ForeignMoves
  <1>2. CASE RecoverOwner
    <2>1. /\ tx.todo = {} /\ rb = NoUndo /\ UNCHANGED <<tx, rb, late>>
          /\ file' = [file EXCEPT ![Owner] = Text(Owner, want.cfg)]
      BY <1>2 DEF RecoverOwner, ForeignInv, NothingToUndo, OnlyExecuteHasSteps
    <2>2. file'[StateDir] # Foreign
      BY <2>1 DEF ForeignInv, TypeInv, TypeOK, HostTypeOK, StateDir, Owner
    <2>3. \A r \in Resource : ~Touched(r)'
      BY <2>1, NothingTouched DEF Touched
    <2> QED
      BY <2>1, <2>2, <2>3 DEF ForeignInv, OnlyExecuteHasSteps, NothingToUndo, WritesOurs,
         RemovesOurs, UndoesOurs, RemovesOnce
  <1>3. CASE Begin
    <2>1. /\ tx'.todo = PlanSteps(want, tx.force) /\ tx'.phase = "execute"
          /\ rb' = NoUndo /\ UNCHANGED file
      BY <1>3 DEF Begin, notHost, ForeignInv, TypeInv, TypeOK
    <2>2. \A r \in Resource : ~Touched(r)'
      BY <2>1, NothingTouched DEF Touched
    <2>3. WritesOurs' /\ RemovesOurs'
      BY <2>1, PlanFindsOurs DEF WritesOurs, RemovesOurs, Ours, CheckPending
    <2>4. RemovesOnce' /\ UndoesOurs'
      BY <2>1, <2>2, PlanFindsOurs DEF RemovesOnce, UndoesOurs
    <2> QED
      BY <2>1, <2>3, <2>4 DEF ForeignInv, OnlyExecuteHasSteps, NothingToUndo
  <1>4. CASE Refuse
    BY <1>4, ForeignEnds DEF Refuse, hostVars, ForeignInv, NothingToUndo
  <1> QED
    BY <1>1, <1>2, <1>3, <1>4

LEMMA ExecuteForeign ==
    ASSUME ForeignInv, TypeInv', NEW s \in tx.todo, Execute(s)
    PROVE  ForeignInv'
  <1> USE DEF Ended, Raises
  <1>0. s \in Step /\ file[StateDir] # Foreign /\ StateDir \in Resource
    BY DEF ForeignInv, TypeInv, TypeOK, Resource
  <1>a. /\ file \in [Resource -> FileValue] /\ rb \in RbType
        /\ tx.phase # "idle" => want.cfg \in Configs
    BY DeclarationFields DEF ForeignInv, TypeInv, TypeOK, HostTypeOK, RbType, ActiveWant, want
  <1>1. CASE Check(s)
    <2>1. \A r \in Resource : <<"remove", r>> \in tx.todo /\ OwnershipHolds(s) => Ours(r)
      BY DEF OwnershipHolds, Removing, Observe, Ours
    <2>2. /\ UNCHANGED <<file, rb, late>> /\ (Proceed(s) \/ Raise) /\ tx.phase = "execute"
          /\ OwnershipHolds(s) \/ tx'.todo = {}
      BY <1>1 DEF Check, notStep, Due, Raise, ForeignInv, TypeInv, TypeOK
    <2>3. \A r \in Resource : (Ours(r)' <=> Ours(r)) /\ (Touched(r)' <=> Touched(r))
      BY <2>2 DEF Ours, Touched
    <2>4. CASE OwnershipHolds(s)
      BY <1>0, <2>1, <2>2, <2>3, <2>4, ForeignStep
    <2>5. CASE ~OwnershipHolds(s)
      <3>1. Raise
        BY <1>1, <2>5 DEF Check
      <3>2. tx'.phase = "undo-units"
        BY <3>1 DEF Raise, ForeignInv, TypeInv, TypeOK
      <3> QED
        BY <2>2, <2>3, <2>5, <3>2, ForeignMoves
    <2> QED
      BY <2>4, <2>5
  <1>2. CASE Write(s)
    <2>1. /\ s[2] \in Resource /\ s = <<s[1], s[2]>> /\ s[1] \in {"create", "update"}
          /\ tx.phase = "execute" /\ (Proceed(s) \/ Raise) /\ UNCHANGED late
          /\ s \in tx.todo
      BY <1>0, <1>2, StepObject DEF Write, Due, FileOp, notStep
    <2>2. Text(s[2], want.cfg) # Foreign
      BY <1>a, <2>1, TextIsFileValue
    <2>3. file' = [file EXCEPT ![s[2]] = Text(s[2], want.cfg)]
      BY <1>2 DEF Write
    <2>4. \A r \in Resource : file'[r] = Foreign => file[r] = Foreign
      BY <1>a, <2>1, <2>2, <2>3
    <2>5. \A r \in Resource : r # s[2] => (Touched(r)' => Touched(r))
      BY <1>2, <1>a DEF Write, Booked, Touched, RbType
    <2>6. Ours(s[2])'
      BY <1>a, <2>1, <2>2, <2>3 DEF Ours
    <2>7. <<"remove", s[2]>> \notin tx.todo
      BY <2>1 DEF ForeignInv, RemovesOnce
    <2>8. s \notin {<<"check", "host">>, <<"recheck", "host">>}
      BY <2>1
    <2> QED
      BY <1>0, <2>1, <2>4, <2>5, <2>6, <2>7, <2>8, ForeignStep
  <1>3. CASE DaemonReload(s) \/ Enable(s) \/ Disable(s) \/ Start(s) \/ CannotStart(s) \/ Stop(s)
    <2>1. /\ UNCHANGED <<file, late>> /\ (Proceed(s) \/ Raise) /\ tx.phase = "execute"
          /\ s \notin {<<"check", "host">>, <<"recheck", "host">>}
      BY <1>3 DEF DaemonReload, Enable, Disable, Start, CannotStart, Stop, notStep, Due
    <2>2. \A r \in Resource : rb'.text[r] = rb.text[r] /\ rb'.created = rb.created
      BY <1>3, <1>a DEF DaemonReload, Enable, Disable, Start, CannotStart, Stop, StartBooked, RbType
    <2> QED
      BY <1>0, <2>1, <2>2, ForeignStep DEF Touched
  <1>4. CASE RemoveFile(s)
    <2>1. /\ s[2] \in Resource /\ s = <<"remove", s[2]>> /\ s[2] # StateDir
          /\ tx.phase = "execute" /\ (Proceed(s) \/ Raise) /\ UNCHANGED late
          /\ file' = [file EXCEPT ![s[2]] = Absent]
      BY <1>0, <1>4, StepObject DEF RemoveFile, Due, FileOp, notStep
    <2>2. \A r \in Resource : file'[r] = Foreign => file[r] = Foreign
      BY <1>a, <2>1, SentinelsDiffer
    <2>3. \A r \in Resource : r # s[2] => (Touched(r)' => Touched(r))
      BY <1>4, <1>a DEF RemoveFile, Touched, RbType
    <2>4. Ours(s[2])'
      BY <1>a, <2>1, SentinelsDiffer DEF Ours
    <2>5. file'[StateDir] # Foreign /\ s \notin {<<"check", "host">>, <<"recheck", "host">>}
      BY <1>0, <1>a, <2>1
    <2> QED
      BY <1>0, <2>1, <2>2, <2>3, <2>4, <2>5, ForeignStep
  <1>5. CASE RemoveStateDir(s)
    <2>1. /\ s = <<"remove", StateDir>>
          /\ tx.phase = "execute" /\ (Proceed(s) \/ Raise) /\ UNCHANGED late
          /\ file' = [file EXCEPT ![StateDir] = Absent] \/ file' = file
      BY <1>5 DEF RemoveStateDir, Due, notStep
    <2>2. \A r \in Resource : file'[r] = Foreign => file[r] = Foreign
      BY <1>a, <2>1, SentinelsDiffer
    <2>3. \A r \in Resource : rb'.text[r] = rb.text[r] /\ rb'.created = rb.created
      BY <1>5, <1>a DEF RemoveStateDir, RbType
    <2>4. file'[StateDir] # Foreign /\ s \notin {<<"check", "host">>, <<"recheck", "host">>}
      BY <1>0, <1>a, <2>1, SentinelsDiffer
    <2> QED
      BY <1>0, <2>1, <2>2, <2>3, <2>4, ForeignStep DEF Touched
  <1> QED
    BY <1>1, <1>2, <1>3, <1>4, <1>5 DEF Execute

LEMMA EndForeign ==
    ASSUME ForeignInv, TypeInv',
           \/ FailsEarly \/ Executed \/ Qualify \/ FinalPlan \/ FinalPlanGuard
           \/ WriteApplied \/ Finish \/ FinishRaises
    PROVE  ForeignInv'
  <1> USE DEF Raises
  <1>0. tx \in TxType /\ rb \in RbType
    BY DEF ForeignInv, TypeInv, TypeOK, TxType, RbType
  <1>1. CASE FailsEarly
    <2>1. UNCHANGED <<file, late, rb>> /\ tx'.todo = {} /\ tx'.phase = "undo-units"
      BY <1>0, <1>1 DEF FailsEarly, Raise, notStep, TxType
    <2> QED
      BY <2>1, ForeignMoves DEF Touched
  <1>2. CASE Executed \/ Qualify \/ FinalPlan \/ FinalPlanGuard \/ WriteApplied
    <2>1. UNCHANGED <<file, late, rb>>
      BY <1>2 DEF Executed, Qualify, FinalPlan, FinalPlanGuard, WriteApplied, notPhase, hostVars
    <2>2. tx.todo = {}
      BY <1>2 DEF Executed, Qualify, FinalPlan, FinalPlanGuard, WriteApplied,
         ForeignInv, OnlyExecuteHasSteps
    <2>3. tx'.todo = {}
      BY <1>0, <1>2, <2>2 DEF Executed, Qualify, FinalPlan, FinalPlanGuard, WriteApplied,
         Move, Raise, TxType
    <2>4. tx'.phase \notin {"idle", "planning", "undo-reload"}
      BY <1>0, <1>2 DEF Executed, Qualify, FinalPlan, FinalPlanGuard, WriteApplied,
         Move, Raise, TxType
    <2> QED
      BY <2>1, <2>3, <2>4, ForeignMoves DEF Touched
  <1>3. CASE Finish
    BY <1>3, ForeignEnds DEF Finish, hostVars
  <1>4. CASE FinishRaises
    <2>1. /\ UNCHANGED <<file, late>> /\ tx'.todo = {} /\ tx'.phase = "undo-units"
          /\ rb'.text = rb.text /\ rb'.created = rb.created
      BY <1>0, <1>4 DEF FinishRaises, Raise, hostVars, TxType, RbType
    <2> QED
      BY <2>1, ForeignMoves DEF Touched
  <1> QED
    BY <1>1, <1>2, <1>3, <1>4

\* What a rollback brings back or takes away was ours when it was booked.
LEMMA RollbackFilesOurs ==
    ASSUME ForeignInv, RollbackFiles \/ RollbackFilesRaises,
           NEW r \in Resource, file[r] = Foreign, file'[r] # Foreign
    PROVE  r \in late
  <1>1. r # StateDir
    BY DEF ForeignInv
  <1>2. Touched(r)
    <2>1. CASE RollbackFiles
      BY <1>1, <2>1 DEF RollbackFiles, Saved, Touched
    <2>2. CASE RollbackFilesRaises
      <3>1. tx.want \in ValidDeclaration /\ TypeOK
        <4>1. tx.phase = "undo-files"
          BY <2>2 DEF RollbackFilesRaises
        <4> QED
          BY <4>1 DEF ForeignInv, TypeInv, ActiveWant
      <3> QED
        BY <1>1, <2>2, <3>1, RestoresInPart DEF Saved, Touched
    <2> QED
      BY <2>1, <2>2
  <1> QED
    BY <1>2 DEF ForeignInv, UndoesOurs, Ours

LEMMA RollbackForeign ==
    ASSUME ForeignInv, TypeInv',
           RollbackUnits \/ RollbackFiles \/ RollbackFilesRaises \/ RollbackReload
    PROVE  ForeignInv'
  <1>0. tx \in TxType /\ StateDir \in Resource
    BY DEF ForeignInv, TypeInv, TypeOK, TxType, Resource
  <1>1. CASE RollbackUnits
    <2>1. /\ UNCHANGED <<file, late, rb>> /\ tx.todo = {}
          /\ tx' = [tx EXCEPT !.phase = "undo-files"]
      BY <1>1 DEF RollbackUnits, Move, notUndo, ForeignInv, OnlyExecuteHasSteps
    <2>2. tx'.todo = {} /\ tx'.phase = "undo-files"
      BY <1>0, <2>1 DEF TxType
    <2> QED
      BY <2>1, <2>2, ForeignMoves DEF Touched
  <1>2. CASE RollbackFiles \/ RollbackFilesRaises
    <2>1. /\ rb' = NoUndo /\ UNCHANGED late /\ tx.todo = {}
          /\ tx' = [tx EXCEPT !.phase = "undo-reload"]
      BY <1>2 DEF RollbackFiles, RollbackFilesRaises, Move, notUndo, ForeignInv,
         OnlyExecuteHasSteps
    <2>2. tx'.todo = {} /\ tx'.phase = "undo-reload"
      BY <1>0, <2>1 DEF TxType
    <2>3. \A r \in Resource : ~Touched(r)'
      BY <2>1, NothingTouched DEF Touched
    <2>4. file'[StateDir] # Foreign
      <3>0. tx.want \in ValidDeclaration /\ TypeOK
        <4>1. tx.phase = "undo-files"
          BY <1>2 DEF RollbackFiles, RollbackFilesRaises
        <4> QED
          BY <4>1 DEF ForeignInv, TypeInv, ActiveWant
      <3>t. Text(StateDir, want.cfg) # Foreign
        BY <1>0, <3>0, DeclarationFields, TextIsFileValue DEF want
      <3>1. CASE RollbackFilesRaises
        BY <3>0, <3>t, <3>1, RestoresInPart DEF ForeignInv
      <3>2. CASE RollbackFiles
        <4>2. Text(StateDir, want.cfg) # Foreign
          BY <3>t
        <4>3. file'[StateDir] \in {Absent, Text(StateDir, want.cfg), file[StateDir]}
          BY <1>0, <3>2 DEF RollbackFiles
        <4> QED
          BY <4>2, <4>3, SentinelsDiffer DEF ForeignInv
      <3> QED
        BY <1>2, <3>1, <3>2
    <2> QED
      BY <2>1, <2>2, <2>3, <2>4 DEF ForeignInv, OnlyExecuteHasSteps, NothingToUndo,
         WritesOurs, RemovesOurs, UndoesOurs, RemovesOnce
  <1>3. CASE RollbackReload
    BY <1>3, ForeignEnds DEF RollbackReload, ForeignInv, NothingToUndo
  <1> QED
    BY <1>1, <1>2, <1>3

LEMMA EnvironmentForeign ==
    ASSUME ForeignInv, TypeInv', Environment
    PROVE  ForeignInv'
  <1>1. CASE Kill \/ Reboot
    BY <1>1, ForeignEnds DEF Kill, Reboot, hostVars
  <1>2. CASE \E r \in Resource : Tamper(r)
    <2> PICK q \in Resource : Tamper(q)
      BY <1>2
    <2>0. file \in [Resource -> FileValue] /\ StateDir \in Resource
      BY DEF ForeignInv, TypeInv, TypeOK, HostTypeOK, Resource
    <2>1. /\ UNCHANGED <<tx, rb>> /\ file' = [file EXCEPT ![q] = Foreign]
          /\ late \subseteq late' /\ q # StateDir
          /\ Idle \/ Rechecked(q) \/ q \in late'
      BY DEF Tamper
    <2>2. \A r \in Resource : r # q => (Ours(r) => Ours(r)')
      BY <2>0, <2>1 DEF Ours
    <2>3. \A r \in Resource : Touched(r)' <=> Touched(r)
      BY <2>1 DEF Touched
    <2>4. CASE q \in late'
      <3>1. \A r \in Resource : Ours(r) => Ours(r)'
        BY <2>2, <2>4 DEF Ours
      <3> QED
        BY <2>0, <2>1, <2>3, <3>1 DEF ForeignInv, OnlyExecuteHasSteps, NothingToUndo,
           WritesOurs, RemovesOurs, UndoesOurs, RemovesOnce, CheckPending
    <2>5. CASE Idle
      <3>1. rb = NoUndo /\ tx.todo = {}
        BY <2>5 DEF Idle, ForeignInv, NothingToUndo, OnlyExecuteHasSteps
      <3>2. \A r \in Resource : ~Touched(r)'
        BY <2>3, <3>1, NothingTouched DEF Touched
      <3> QED
        BY <2>0, <2>1, <3>1, <3>2 DEF ForeignInv, OnlyExecuteHasSteps, NothingToUndo,
           WritesOurs, RemovesOurs, UndoesOurs, RemovesOnce
    <2>6. CASE Rechecked(q)
      <3>1. <<"remove", q>> \in tx.todo /\ CheckPending
        BY <2>6 DEF Rechecked, CheckPending
      <3>2. ~Touched(q) /\ <<"create", q>> \notin tx.todo /\ <<"update", q>> \notin tx.todo
        BY <3>1 DEF ForeignInv, RemovesOnce
      <3> QED
        BY <2>0, <2>1, <2>2, <2>3, <3>1, <3>2 DEF ForeignInv, OnlyExecuteHasSteps,
           NothingToUndo, WritesOurs, RemovesOurs, UndoesOurs, RemovesOnce, CheckPending
    <2> QED
      BY <2>1, <2>4, <2>5, <2>6
  <1>3. CASE DropUnknown
    BY <1>3, ForeignFrame DEF DropUnknown
  <1> QED
    BY <1>1, <1>2, <1>3 DEF Environment

\* The guard writes the state directory at most, and only when it is gone.
LEMMA GuardForeign ==
    ASSUME ForeignInv, TypeInv', Guard
    PROVE  ForeignInv' /\ \A r \in Resource : file[r] = Foreign => file'[r] = Foreign
  <1>1. CASE GuardBegins \/ GuardRestarts
    BY <1>1, ForeignFrame DEF GuardBegins, GuardRestarts, notGuard
  <1>2. CASE GuardObserves \/ GuardEnds
    <2>0. /\ file \in [Resource -> FileValue] /\ StateDir \in Resource
          /\ Text(StateDir, desired.cfg) # Foreign
      BY TextIsFileValue, DeclarationFields
         DEF ForeignInv, TypeInv, TypeOK, HostTypeOK, Resource
    <2>1. /\ UNCHANGED <<tx, rb, late>>
          /\ file' = [file EXCEPT ![StateDir] =
                        IF @ = Absent THEN Text(StateDir, desired.cfg) ELSE @]
      BY <1>2 DEF GuardObserves, GuardEnds, GuardWrites, notGuard
    <2>2. \A r \in Resource : file'[r] = Foreign <=> file[r] = Foreign
      BY <2>0, <2>1, SentinelsDiffer
    <2>3. \A r \in Resource : (Ours(r)' <=> Ours(r)) /\ (Touched(r)' <=> Touched(r))
      BY <2>1, <2>2 DEF Ours, Touched
    <2> QED
      BY <2>0, <2>1, <2>2, <2>3 DEF ForeignInv, OnlyExecuteHasSteps, NothingToUndo,
         WritesOurs, RemovesOurs, UndoesOurs, RemovesOnce, CheckPending
  <1> QED
    BY <1>1, <1>2 DEF Guard, GuardBegins, GuardRestarts, notGuard

LEMMA NextForeign == ForeignInv /\ [Next]_vars => ForeignInv'
  <1> SUFFICES ASSUME ForeignInv, [Next]_vars PROVE ForeignInv'
    OBVIOUS
  <1>0. TypeInv'
    BY NextTyped DEF ForeignInv
  <1>1. CASE Worker
    BY <1>0, <1>1, PlanningForeign, ExecuteForeign, EndForeign, RollbackForeign DEF Worker
  <1>2. CASE Operator
    <2>1. UNCHANGED <<file, tx, rb, late>>
      BY <1>2 DEF Operator, Update, Command, Redeclare, notOperator
    <2> QED
      BY <1>0, <2>1, ForeignFrame
  <1>3. CASE UNCHANGED vars
    BY <1>0, <1>3, ForeignFrame DEF vars, hostVars
  <1> QED
    BY <1>0, <1>1, <1>2, <1>3, EnvironmentForeign, GuardForeign DEF Next

(***************************************************************************)
(* The property.                                                           *)
(***************************************************************************)
LEMMA WorkerSparesForeign ==
    ASSUME ForeignInv, Worker, NEW r \in Resource, file[r] = Foreign, file'[r] # Foreign
    PROVE  r \in late
  <1>0. file \in [Resource -> FileValue] /\ tx.todo \subseteq Step
    BY DEF ForeignInv, TypeInv, TypeOK, HostTypeOK
  <1>1. CASE RecoverOwner
    BY <1>0, <1>1, SentinelsDiffer DEF RecoverOwner, Recoverable
  <1>2. CASE \E s \in tx.todo : Write(s)
    <2> PICK s \in tx.todo : Write(s)
      BY <1>2
    <2>1. r = s[2] /\ s = <<s[1], s[2]>> /\ s[1] \in {"create", "update"}
      BY <1>0, StepObject DEF Write
    <2> QED
      BY <2>1 DEF ForeignInv, WritesOurs, Ours
  <1>3. CASE \E s \in tx.todo : RemoveFile(s) \/ RemoveStateDir(s)
    <2> PICK s \in tx.todo : RemoveFile(s) \/ RemoveStateDir(s)
      BY <1>3
    <2>1. r # StateDir
      BY DEF ForeignInv
    <2>2. r = s[2] /\ s = <<"remove", r>> /\ Due(s)
      BY <1>0, <2>1, StepObject DEF RemoveFile, RemoveStateDir
    <2> QED
      BY <2>2, DueRemovalIsChecked DEF ForeignInv, RemovesOurs, Ours
  <1>4. CASE RollbackFiles \/ RollbackFilesRaises
    BY <1>4, RollbackFilesOurs
  <1>5. ASSUME NEW s \in tx.todo,
               Check(s) \/ DaemonReload(s) \/ Enable(s) \/ Disable(s) \/ Start(s)
                  \/ CannotStart(s) \/ Stop(s)
        PROVE  UNCHANGED file
    BY <1>5 DEF Check, DaemonReload, Enable, Disable, Start, CannotStart, Stop
  <1>6. ASSUME (\E req \in {"plain", "forced"} : Lock(req)) \/ Begin \/ Refuse
                 \/ FailsEarly \/ Executed \/ Qualify \/ FinalPlan \/ FinalPlanGuard
                 \/ WriteApplied \/ Finish \/ FinishRaises
                 \/ RollbackUnits \/ RollbackReload
        PROVE  UNCHANGED file
    BY <1>6 DEF Lock, Begin, Refuse, FailsEarly, Executed, Qualify, FinalPlan, FinalPlanGuard,
       WriteApplied, Finish, FinishRaises, RollbackUnits, RollbackReload,
       hostVars, notHost, notPhase
  <1> QED
    BY <1>1, <1>2, <1>3, <1>4, <1>5, <1>6 DEF Worker, Execute

LEMMA NextSparesForeign ==
    ASSUME ForeignInv, [Next]_vars, NEW r \in Resource, file[r] = Foreign, file'[r] # Foreign
    PROVE  r \in late
  <1>0. file \in [Resource -> FileValue]
    BY DEF ForeignInv, TypeInv, TypeOK, HostTypeOK
  <1>1. CASE Operator \/ UNCHANGED vars
    BY <1>1 DEF Operator, Update, Command, Redeclare, notOperator, vars, hostVars
  <1>2. CASE Environment
    BY <1>0, <1>2 DEF Environment, Kill, Reboot, Tamper, DropUnknown, hostVars
  <1>3. CASE Guard
    <2>1. TypeInv'
      BY NextTyped DEF ForeignInv
    <2> QED
      BY <1>3, <2>1, GuardForeign
  <1> QED
    BY <1>1, <1>2, <1>3, WorkerSparesForeign DEF Next

\* Whatever is declared, commanded and goes wrong: no step of the worker, of
\* its rollback or of the guard replaces or deletes a file that belongs to
\* somebody else, except one that turned foreign after its last check.
THEOREM ForeignFilesAreSafe == Spec => ForeignSafe
  <1>1. ForeignInv /\ [Next]_vars =>
           [\A r \in Resource : file[r] = Foreign /\ file'[r] # Foreign => r \in late]_vars
    BY NextSparesForeign
  <1> QED
    BY <1>1, InitForeign, NextForeign, PTL DEF Spec, ForeignSafe

(***************************************************************************)
(* What a transaction and its rollback leave behind: no enabled or running *)
(* unit without its file, and after a failure what there was before.  What *)
(* a rollback restores is what the steps booked, and a step books what it  *)
(* finds; so the invariants relate the steps still to come, the bookings   *)
(* and the host to what the transaction started from.                      *)
(*                                                                         *)
(* The properties do not hold whatever goes wrong.  Each theorem names the *)
(* hazards it excludes, and only those.                                    *)
(***************************************************************************)

Launching == {"start", "restart", "force"}
ToDo(op, r) == <<op, r>> \in tx.todo
Launches(u) == \E op \in Launching : ToDo(op, u)

(***************************************************************************)
(* What the steps still to come find, whatever goes wrong.                 *)
(***************************************************************************)
DirText == [f \in {} |-> f]
DirIsOurs == file[StateDir] \in {Absent, DirText}
OwnerInDir == file[StateDir] = Absent => file[Owner] = Absent
SavedIsContent == \A r \in Resource : rb.text[r] # Absent

\* A resource is written at most once, the state directory before its marker.
WritesOnce ==
    \A r \in Resource :
        /\ ToDo("create", r) \/ ToDo("update", r) => ~Touched(r)
        /\ ~(ToDo("create", r) /\ ToDo("update", r))
DirFirst ==
    ToDo("create", Owner) \/ ToDo("update", Owner) =>
        file[StateDir] # Absent \/ ToDo("create", StateDir)

\* What is enabled or launched has its file by then and keeps it.
UsesFile ==
    \A u \in Unit : ToDo("enable", u) \/ Launches(u) =>
        /\ file[u] # Absent \/ ToDo("create", u)
        /\ ~ToDo("remove", u)
LaunchesApart ==
    \A u \in Unit : ToDo("remove", u) /\ (\E v \in Unit : Launches(v)) => u \notin {Mcp, Tunnel}

\* The MCP service runs before the tunnel that requires it is launched.
McpFirst ==
    Launches(Tunnel) =>
        /\ running[Mcp] # None \/ ToDo("start", Mcp)
        /\ ~ToDo("stop", Mcp) /\ ~ToDo("stop-stale", Mcp)

\* What is removed is disabled by then.
RemovedIsOff ==
    \A u \in Unit : ToDo("remove", u) => u \notin enabled \/ ToDo("disable", u)

PlanInv ==
    /\ ForeignInv
    /\ DirIsOurs /\ OwnerInDir /\ SavedIsContent
    /\ WritesOnce /\ DirFirst
    /\ UsesFile /\ LaunchesApart /\ McpFirst /\ RemovedIsOff

(***************************************************************************)
(* Enablement and files, while every effect is booked and every undo works.*)
(***************************************************************************)
EnabledBooked ==
    \A u \in rb.created \cap enabled : u \in rb.enabled /\ tx.phase # "undo-files"

EnabledInv == PlanInv /\ EnabledHasFile /\ EnabledBooked

(***************************************************************************)
(* Processes and files, while in addition the guard restarts nothing.      *)
(***************************************************************************)
RunningHasFile == \A u \in Service : running[u] # None => file[u] # Absent
RemovedIsStopped ==
    \A u \in Service : ToDo("remove", u) =>
        running[u] = None \/ ToDo("stop", u) \/ ToDo("stop-stale", u)
RunningBooked ==
    \A u \in rb.created \cap Service :
        running[u] # None => u \in rb.started /\ tx.phase # "undo-files"

RunningInv ==
    /\ PlanInv
    /\ guardpc = "off" /\ RunningHasFile /\ RemovedIsStopped /\ RunningBooked

(***************************************************************************)
(* What a rollback restores is what the transaction started from.          *)
(***************************************************************************)
Applying == {"execute", "qualify", "final", "final-guard", "evidence", "commit", "undo-units"}
Undoable == Applying \cup {"undo-files"}

Restored(r) ==
    IF r \in rb.created THEN Absent ELSE IF rb.text[r] # None THEN rb.text[r] ELSE file[r]

CreatesAbsent == \A r \in Resource : ToDo("create", r) => file[r] = Absent
RemovesFound == \A r \in Resource : ToDo("remove", r) => pre.file[r] # Absent
FilesKept == tx.phase \in Undoable => \A r \in Resource \ {StateDir} : Restored(r) = pre.file[r]
DirKept ==
    tx.phase \in Undoable =>
        /\ StateDir \in rb.created <=> rb.newDir
        /\ pre.file[StateDir] = Absent =>
              /\ rb.newDir \/ file[StateDir] = Absent
              /\ ~rb.goneDir /\ ~rb.logs /\ pre.file[Owner] = Absent
        /\ pre.file[StateDir] # Absent =>
              /\ pre.file[StateDir] = DirText /\ ~rb.newDir
              /\ file[StateDir] = DirText \/ rb.goneDir
BookedOnce == \A r \in rb.created : rb.text[r] = None
GoneLast == rb.goneDir => ~ToDo("create", StateDir) /\ ~ToDo("update", StateDir)
UnitsKept ==
    /\ tx.phase \in Applying =>
          /\ enabled \subseteq pre.enabled \cup rb.enabled
          /\ \A u \in Service : running[u] # None => u \in pre.active \cup rb.started
    /\ tx.phase \in {"undo-files", "undo-reload"} /\ journal.clean =>
          /\ enabled \subseteq pre.enabled
          /\ \A u \in Service : running[u] # None => u \in pre.active
Undone ==
    tx.phase = "undo-reload" /\ journal.clean =>
        /\ \A r \in Resource \ {StateDir, Owner} : file[r] = pre.file[r]
        /\ \A r \in {StateDir, Owner} :
              file[r] = pre.file[r] \/ (pre.file[r] = Absent /\ contents # {})

JournalOpen == tx.phase \in Undoable \cup {"undo-reload"} => journal.status = "running"

UndoInv ==
    /\ PlanInv /\ guardpc = "off" /\ JournalOpen
    /\ CreatesAbsent /\ RemovesFound /\ FilesKept /\ DirKept /\ BookedOnce /\ GoneLast
    /\ UnitsKept /\ Undone

(***************************************************************************)
(* The order of the steps.                                                 *)
(***************************************************************************)
LEMMA OpRanks ==
    /\ OpRank("check") = 1 /\ OpRank("stop") = 2
    /\ OpRank("create") = 3 /\ OpRank("update") = 3
    /\ OpRank("reload") = 4 /\ OpRank("enable") = 5
    /\ OpRank("start") = 6 /\ OpRank("restart") = 6 /\ OpRank("force") = 7
    /\ OpRank("stop-stale") = 8 /\ OpRank("disable") = 9
    /\ OpRank("recheck") = 10 /\ OpRank("remove") = 11
    /\ OpRank("reload-removed") = 12
  <1> DEFINE At(op, k) == \A i \in 1..12 : op \in OpOrder[i] <=> i = k
  <1>1. DOMAIN OpOrder = 1..12
    BY DEF OpOrder
  <1>2. At("check", 1) /\ At("stop", 2) /\ At("create", 3) /\ At("update", 3)
    BY DEF OpOrder
  <1>3. At("reload", 4) /\ At("enable", 5) /\ At("start", 6) /\ At("restart", 6)
    BY DEF OpOrder
  <1>4. At("force", 7) /\ At("stop-stale", 8) /\ At("disable", 9) /\ At("recheck", 10)
    BY DEF OpOrder
  <1>5. At("remove", 11) /\ At("reload-removed", 12)
    BY DEF OpOrder
  <1>6. ASSUME NEW op, NEW k \in 1..12, At(op, k)
        PROVE  OpRank(op) = k
    BY <1>1, <1>6 DEF OpRank
  <1> HIDE DEF At
  <1> QED
    BY <1>2, <1>3, <1>4, <1>5, <1>6

LEMMA Positions ==
    ASSUME NEW r
    PROVE  /\ Position(r, StartOrder) \in 0..7 /\ Position(r, StopOrder) \in 0..7
           /\ Position(r, BundleOrder) \in 0..7 /\ Position(r, RemovalOrder) \in 0..7
  <1>1. DOMAIN StartOrder = 1..4 /\ DOMAIN StopOrder = 1..4
    BY DEF StartOrder, StopOrder
  <1>2. DOMAIN BundleOrder = 1..7 /\ DOMAIN RemovalOrder = 1..7
    BY DEF BundleOrder, RemovalOrder
  <1>3. Position(r, StartOrder) \in 0..7
    BY <1>1 DEF Position
  <1>4. Position(r, StopOrder) \in 0..7
    BY <1>1 DEF Position
  <1>5. Position(r, BundleOrder) \in 0..7
    BY <1>2 DEF Position
  <1>6. Position(r, RemovalOrder) \in 0..7
    BY <1>2 DEF Position
  <1> QED
    BY <1>3, <1>4, <1>5, <1>6

\* An operation that comes first is not due as long as a later one is.
LEMMA DueComesFirst ==
    ASSUME NEW a, NEW q, NEW b, NEW r, Due(<<a, q>>), ToDo(b, r),
           OpRank(a) \in 1..12, OpRank(b) \in 1..12
    PROVE  OpRank(a) <= OpRank(b)
  <1>1. ResourceRank(a, q) \in 0..7 /\ ResourceRank(b, r) \in 0..7
    BY Positions DEF ResourceRank
  <1>2. Rank(<<a, q>>) = 10 * OpRank(a) + ResourceRank(a, q)
    BY DEF Rank
  <1>3. Rank(<<b, r>>) = 10 * OpRank(b) + ResourceRank(b, r)
    BY DEF Rank
  <1>4. Rank(<<a, q>>) <= Rank(<<b, r>>)
    BY DEF Due, ToDo
  <1> QED
    BY <1>1, <1>2, <1>3, <1>4

\* The state directory is written before its marker.
LEMMA DirectoryRanks ==
    ASSUME NEW a \in {"create", "update"}
    PROVE  Rank(<<a, StateDir>>) = 31 /\ Rank(<<a, Owner>>) = 32
  <1>1. DOMAIN BundleOrder = 1..7
    BY DEF BundleOrder
  <1>2. \A i \in 1..7 : (BundleOrder[i] = StateDir <=> i = 1) /\ (BundleOrder[i] = Owner <=> i = 2)
    BY DEF BundleOrder, StateDir, Owner, Profile, Mcp, Tunnel, GuardSvc, Timer
  <1>3. Position(StateDir, BundleOrder) = 1 /\ Position(Owner, BundleOrder) = 2
    BY <1>1, <1>2 DEF Position
  <1> QED
    BY <1>3, OpRanks DEF Rank, ResourceRank

\* What a due operation can rely on having been done.
LEMMA DueWrite ==
    ASSUME NEW a \in {"create", "update"}, Due(<<a, Owner>>)
    PROVE  ~ToDo("create", StateDir)
  <1> SUFFICES ASSUME ToDo("create", StateDir) PROVE FALSE
    OBVIOUS
  <1>1. Rank(<<a, Owner>>) <= Rank(<<"create", StateDir>>)
    BY DEF Due, ToDo
  <1> QED
    BY <1>1, DirectoryRanks

LEMMA DueEnable ==
    ASSUME NEW u, NEW r, NEW a \in {"enable"} \cup Launching, Due(<<a, u>>)
    PROVE  ~ToDo("create", r) /\ ~ToDo("update", r)
  BY DueComesFirst, OpRanks DEF Launching

LEMMA DueLaunch ==
    ASSUME NEW a \in Launching, Due(<<a, Tunnel>>)
    PROVE  ~ToDo("start", Mcp)
  <1> SUFFICES ASSUME ToDo("start", Mcp) PROVE FALSE
    OBVIOUS
  <1>1. Rank(<<a, Tunnel>>) <= Rank(<<"start", Mcp>>)
    BY DEF Due, ToDo
  <1>2. OpRank(a) \in {6, 7} /\ OpRank("start") = 6
    BY OpRanks DEF Launching
  <1>3. ResourceRank(a, Tunnel) = 4 /\ ResourceRank("start", Mcp) = 1
    <2>1. DOMAIN StartOrder = 1..4
      BY DEF StartOrder
    <2>2. \A i \in 1..4 : (StartOrder[i] = Mcp <=> i = 1) /\ (StartOrder[i] = Tunnel <=> i = 4)
      BY DEF StartOrder, Mcp, Tunnel, GuardSvc, Timer
    <2>3. Position(Mcp, StartOrder) = 1 /\ Position(Tunnel, StartOrder) = 4
      BY <2>1, <2>2 DEF Position
    <2> QED
      BY <2>3 DEF ResourceRank, Launching
  <1> QED
    BY <1>1, <1>2, <1>3 DEF Rank

LEMMA DueRemoval ==
    ASSUME NEW r, Due(<<"remove", r>>), NEW v
    PROVE  /\ ~ToDo("create", v) /\ ~ToDo("update", v) /\ ~ToDo("enable", v)
           /\ ~Launches(v) /\ ~ToDo("disable", v)
           /\ ~ToDo("stop", v) /\ ~ToDo("stop-stale", v)
  BY DueComesFirst, OpRanks DEF Launches, Launching
(***************************************************************************)
(* What a plan consists of, and what its steps find.                       *)
(***************************************************************************)
LEMMA PlannedSteps ==
    ASSUME NEW d, NEW force, NEW r
    PROVE  /\ <<"create", r>> \in PlanSteps(d, force) <=> Present(d) /\ r \in Creates(d)
           /\ <<"update", r>> \in PlanSteps(d, force) <=> Present(d) /\ r \in Updates(d)
           /\ <<"enable", r>> \in PlanSteps(d, force) <=> Present(d) /\ r \in Enables(d)
           /\ <<"start", r>> \in PlanSteps(d, force) <=> Present(d) /\ r \in Starts(d)
           /\ <<"restart", r>> \in PlanSteps(d, force) <=> Present(d) /\ r \in Restarts(d)
           /\ <<"force", r>> \in PlanSteps(d, force) <=>
                 Present(d) /\ force /\ Running(d) /\ r \in {Mcp, Tunnel}
           /\ <<"stop", r>> \in PlanSteps(d, force) <=> r \in Stops(d)
           /\ <<"stop-stale", r>> \in PlanSteps(d, force) <=>
                 Present(d) /\ r \in Stops(d) \cap Stale(d)
           /\ <<"disable", r>> \in PlanSteps(d, force) <=> r \in Disables(d)
           /\ <<"remove", r>> \in PlanSteps(d, force) <=> r \in Removes(d)
  BY DEF PlanSteps, PresentSteps, AbsentSteps, StopPass, On, If

LEMMA ResourceKinds ==
    /\ Unit \cap {StateDir, Owner, Profile} = {}
    /\ GuardResource \cap {Mcp, Tunnel, StateDir, Owner, Profile} = {}
    /\ Mcp # Tunnel /\ StateDir # Owner /\ Timer \notin {Mcp, Tunnel}
    /\ GuardResource \subseteq Unit /\ {Mcp, Tunnel} \subseteq Service
    /\ Service = Unit \ {GuardSvc} /\ Unit \subseteq Resource
    /\ {StateDir, Owner, Profile} \subseteq Resource
  BY DEF Unit, GuardResource, Service, Resource, StateDir, Owner, Profile, Mcp, Tunnel,
     GuardSvc, Timer

LEMMA BundleKinds ==
    ASSUME NEW d
    PROVE  /\ {StateDir, Owner, Mcp, Tunnel} \subseteq Bundle(d)
           /\ Bundle(d) \subseteq Resource
           /\ Stale(d) \subseteq GuardResource \ Bundle(d)
           /\ \A r \in Stale(d) : file[r] # Absent
  BY ResourceKinds DEF Bundle, Stale, Resource

\* Only the units a declaration wants are launched, and none of those is
\* stopped or removed.
LEMMA PlannedLaunches ==
    ASSUME NEW d, NEW force, NEW op \in Launching, NEW u, <<op, u>> \in PlanSteps(d, force)
    PROVE  /\ Present(d) /\ Running(d) /\ u \in Bundle(d) /\ u \in Service
           /\ \A r : r \in Removes(d) => r \in Stale(d)
           /\ Mcp \notin Stops(d)
           /\ IsActive(Mcp) \/ <<"start", Mcp>> \in PlanSteps(d, force)
  <1>1. Present(d) /\ (u \in Starts(d) \/ u \in Restarts(d) \/ (Running(d) /\ u \in {Mcp, Tunnel}))
    BY PlannedSteps DEF Launching
  <1>2. u \in Wanted(d) \/ (Running(d) /\ u \in {Mcp, Tunnel})
    BY <1>1 DEF Starts, Restarts
  <1>3. Running(d) /\ u \in Bundle(d) /\ u \in Service
    BY <1>1, <1>2, ResourceKinds, BundleKinds
       DEF Wanted, BundleUnits, ActiveWhenRunning
  <1>4. Mcp \in Wanted(d)
    BY <1>1, <1>3, ResourceKinds, BundleKinds DEF Wanted, BundleUnits, ActiveWhenRunning
  <1>5. Mcp \notin Stops(d)
    BY <1>4, ResourceKinds, BundleKinds DEF Stops
  <1>6. IsActive(Mcp) \/ Mcp \in Starts(d)
    BY <1>4 DEF Starts
  <1> QED
    BY <1>1, <1>3, <1>5, <1>6, PlannedSteps DEF Removes

LEMMA PlannedUses ==
    ASSUME NEW d, NEW force, NEW op \in {"enable"} \cup Launching, NEW u \in Unit,
           <<op, u>> \in PlanSteps(d, force)
    PROVE  /\ file[u] # Absent \/ <<"create", u>> \in PlanSteps(d, force)
           /\ <<"remove", u>> \notin PlanSteps(d, force)
  <1>1. Present(d) /\ u \in Bundle(d)
    <2>1. CASE op = "enable"
      BY <2>1, PlannedSteps DEF Enables, BundleUnits
    <2>2. CASE op \in Launching
      BY <2>2, PlannedLaunches
    <2> QED
      BY <2>1, <2>2
  <1>2. file[u] = Absent => u \in Creates(d)
    BY <1>1 DEF Creates, Observe
  <1>3. u \notin Removes(d)
    BY <1>1, BundleKinds DEF Removes
  <1> QED
    BY <1>1, <1>2, <1>3, PlannedSteps

LEMMA PlannedRemovals ==
    ASSUME NEW d, NEW force, NEW u, <<"remove", u>> \in PlanSteps(d, force)
    PROVE  /\ file[u] # Absent
           /\ u \in enabled \cap Unit => <<"disable", u>> \in PlanSteps(d, force)
           /\ u \in Unit /\ IsActive(u) => <<"stop", u>> \in PlanSteps(d, force)
  <1>1. u \in Removes(d)
    BY PlannedSteps
  <1>2. u \in Stale(d) \/ (~Present(d) /\ u \in Bundle(d) /\ Observe(u, d) \in {"exact", "different"})
    BY <1>1 DEF Removes
  <1>3. file[u] # Absent
    BY <1>2, BundleKinds DEF Observe
  <1>4. u \in enabled \cap Unit => u \in Disables(d)
    BY <1>2, <1>3 DEF Disables, EnabledUnits, BundleUnits
  <1>5. u \in Unit /\ IsActive(u) => u \in Stops(d)
    BY <1>2 DEF Stops, BundleUnits, Wanted
  <1> QED
    BY <1>3, <1>4, <1>5, PlannedSteps
(***************************************************************************)
(* PlanInv is inductive.                                                   *)
(***************************************************************************)
LEMMA DirTextIsOne == \A c : Text(StateDir, c) = DirText
  <1>1. Fields(StateDir) = {}
    BY DEF Fields, StateDir, Mcp, Tunnel, Profile
  <1> QED
    BY <1>1 DEF Text, DirText

LEMMA DirTextIsContent == Configs # {} => DirText # Absent
  BY DirTextIsOne, TextIsFileValue, ResourceKinds

\* With no steps left, only what the files and the bookings say remains.
LEMMA PlanEmpty ==
    ASSUME ForeignInv', tx'.todo = {}, DirIsOurs', OwnerInDir', SavedIsContent'
    PROVE  PlanInv'
  BY DEF PlanInv, WritesOnce, DirFirst, UsesFile, LaunchesApart, McpFirst, RemovedIsOff,
     ToDo, Launches

LEMMA InitPlan == Init => PlanInv
  <1> SUFFICES ASSUME Init PROVE PlanInv
    OBVIOUS
  <1>1. tx.todo = {} /\ rb = NoUndo /\ file[StateDir] = Absent /\ file[Owner] = Absent
    BY ResourceKinds DEF Init, NoTx
  <1>2. SavedIsContent
    BY <1>1, SentinelsDiffer DEF SavedIsContent, NoUndo
  <1> QED
    BY <1>1, <1>2, InitForeign DEF DirIsOurs, OwnerInDir, PlanInv, WritesOnce, DirFirst,
       UsesFile, LaunchesApart, McpFirst, RemovedIsOff, ToDo, Launches

LEMMA PlanFrame ==
    ASSUME PlanInv, ForeignInv', UNCHANGED <<file, tx, rb, running, enabled>>
    PROVE  PlanInv'
  BY DEF PlanInv, DirIsOurs, OwnerInDir, SavedIsContent, WritesOnce, DirFirst, UsesFile,
     LaunchesApart, McpFirst, RemovedIsOff, ToDo, Launches, Touched

\* Steps that leave nothing to do, and files and bookings as they are.
LEMMA PlanMoves ==
    ASSUME PlanInv, ForeignInv', UNCHANGED file, tx'.todo = {},
           rb'.text = rb.text \/ rb' = NoUndo
    PROVE  PlanInv'
  <1>1. SavedIsContent'
    BY SentinelsDiffer DEF PlanInv, SavedIsContent, NoUndo
  <1>2. DirIsOurs' /\ OwnerInDir'
    BY DEF PlanInv, DirIsOurs, OwnerInDir
  <1> QED
    BY <1>1, <1>2, PlanEmpty

LEMMA BeginPlan ==
    ASSUME PlanInv, ForeignInv', Begin
    PROVE  PlanInv'
  <1> DEFINE S == PlanSteps(want, tx.force)
  <1>1. /\ tx'.todo = S /\ rb' = NoUndo
        /\ UNCHANGED <<file, running, enabled>>
        /\ Present(want) <=> want.dep = "present"
    BY DEF Begin, notHost, PlanInv, ForeignInv, TypeInv, TypeOK, Present
  <1>2. \A op, r : ToDo(op, r)' <=> <<op, r>> \in S
    BY <1>1 DEF ToDo
  <1> HIDE DEF S
  <1>3. DirIsOurs' /\ OwnerInDir'
    BY <1>1 DEF PlanInv, DirIsOurs, OwnerInDir
  <1>4. SavedIsContent' /\ \A r \in Resource : ~Touched(r)'
    BY <1>1, SentinelsDiffer, NothingTouched DEF SavedIsContent, Touched
  <1>5. WritesOnce'
    <2>1. \A r : ~(r \in Creates(want) /\ r \in Updates(want))
      BY DEF Creates, Updates
    <2> QED
      BY <1>2, <1>4, <2>1, PlannedSteps DEF WritesOnce, S
  <1>6. DirFirst'
    <2>1. Present(want) => file[StateDir] # Absent \/ StateDir \in Creates(want)
      BY BundleKinds DEF Creates, Observe
    <2> QED
      BY <1>1, <1>2, <2>1, PlannedSteps DEF DirFirst, S
  <1>7. UsesFile'
    BY <1>1, <1>2, PlannedUses DEF UsesFile, Launches, S
  <1>8. LaunchesApart'
    <2> SUFFICES ASSUME NEW u \in Unit, NEW v \in Unit, NEW op \in Launching,
                        <<"remove", u>> \in S, <<op, v>> \in S
                 PROVE  u \notin {Mcp, Tunnel}
      BY <1>2 DEF LaunchesApart, Launches
    <2>1. u \in Stale(want)
      BY PlannedSteps, PlannedLaunches DEF S
    <2> QED
      BY <2>1, BundleKinds, ResourceKinds
  <1>9. McpFirst'
    <2> SUFFICES ASSUME NEW op \in Launching, <<op, Tunnel>> \in S
                 PROVE  /\ running[Mcp] # None \/ <<"start", Mcp>> \in S
                        /\ <<"stop", Mcp>> \notin S /\ <<"stop-stale", Mcp>> \notin S
      BY <1>1, <1>2 DEF McpFirst, Launches
    <2>1. Mcp \notin Stops(want) /\ (IsActive(Mcp) \/ <<"start", Mcp>> \in S)
      BY PlannedLaunches DEF S
    <2> QED
      BY <2>1, PlannedSteps DEF IsActive, S, Mcp, GuardSvc
  <1>10. RemovedIsOff'
    BY <1>1, <1>2, PlannedRemovals DEF RemovedIsOff, S
  <1> QED
    BY <1>3, <1>4, <1>5, <1>6, <1>7, <1>8, <1>9, <1>10 DEF PlanInv

\* The step was the only one on its resource, and is no longer to do.
LEMMA AfterProceed ==
    ASSUME TypeInv, NEW s \in tx.todo, Proceed(s)
    PROVE  /\ \A op, r : ToDo(op, r)' <=> ToDo(op, r) /\ s # <<op, r>>
           /\ \A r : Launches(r)' => Launches(r)
           /\ tx'.phase = tx.phase
  <1>1. tx'.todo = tx.todo \ {s} /\ tx'.phase = tx.phase
    BY DEF Proceed, TypeInv, TypeOK
  <1>2. \A op, r : ToDo(op, r)' <=> ToDo(op, r) /\ s # <<op, r>>
    BY <1>1 DEF ToDo
  <1> QED
    BY <1>1, <1>2 DEF Launches

LEMMA AfterRaise ==
    ASSUME TypeInv, Raise
    PROVE  tx'.todo = {} /\ tx'.phase = "undo-units"
  BY DEF Raise, TypeInv, TypeOK
\* Steps to do whose operations leave files and bookings of files alone.
LEMMA PlanShrinks ==
    ASSUME PlanInv, ForeignInv', NEW s \in tx.todo, Proceed(s), UNCHANGED file,
           rb'.text = rb.text, rb'.created = rb.created,
           running[Mcp] = None \/ running'[Mcp] # None
              \/ (s[1] \in {"stop", "stop-stale"} /\ s[2] = Mcp),
           s # <<"start", Mcp>> \/ running'[Mcp] # None,
           s[1] # "create",
           \A u \in enabled' : u \in enabled \/ s = <<"enable", u>>,
           \A u : s = <<"disable", u>> => u \notin enabled'
    PROVE  PlanInv'
  <1>1. /\ \A op, r : ToDo(op, r)' <=> ToDo(op, r) /\ s # <<op, r>>
        /\ \A r : Launches(r)' => Launches(r)
        /\ s \in Step /\ s = <<s[1], s[2]>> /\ ToDo(s[1], s[2])
    BY AfterProceed, StepObject DEF PlanInv, ForeignInv, TypeInv, TypeOK, ToDo
  <1>2. DirIsOurs' /\ OwnerInDir' /\ SavedIsContent'
    BY DEF PlanInv, DirIsOurs, OwnerInDir, SavedIsContent
  <1>3. WritesOnce' /\ DirFirst'
    BY <1>1 DEF PlanInv, WritesOnce, DirFirst, Touched
  <1>4. UsesFile' /\ LaunchesApart'
    BY <1>1 DEF PlanInv, UsesFile, LaunchesApart
  <1>5. McpFirst'
    <2> SUFFICES ASSUME Launches(Tunnel)'
                 PROVE  /\ running'[Mcp] # None \/ ToDo("start", Mcp)'
                        /\ ~ToDo("stop", Mcp)' /\ ~ToDo("stop-stale", Mcp)'
      BY DEF McpFirst
    <2>1. /\ running[Mcp] # None \/ ToDo("start", Mcp)
          /\ ~ToDo("stop", Mcp) /\ ~ToDo("stop-stale", Mcp)
      BY <1>1 DEF PlanInv, McpFirst
    <2>2. ~(s[1] \in {"stop", "stop-stale"} /\ s[2] = Mcp)
      BY <1>1, <2>1
    <2> QED
      BY <1>1, <2>1, <2>2
  <1>6. RemovedIsOff'
    <2> SUFFICES ASSUME NEW u \in Unit, ToDo("remove", u)'
                 PROVE  u \notin enabled' \/ ToDo("disable", u)'
      BY DEF RemovedIsOff
    <2>1. ToDo("remove", u) /\ (u \notin enabled \/ ToDo("disable", u))
      BY <1>1 DEF PlanInv, RemovedIsOff
    <2>2. s # <<"enable", u>>
      BY <1>1, <2>1 DEF PlanInv, UsesFile, ToDo
    <2> QED
      BY <1>1, <2>1, <2>2
  <1> QED
    BY <1>2, <1>3, <1>4, <1>5, <1>6 DEF PlanInv

LEMMA PlanWrite ==
    ASSUME PlanInv, ForeignInv', NEW s \in tx.todo, Write(s)
    PROVE  PlanInv'
  <1>0. /\ file \in [Resource -> FileValue] /\ rb \in RbType /\ want.cfg \in Configs
        /\ s \in Step /\ TypeInv
    BY DeclarationFields
       DEF Write, Due, PlanInv, ForeignInv, TypeInv, TypeOK, HostTypeOK, ActiveWant, want, RbType
  <1>1. /\ s[2] \in Resource /\ s = <<s[1], s[2]>> /\ s[1] \in {"create", "update"}
        /\ ToDo(s[1], s[2]) /\ Due(<<s[1], s[2]>>)
        /\ file' = [file EXCEPT ![s[2]] = Text(s[2], want.cfg)]
        /\ UNCHANGED <<running, enabled>>
    BY <1>0, StepObject DEF Write, FileOp, ToDo
  <1>2. Text(s[2], want.cfg) \in FileValue /\ Text(s[2], want.cfg) # Absent
    BY <1>0, <1>1, TextIsFileValue
  <1>3. \A r \in Resource : file'[r] = Absent => file[r] = Absent /\ r # s[2]
    BY <1>0, <1>1, <1>2
  <1>4. SavedIsContent'
    <2>1. \A r \in Resource :
             rb'.text[r] = IF r = s[2] /\ s[1] = "update" /\ file[r] # Absent
                           THEN file[r] ELSE rb.text[r]
      BY <1>0, <1>1 DEF Write, Booked, RbType
    <2> QED
      BY <2>1 DEF PlanInv, SavedIsContent
  <1>5. DirIsOurs'
    BY <1>0, <1>1, DirTextIsOne DEF PlanInv, DirIsOurs
  <1>6. OwnerInDir'
    <2> SUFFICES ASSUME file'[StateDir] = Absent PROVE file'[Owner] = Absent
      BY DEF OwnerInDir
    <2>1. file[StateDir] = Absent /\ s[2] # StateDir /\ file[Owner] = Absent
      BY <1>3, ResourceKinds DEF PlanInv, OwnerInDir
    <2>2. CASE s[2] = Owner
      <3>1. file[StateDir] # Absent \/ ToDo("create", StateDir)
        BY <1>1, <2>2 DEF PlanInv, DirFirst
      <3>2. ~ToDo("create", StateDir)
        BY <1>1, <2>2, DueWrite
      <3> QED
        BY <2>1, <3>1, <3>2
    <2>3. CASE s[2] # Owner
      BY <1>0, <1>1, <2>1, <2>3, ResourceKinds
    <2> QED
      BY <2>2, <2>3
  <1>7. CASE Raise
    BY <1>0, <1>4, <1>5, <1>6, <1>7, AfterRaise, PlanEmpty
  <1>8. CASE Proceed(s)
    <2>1. /\ \A op, r : ToDo(op, r)' <=> ToDo(op, r) /\ s # <<op, r>>
          /\ \A r : Launches(r)' => Launches(r)
      BY <1>0, <1>8, AfterProceed
    <2>2. WritesOnce'
      <3>1. \A r \in Resource : r # s[2] => (Touched(r)' => Touched(r))
        BY <1>0 DEF Write, Booked, Touched, RbType
      <3>2. ~ToDo("create", s[2])' /\ ~ToDo("update", s[2])'
        BY <1>1, <2>1 DEF PlanInv, WritesOnce
      <3> QED
        BY <2>1, <3>1, <3>2 DEF PlanInv, WritesOnce
    <2>3. DirFirst'
      BY <1>1, <1>3, <2>1, ResourceKinds DEF PlanInv, DirFirst
    <2>4. UsesFile'
      <3> SUFFICES ASSUME NEW u \in Unit, ToDo("enable", u)' \/ Launches(u)'
                   PROVE  (file'[u] # Absent \/ ToDo("create", u)') /\ ~ToDo("remove", u)'
        BY DEF UsesFile
      <3>1. (file[u] # Absent \/ ToDo("create", u)) /\ ~ToDo("remove", u) /\ u \in Resource
        BY <2>1, ResourceKinds DEF PlanInv, UsesFile
      <3> QED
        BY <1>1, <1>3, <2>1, <3>1
    <2>5. LaunchesApart' /\ McpFirst' /\ RemovedIsOff'
      BY <1>1, <2>1 DEF PlanInv, LaunchesApart, McpFirst, RemovedIsOff
    <2> QED
      BY <1>4, <1>5, <1>6, <2>2, <2>3, <2>4, <2>5 DEF PlanInv
  <1> QED
    BY <1>7, <1>8 DEF Write, Ended, Raises
LEMMA PlanRemove ==
    ASSUME PlanInv, ForeignInv', NEW s \in tx.todo, RemoveFile(s) \/ RemoveStateDir(s)
    PROVE  PlanInv'
  <1>0. /\ file \in [Resource -> FileValue] /\ rb \in RbType /\ s \in Step /\ TypeInv
    BY DEF PlanInv, ForeignInv, TypeInv, TypeOK, HostTypeOK, RbType
  <1>1. /\ s = <<"remove", s[2]>> /\ s[2] \in Resource /\ Due(<<"remove", s[2]>>)
        /\ ToDo("remove", s[2]) /\ UNCHANGED <<running, enabled>>
    BY <1>0, StepObject, ResourceKinds DEF RemoveFile, RemoveStateDir, FileOp, ToDo
  <1>2. /\ file' = [file EXCEPT ![s[2]] = Absent] \/ file' = file
        /\ s[2] = StateDir => file' = file \/ file[Owner] = Absent
        /\ rb'.created = rb.created
        /\ \A r \in Resource : rb'.text[r] # rb.text[r] => r = s[2] /\ rb'.text[r] = file[r]
                                                            /\ file[r] # Absent
    <2>1. CASE RemoveFile(s)
      BY <1>0, <1>1, <2>1 DEF RemoveFile, RbType
    <2>2. CASE RemoveStateDir(s)
      <3>1. s[2] = StateDir
        BY <2>2 DEF RemoveStateDir
      <3>2. rb'.created = rb.created /\ rb'.text = rb.text
        BY <1>0, <2>2 DEF RemoveStateDir, RbType
      <3> QED
        BY <2>2, <3>1, <3>2 DEF RemoveStateDir
    <2> QED
      BY <2>1, <2>2
  <1>3. DirIsOurs' /\ SavedIsContent'
    <2>1. file'[StateDir] \in {Absent, file[StateDir]}
      BY <1>0, <1>2, ResourceKinds
    <2>2. \A r \in Resource : rb'.text[r] # Absent
      BY <1>2 DEF PlanInv, SavedIsContent
    <2> QED
      BY <2>1, <2>2 DEF PlanInv, DirIsOurs, SavedIsContent
  <1>4. OwnerInDir'
    BY <1>0, <1>2, ResourceKinds DEF PlanInv, OwnerInDir
  <1>5. CASE Raise
    BY <1>0, <1>3, <1>4, <1>5, AfterRaise, PlanEmpty
  <1>6. CASE Proceed(s)
    <2>1. /\ \A op, r : ToDo(op, r)' <=> ToDo(op, r) /\ s # <<op, r>>
          /\ \A r : Launches(r)' => Launches(r)
      BY <1>0, <1>6, AfterProceed
    <2>2. \A v : /\ ~ToDo("create", v) /\ ~ToDo("update", v) /\ ~ToDo("enable", v)
                 /\ ~Launches(v)
      BY <1>1, DueRemoval
    <2>3. WritesOnce' /\ DirFirst' /\ UsesFile' /\ LaunchesApart' /\ McpFirst'
      BY <2>1, <2>2 DEF WritesOnce, DirFirst, UsesFile, LaunchesApart, McpFirst
    <2>4. RemovedIsOff'
      BY <1>1, <2>1 DEF PlanInv, RemovedIsOff
    <2> QED
      BY <1>3, <1>4, <2>3, <2>4 DEF PlanInv
  <1> QED
    BY <1>5, <1>6 DEF RemoveFile, RemoveStateDir, Ended, Raises

\* A launch leaves what runs running, and runs what it launches.
LEMMA LaunchRuns ==
    ASSUME TypeOK, NEW s \in Step, Start(s)
    PROVE  /\ \A u \in Service : running[u] # None => running'[u] # None
           /\ s[2] \in Service => running'[s[2]] # None
           /\ \A u \in Service : running'[u] # None =>
                 running[u] # None \/ u = s[2] \/ (u = Mcp /\ s[2] = Tunnel)
  <1>1. \A u \in Service : Launch(u) # None
    BY LaunchIsProcess, NoneIsNoProcess
  <1>2. running' = AfterStart(s[2]) \/ running' = AfterRestart(s[2])
    BY DEF Start, Launched
  <1> QED
    BY <1>1, <1>2 DEF AfterStart, AfterRestart

LEMMA ExecutePlan ==
    ASSUME PlanInv, ForeignInv', NEW s \in tx.todo, Execute(s)
    PROVE  PlanInv'
  <1> USE DEF Ended, Raises
  <1>0. /\ s \in Step /\ rb \in RbType /\ TypeInv /\ TypeOK /\ s = <<s[1], s[2]>>
        /\ Mcp \in Service
    BY StepObject, ResourceKinds DEF PlanInv, ForeignInv, TypeInv, TypeOK, HostTypeOK, RbType
  <1>1. CASE Write(s)
    BY <1>1, PlanWrite
  <1>2. CASE RemoveFile(s) \/ RemoveStateDir(s)
    BY <1>2, PlanRemove
  <1>3. CASE Check(s) \/ DaemonReload(s) \/ Enable(s) \/ Disable(s) \/ Start(s) \/ CannotStart(s)
               \/ Stop(s)
    <2>1. /\ UNCHANGED file /\ (Proceed(s) \/ Raise)
          /\ rb'.text = rb.text /\ rb'.created = rb.created
      BY <1>0, <1>3 DEF Check, DaemonReload, Enable, Disable, Start, CannotStart, Stop,
         StartBooked, RbType
    <2>2. CASE Raise
      BY <1>0, <2>1, <2>2, AfterRaise, PlanMoves
    <2>3. CASE Proceed(s)
      <3>1. s[1] # "create"
        BY <1>3 DEF Check, DaemonReload, Enable, Disable, Start, CannotStart, Stop
      <3>2. \/ running[Mcp] = None \/ running'[Mcp] # None
            \/ (s[1] \in {"stop", "stop-stale"} /\ s[2] = Mcp)
        <4>1. CASE Start(s)
          BY <1>0, <4>1, LaunchRuns
        <4>2. CASE Stop(s)
          BY <1>0, <4>2, ResourceKinds DEF Stop, AfterStop
        <4> QED
          BY <1>3, <4>1, <4>2 DEF Check, DaemonReload, Enable, Disable, CannotStart
      <3>3. s # <<"start", Mcp>> \/ running'[Mcp] # None
        <4> SUFFICES ASSUME s = <<"start", Mcp>> PROVE running'[Mcp] # None
          OBVIOUS
        <4>1. Start(s) \/ CannotStart(s)
          BY <1>3 DEF Check, DaemonReload, Enable, Disable, Stop
        <4>2. ~CannotStart(s)
          <5>1. tx'.phase = tx.phase
            BY <1>0, <2>3, AfterProceed
          <5>2. CannotStart(s) => tx.phase = "execute" /\ tx'.phase = "undo-units"
            BY <1>0, AfterRaise DEF CannotStart, Due
          <5> QED
            BY <5>1, <5>2
        <4> QED
          BY <1>0, <4>1, <4>2, LaunchRuns
      <3>4. \A u \in enabled' : u \in enabled \/ s = <<"enable", u>>
        BY <1>0, <1>3 DEF Check, DaemonReload, Enable, Disable, Start, CannotStart, Stop
      <3>5. \A u : s = <<"disable", u>> => u \notin enabled'
        BY <1>3 DEF Check, DaemonReload, Enable, Disable, Start, CannotStart, Stop
      <3> QED
        BY <2>1, <2>3, <3>1, <3>2, <3>3, <3>4, <3>5, PlanShrinks
    <2> QED
      BY <2>1, <2>2, <2>3
  <1> QED
    BY <1>1, <1>2, <1>3 DEF Execute
LEMMA RollbackFilesPlan ==
    ASSUME PlanInv, ForeignInv', RollbackFiles
    PROVE  PlanInv'
  <1>0. /\ file \in [Resource -> FileValue] /\ rb \in RbType /\ want.cfg \in Configs
        /\ TypeInv /\ tx.todo = {} /\ tx \in TxType
    BY DeclarationFields
       DEF RollbackFiles, PlanInv, ForeignInv, OnlyExecuteHasSteps, TypeInv, TypeOK, HostTypeOK,
           ActiveWant, want, RbType, TxType
  <1>1. tx'.todo = {} /\ rb' = NoUndo
    BY <1>0 DEF RollbackFiles, Move, TxType
  <1>2. SavedIsContent'
    BY <1>1, SentinelsDiffer DEF SavedIsContent, NoUndo
  <1>3. DirIsOurs'
    <2>1. file'[StateDir] \in {Absent, Text(StateDir, want.cfg), file[StateDir]}
      BY ResourceKinds DEF RollbackFiles
    <2> QED
      BY <2>1, DirTextIsOne DEF PlanInv, DirIsOurs
  <1>4. OwnerInDir'
    <2> SUFFICES ASSUME file'[StateDir] = Absent PROVE file'[Owner] = Absent
      BY DEF OwnerInDir
    <2>1. PICK gone, ownerLeft :
            /\ ownerLeft = IF Owner \in Saved THEN TRUE
                           ELSE file[Owner] # Absent /\ Owner \notin gone
            /\ file'[StateDir] = Absent =>
                  ~ownerLeft \/ (~DirRestored /\ file[StateDir] = Absent)
            /\ file'[Owner] = IF Owner \in gone THEN Absent
                              ELSE IF Owner \in Saved THEN rb.text[Owner] ELSE file[Owner]
      <3>1. Text(StateDir, want.cfg) # Absent
        BY <1>0, TextIsFileValue, ResourceKinds
      <3> QED
        BY <3>1, ResourceKinds DEF RollbackFiles
    <2>2. CASE ~ownerLeft
      BY <2>1, <2>2
    <2>3. CASE ~DirRestored /\ file[StateDir] = Absent
      BY <2>1, <2>3 DEF DirRestored, PlanInv, OwnerInDir
    <2> QED
      BY <2>1, <2>2, <2>3
  <1> QED
    BY <1>1, <1>2, <1>3, <1>4, PlanEmpty

LEMMA RestoredInPartPlan ==
    ASSUME PlanInv, ForeignInv', RollbackFilesRaises
    PROVE  PlanInv'
  <1>0. /\ TypeInv /\ TypeOK /\ tx.todo = {} /\ tx \in TxType /\ tx.want \in ValidDeclaration
        /\ Move("undo-reload") /\ rb' = NoUndo
    BY DEF RollbackFilesRaises, PlanInv, ForeignInv, OnlyExecuteHasSteps, TypeInv, TypeOK,
       ActiveWant, TxType
  <1>1. tx'.todo = {}
    BY <1>0 DEF Move, TxType
  <1>2. SavedIsContent'
    BY <1>0, SentinelsDiffer DEF SavedIsContent, NoUndo
  <1>3. /\ file'[StateDir] \in {file[StateDir], Text(StateDir, want.cfg)}
        /\ file'[Owner] # file[Owner] => file'[StateDir] = Text(StateDir, want.cfg)
    BY <1>0, RestoresInPart
  <1>4. Text(StateDir, want.cfg) = DirText /\ Text(StateDir, want.cfg) # Absent
    BY <1>0, DirTextIsOne, TextIsFileValue, ResourceKinds, DeclarationFields DEF want
  <1>5. DirIsOurs' /\ OwnerInDir'
    BY <1>3, <1>4 DEF PlanInv, DirIsOurs, OwnerInDir
  <1> QED
    BY <1>1, <1>2, <1>5, PlanEmpty

LEMMA WorkerPlan ==
    ASSUME PlanInv, ForeignInv', Worker
    PROVE  PlanInv'
  <1> USE DEF Raises
  <1>0. /\ tx \in TxType /\ rb \in RbType /\ TypeInv
        /\ tx.phase # "execute" => tx.todo = {}
        /\ file \in [Resource -> FileValue]
    BY DEF PlanInv, ForeignInv, OnlyExecuteHasSteps, TypeInv, TypeOK, HostTypeOK, TxType, RbType
  <1>1. CASE Begin
    BY <1>1, BeginPlan
  <1>2. CASE \E s \in tx.todo : Execute(s)
    BY <1>2, ExecutePlan
  <1>3. CASE RollbackFiles
    BY <1>3, RollbackFilesPlan
  <1>4. CASE RecoverOwner
    <2>1. /\ tx.todo = {} /\ UNCHANGED <<tx, rb>> /\ file[StateDir] # Absent
          /\ file' = [file EXCEPT ![Owner] = Text(Owner, want.cfg)]
      BY <1>0, <1>4 DEF RecoverOwner, Recoverable
    <2>2. file'[StateDir] = file[StateDir]
      BY <1>0, <2>1, ResourceKinds
    <2> QED
      BY <2>1, <2>2, PlanEmpty DEF PlanInv, DirIsOurs, OwnerInDir, SavedIsContent
  <1>5. CASE (\E req \in {"plain", "forced"} : Lock(req)) \/ Refuse \/ Finish
    <2>1. UNCHANGED file /\ (UNCHANGED rb \/ rb' = NoUndo)
      BY <1>5 DEF Lock, Refuse, Finish, hostVars
    <2>2. tx'.todo = {}
      <3>1. CASE \E req \in {"plain", "forced"} : Lock(req)
        BY <3>1 DEF Lock, NoTx
      <3>2. CASE Refuse \/ Finish
        BY <3>2 DEF Refuse, Finish, NoTx
      <3> QED
        BY <1>5, <3>1, <3>2
    <2> QED
      BY <2>1, <2>2, PlanMoves
  <1>6. CASE FailsEarly
    BY <1>0, <1>6, AfterRaise, PlanMoves DEF FailsEarly
  <1>7. CASE Executed \/ Qualify \/ FinalPlan \/ FinalPlanGuard \/ WriteApplied
    <2>1. UNCHANGED <<file, rb>> /\ tx.todo = {}
      BY <1>0, <1>7 DEF Executed, Qualify, FinalPlan, FinalPlanGuard, WriteApplied,
         notPhase, hostVars
    <2>2. tx'.todo = {}
      BY <1>0, <1>7, <2>1 DEF Executed, Qualify, FinalPlan, FinalPlanGuard, WriteApplied,
         Move, Raise, TxType
    <2> QED
      BY <2>1, <2>2, PlanMoves
  <1>8. CASE FinishRaises
    BY <1>0, <1>8, AfterRaise, PlanMoves DEF FinishRaises, hostVars, RbType
  <1>9. CASE RollbackUnits \/ RollbackReload
    <2>1. UNCHANGED file /\ tx.todo = {} /\ (UNCHANGED rb \/ rb' = NoUndo)
      BY <1>0, <1>9 DEF RollbackUnits, RollbackReload
    <2>2. CASE RollbackUnits
      <3>1. Move("undo-files")
        BY <2>2 DEF RollbackUnits
      <3>2. tx'.todo = {}
        BY <1>0, <2>1, <3>1 DEF Move, TxType
      <3> QED
        BY <2>1, <3>2, PlanMoves
    <2>3. CASE RollbackReload
      <3>1. tx'.todo = {}
        BY <2>3 DEF RollbackReload, NoTx
      <3> QED
        BY <2>1, <3>1, PlanMoves
    <2> QED
      BY <1>9, <2>2, <2>3
  <1> QED
    BY <1>1, <1>2, <1>3, <1>4, <1>5, <1>6, <1>7, <1>8, <1>9, RestoredInPartPlan DEF Worker

LEMMA OthersPlan ==
    ASSUME PlanInv, ForeignInv', Operator \/ Environment \/ Guard \/ UNCHANGED vars
    PROVE  PlanInv'
  <1>0. file \in [Resource -> FileValue] /\ TypeOK /\ StateDir \in Resource
    BY ResourceKinds DEF PlanInv, ForeignInv, TypeInv, TypeOK, HostTypeOK
  <1>1. CASE Operator \/ UNCHANGED vars \/ DropUnknown \/ GuardBegins
    BY <1>1, PlanFrame DEF Operator, Update, Command, Redeclare, notOperator, vars, hostVars,
       DropUnknown, GuardBegins, notGuard
  <1>2. CASE Kill \/ Reboot
    BY <1>2, PlanMoves DEF Kill, Reboot, hostVars, NoTx
  <1>3. CASE \E r \in Resource : Tamper(r)
    <2> PICK r \in Resource : Tamper(r)
      BY <1>3
    <2>1. /\ UNCHANGED <<tx, rb, running, enabled>> /\ file' = [file EXCEPT ![r] = Foreign]
          /\ r # StateDir /\ (r = Owner => file[StateDir] # Absent)
      BY DEF Tamper
    <2>2. /\ \A q \in Resource : file'[q] = Absent => file[q] = Absent
          /\ file'[StateDir] = file[StateDir]
          /\ r # Owner => file'[Owner] = file[Owner]
      BY <1>0, <2>1, SentinelsDiffer, ResourceKinds
    <2>3. DirIsOurs' /\ OwnerInDir' /\ SavedIsContent'
      BY <2>1, <2>2 DEF PlanInv, DirIsOurs, OwnerInDir, SavedIsContent
    <2>4. WritesOnce' /\ DirFirst'
      BY <2>1, <2>2 DEF PlanInv, WritesOnce, DirFirst, ToDo, Touched
    <2>5. UsesFile'
      BY <2>1, <2>2, ResourceKinds DEF PlanInv, UsesFile, ToDo, Launches
    <2>6. LaunchesApart' /\ McpFirst' /\ RemovedIsOff'
      BY <2>1 DEF PlanInv, LaunchesApart, McpFirst, RemovedIsOff, ToDo, Launches
    <2> QED
      BY <2>3, <2>4, <2>5, <2>6 DEF PlanInv
  <1>4. CASE GuardRestarts
    <2>1. UNCHANGED <<file, tx, rb, enabled>>
      BY <1>4 DEF GuardRestarts, notGuard
    <2>2. running[Mcp] # None => running'[Mcp] # None
      BY <1>0, <1>4, LaunchIsProcess, NoneIsNoProcess, ResourceKinds
         DEF GuardRestarts, AfterRestart
    <2>3. McpFirst'
      BY <2>1, <2>2 DEF PlanInv, McpFirst, ToDo, Launches
    <2> QED
      BY <2>1, <2>3 DEF PlanInv, DirIsOurs, OwnerInDir, SavedIsContent, WritesOnce, DirFirst,
         UsesFile, LaunchesApart, RemovedIsOff, ToDo, Launches, Touched
  <1>5. CASE GuardObserves \/ GuardEnds
    <2>1. /\ UNCHANGED <<tx, rb, running, enabled>>
          /\ file' = [file EXCEPT ![StateDir] =
                        IF @ = Absent THEN Text(StateDir, desired.cfg) ELSE @]
      BY <1>5 DEF GuardObserves, GuardEnds, GuardWrites, notGuard
    <2>2. /\ file'[StateDir] \in {file[StateDir], Text(StateDir, desired.cfg)}
          /\ \A q \in Resource : q # StateDir => file'[q] = file[q]
          /\ file[StateDir] # Absent => file'[StateDir] = file[StateDir]
      BY <1>0, <2>1
    <2>3. Text(StateDir, desired.cfg) # Absent
      BY <1>0, TextIsFileValue, DeclarationFields DEF TypeOK, HostTypeOK
    <2>4. DirIsOurs' /\ OwnerInDir' /\ SavedIsContent' /\ DirFirst'
      BY <2>1, <2>2, <2>3, DirTextIsOne, ResourceKinds
         DEF PlanInv, DirIsOurs, OwnerInDir, SavedIsContent, DirFirst, ToDo
    <2>5. WritesOnce' /\ LaunchesApart' /\ McpFirst' /\ RemovedIsOff'
      BY <2>1 DEF PlanInv, WritesOnce, LaunchesApart, McpFirst, RemovedIsOff, ToDo, Launches,
         Touched
    <2>6. UsesFile'
      BY <2>1, <2>2, ResourceKinds DEF PlanInv, UsesFile, ToDo, Launches
    <2> QED
      BY <2>4, <2>5, <2>6 DEF PlanInv
  <1> QED
    BY <1>1, <1>2, <1>3, <1>4, <1>5 DEF Environment, Guard

LEMMA NextPlan == PlanInv /\ [Next]_vars => PlanInv'
  <1> SUFFICES ASSUME PlanInv, [Next]_vars PROVE PlanInv'
    OBVIOUS
  <1>1. ForeignInv'
    BY NextForeign DEF PlanInv
  <1> QED
    BY <1>1, WorkerPlan, OthersPlan DEF Next
(***************************************************************************)
(* What a step may do to a unit's file, to enablement and to the bookings. *)
(***************************************************************************)
\* A unit's file goes when its removal is due, or its creation is undone.
LEMMA FileGoes ==
    ASSUME PlanInv, [Next]_vars, NEW u \in Unit, file[u] # Absent, file'[u] = Absent
    PROVE  /\ Due(<<"remove", u>>) \/ (tx.phase = "undo-files" /\ u \in rb.created)
           /\ UNCHANGED <<enabled, running>>
  <1>0. /\ file \in [Resource -> FileValue] /\ u \in Resource /\ u \notin {StateDir, Owner}
        /\ TypeInv /\ tx.todo \subseteq Step
    BY ResourceKinds DEF PlanInv, ForeignInv, TypeInv, TypeOK, HostTypeOK
  <1>1. CASE \E s \in tx.todo : Execute(s)
    <2> PICK s \in tx.todo : Execute(s)
      BY <1>1
    <2>1. CASE Write(s)
      <3>1. s[2] \in Resource /\ want.cfg \in Configs
        BY <1>0, <2>1, StepObject, DeclarationFields
           DEF Write, Due, FileOp, TypeInv, ActiveWant, want
      <3>2. file'[u] \in {file[u], Text(s[2], want.cfg)}
        BY <1>0, <2>1 DEF Write
      <3> QED
        BY <3>1, <3>2, TextIsFileValue
    <2>2. CASE RemoveFile(s)
      <3>1. s = <<"remove", s[2]>> /\ s[2] = u
        BY <1>0, <2>2, StepObject DEF RemoveFile
      <3> QED
        BY <2>2, <3>1 DEF RemoveFile
    <2>3. CASE RemoveStateDir(s)
      BY <1>0, <2>3 DEF RemoveStateDir
    <2> QED
      BY <2>1, <2>2, <2>3 DEF Execute, Check, DaemonReload, Enable, Disable, Start,
         CannotStart, Stop
  <1>2. CASE RollbackFiles
    BY <1>0, <1>2 DEF RollbackFiles, PlanInv, SavedIsContent, Saved
  <1>3. CASE RecoverOwner
    BY <1>0, <1>3 DEF RecoverOwner
  <1>4. CASE Guard
    BY <1>0, <1>4 DEF Guard, GuardBegins, GuardObserves, GuardRestarts, GuardEnds, GuardWrites
  <1>5. CASE Environment
    BY <1>0, <1>5, SentinelsDiffer DEF Environment, Kill, Reboot, Tamper, DropUnknown, hostVars
  <1>6. CASE Operator \/ UNCHANGED vars
    BY <1>6 DEF Operator, Update, Command, Redeclare, notOperator, vars, hostVars
  <1>7. ASSUME (\E req \in {"plain", "forced"} : Lock(req)) \/ Begin \/ Refuse
                 \/ FailsEarly \/ Executed \/ Qualify \/ FinalPlan \/ FinalPlanGuard
                 \/ WriteApplied \/ Finish \/ FinishRaises
                 \/ RollbackUnits \/ RollbackReload
        PROVE  UNCHANGED file
    BY <1>7 DEF Lock, Begin, Refuse, FailsEarly, Executed, Qualify, FinalPlan, FinalPlanGuard,
       WriteApplied, Finish, FinishRaises, RollbackUnits, RollbackReload,
       hostVars, notHost, notPhase
  <1>8. CASE RollbackFilesRaises
    <2>1. tx.want \in ValidDeclaration /\ TypeOK
      <3>1. tx.phase = "undo-files"
        BY <1>8 DEF RollbackFilesRaises
      <3> QED
        BY <1>0, <3>1 DEF TypeInv, ActiveWant
    <2>2. file'[u] = file[u] \/ (u \in Saved /\ file'[u] = rb.text[u])
      BY <1>0, <1>8, <2>1, RestoresInPart
    <2> QED
      BY <1>0, <2>2 DEF PlanInv, SavedIsContent
  <1> QED
    BY <1>1, <1>2, <1>3, <1>4, <1>5, <1>6, <1>7, <1>8 DEF Next, Worker

\* Only `enable` enables, and it books what it did unless systemctl timed out.
LEMMA EnablementGrows ==
    ASSUME PlanInv, [Next]_vars, NEW u, u \in enabled', u \notin enabled
    PROVE  /\ Due(<<"enable", u>>) /\ UNCHANGED file /\ rb'.created = rb.created
           /\ tx'.phase \in {"execute", "undo-units"}
           /\ "timeout" \in Hazards \/ u \in rb'.enabled
  <1>0. tx.todo \subseteq Step /\ TypeInv /\ rb \in RbType
    BY DEF PlanInv, ForeignInv, TypeInv, TypeOK, RbType
  <1>1. CASE \E s \in tx.todo : Execute(s)
    <2> PICK s \in tx.todo : Execute(s)
      BY <1>1
    <2>1. Enable(s)
      BY DEF Execute, Check, Write, DaemonReload, Disable, Start, CannotStart, Stop,
         RemoveFile, RemoveStateDir
    <2>2. s = <<"enable", u>>
      BY <1>0, <2>1, StepObject DEF Enable
    <2>3. tx'.phase \in {"execute", "undo-units"}
      BY <1>0, <2>1, AfterProceed, AfterRaise DEF Enable, Ended, Raises, Due
    <2> QED
      BY <1>0, <2>1, <2>2, <2>3 DEF Enable, Raises, RbType
  <1>2. CASE RollbackUnits
    BY <1>2 DEF RollbackUnits
  <1>3. ASSUME Operator \/ Environment \/ Guard \/ UNCHANGED vars
        PROVE  UNCHANGED enabled
    BY <1>3 DEF Operator, Update, Command, Redeclare, notOperator, vars, hostVars,
       Environment, Kill, Reboot, Tamper, DropUnknown,
       Guard, GuardBegins, GuardObserves, GuardRestarts, GuardEnds, notGuard
  <1>4. ASSUME (\E req \in {"plain", "forced"} : Lock(req)) \/ RecoverOwner \/ Begin \/ Refuse
                 \/ FailsEarly \/ Executed \/ Qualify \/ FinalPlan \/ FinalPlanGuard
                 \/ WriteApplied \/ Finish \/ FinishRaises
                 \/ RollbackFiles \/ RollbackFilesRaises \/ RollbackReload
        PROVE  UNCHANGED enabled
    BY <1>4 DEF Lock, RecoverOwner, Begin, Refuse, FailsEarly, Executed, Qualify, FinalPlan,
       FinalPlanGuard, WriteApplied, Finish, FinishRaises, RollbackFiles, RollbackFilesRaises,
       RollbackReload, hostVars, notHost, notPhase
  <1> QED
    BY <1>1, <1>2, <1>3, <1>4 DEF Next, Worker

\* What is booked stays booked until the rollback is over, and a creation is
\* booked of a file that was not there.
LEMMA BookingsGrow ==
    ASSUME PlanInv, [Next]_vars
    PROVE  \/ rb' = NoUndo
           \/ /\ rb.enabled \subseteq rb'.enabled /\ rb.started \subseteq rb'.started
              /\ rb'.created = rb.created
           \/ /\ rb.enabled \subseteq rb'.enabled /\ rb.started \subseteq rb'.started
              /\ \A r \in rb'.created \ rb.created : file[r] = Absent
              /\ tx'.phase \in {"execute", "undo-units"}
              /\ UNCHANGED <<enabled, running>>
  <1>0. tx.todo \subseteq Step /\ TypeInv /\ rb \in RbType
    BY DEF PlanInv, ForeignInv, TypeInv, TypeOK, RbType
  <1>1. CASE \E s \in tx.todo : Execute(s)
    <2> PICK s \in tx.todo : Execute(s)
      BY <1>1
    <2>1. CASE Write(s)
      <3>1. tx'.phase \in {"execute", "undo-units"}
        BY <1>0, <2>1, AfterProceed, AfterRaise DEF Write, Ended, Raises, Due
      <3>2. /\ rb'.enabled = rb.enabled /\ rb'.started = rb.started
            /\ rb'.created = IF file[s[2]] = Absent THEN rb.created \cup {s[2]} ELSE rb.created
        BY <1>0, <2>1 DEF Write, Booked, RbType
      <3> QED
        BY <2>1, <3>1, <3>2 DEF Write
    <2>2. CASE Enable(s) \/ Start(s)
      BY <1>0, <2>2 DEF Enable, Start, StartBooked, RbType
    <2>3. CASE RemoveFile(s) \/ RemoveStateDir(s)
      BY <1>0, <2>3 DEF RemoveFile, RemoveStateDir, RbType
    <2> QED
      BY <2>1, <2>2, <2>3 DEF Execute, Check, DaemonReload, Disable, CannotStart, Stop
  <1>2. CASE FinishRaises
    BY <1>0, <1>2 DEF FinishRaises, RbType
  <1>3. ASSUME Operator \/ Environment \/ Guard \/ UNCHANGED vars
        PROVE  UNCHANGED rb \/ rb' = NoUndo
    BY <1>3 DEF Operator, Update, Command, Redeclare, notOperator, vars, hostVars,
       Environment, Kill, Reboot, Tamper, DropUnknown,
       Guard, GuardBegins, GuardObserves, GuardRestarts, GuardEnds, notGuard
  <1>4. ASSUME (\E req \in {"plain", "forced"} : Lock(req)) \/ RecoverOwner \/ Begin \/ Refuse
                 \/ FailsEarly \/ Executed \/ Qualify \/ FinalPlan \/ FinalPlanGuard
                 \/ WriteApplied \/ Finish
                 \/ RollbackUnits \/ RollbackFiles \/ RollbackFilesRaises \/ RollbackReload
        PROVE  UNCHANGED rb \/ rb' = NoUndo
    BY <1>4 DEF Lock, RecoverOwner, Begin, Refuse, FailsEarly, Executed, Qualify, FinalPlan,
       FinalPlanGuard, WriteApplied, Finish, RollbackUnits, RollbackFiles,
       RollbackFilesRaises, RollbackReload, hostVars, notHost, notPhase
  <1> QED
    BY <1>1, <1>2, <1>3, <1>4 DEF Next, Worker

LEMMA UndoFilesFollows ==
    ASSUME PlanInv, [Next]_vars, tx'.phase = "undo-files"
    PROVE  \/ RollbackUnits /\ tx.phase = "undo-units"
           \/ UNCHANGED tx
  <1>0. tx.todo \subseteq Step /\ TypeInv /\ tx \in TxType
    BY DEF PlanInv, ForeignInv, TypeInv, TypeOK, TxType
  <1>1. CASE \E s \in tx.todo : Execute(s)
    <2> PICK s \in tx.todo : Execute(s)
      BY <1>1
    <2>1. tx.phase = "execute" /\ (Proceed(s) \/ Raise)
      BY DEF Execute, Check, Write, DaemonReload, Enable, Disable, Start,
         CannotStart, Stop, RemoveFile, RemoveStateDir, Due, Ended, Raises
    <2> QED
      BY <1>0, <2>1, AfterProceed, AfterRaise
  <1>2. ASSUME Operator \/ DropUnknown \/ Guard \/ UNCHANGED vars
                 \/ (\E r \in Resource : Tamper(r)) \/ RecoverOwner
        PROVE  UNCHANGED tx
    BY <1>2 DEF Operator, Update, Command, Redeclare, notOperator, vars, Tamper, DropUnknown,
       Guard, GuardBegins, GuardObserves, GuardRestarts, GuardEnds, notGuard, RecoverOwner
  <1>3. ASSUME Kill \/ Reboot \/ Refuse \/ Finish \/ RollbackReload
        PROVE  tx'.phase = "idle"
    BY <1>3 DEF Kill, Reboot, Refuse, Finish, RollbackReload, NoTx
  <1>4. ASSUME (\E req \in {"plain", "forced"} : Lock(req)) \/ Begin
                 \/ Executed \/ FailsEarly \/ Qualify \/ FinalPlan \/ FinalPlanGuard
                 \/ WriteApplied \/ FinishRaises \/ RollbackFiles \/ RollbackFilesRaises
        PROVE  tx'.phase # "undo-files"
    <2>1. CASE \E req \in {"plain", "forced"} : Lock(req)
      BY <2>1 DEF Lock, NoTx
    <2>2. CASE Begin \/ Executed \/ FailsEarly \/ Qualify \/ FinalPlan \/ FinalPlanGuard
      BY <1>0, <2>2 DEF Begin, Executed, FailsEarly, Qualify, FinalPlan, FinalPlanGuard,
         Move, Raises, Raise, TxType
    <2>3. CASE WriteApplied \/ FinishRaises \/ RollbackFiles \/ RollbackFilesRaises
      BY <1>0, <2>3 DEF WriteApplied, FinishRaises, RollbackFiles, RollbackFilesRaises,
         Move, Raises, Raise, TxType
    <2> QED
      BY <1>4, <2>1, <2>2, <2>3
  <1> QED
    BY <1>1, <1>2, <1>3, <1>4 DEF Next, Worker, Environment, RollbackUnits
(***************************************************************************)
(* Enabled units have files.                                               *)
(***************************************************************************)
LEMMA InitEnabled == Init => EnabledInv
  <1>1. Init => EnabledHasFile /\ EnabledBooked
    BY DEF Init, EnabledHasFile, EnabledBooked, NoUndo
  <1> QED
    BY <1>1, InitPlan DEF EnabledInv

LEMMA NextEnabled ==
    ASSUME Hazards \cap {"unclean", "timeout"} = {}, EnabledInv, [Next]_vars
    PROVE  EnabledInv'
  <1>0. PlanInv /\ PlanInv' /\ enabled \subseteq Unit
    BY NextPlan DEF EnabledInv, PlanInv, ForeignInv, TypeInv, TypeOK, HostTypeOK
  <1>1. EnabledHasFile'
    <2> SUFFICES ASSUME NEW u \in enabled', file'[u] = Absent PROVE FALSE
      BY DEF EnabledHasFile
    <2>1. CASE u \notin enabled
      <3>1. Due(<<"enable", u>>) /\ UNCHANGED file /\ u \in Unit
        BY <1>0, <2>1, EnablementGrows DEF PlanInv, ForeignInv, TypeInv, TypeOK, HostTypeOK
      <3>2. ToDo("enable", u)
        BY <3>1 DEF Due, ToDo
      <3>3. file[u] # Absent \/ ToDo("create", u)
        BY <1>0, <3>1, <3>2 DEF PlanInv, UsesFile
      <3> QED
        BY <3>1, <3>3, DueEnable
    <2>2. CASE u \in enabled
      <3>1. file[u] # Absent /\ u \in Unit
        BY <1>0, <2>2 DEF EnabledInv, EnabledHasFile
      <3>2. CASE Due(<<"remove", u>>)
        <4>1. ToDo("remove", u)
          BY <3>2 DEF Due, ToDo
        <4> QED
          BY <1>0, <2>2, <3>1, <3>2, <4>1, DueRemoval DEF PlanInv, RemovedIsOff
      <3>3. CASE tx.phase = "undo-files" /\ u \in rb.created
        BY <2>2, <3>3 DEF EnabledInv, EnabledBooked
      <3> QED
        BY <1>0, <3>1, <3>2, <3>3, FileGoes
    <2> QED
      BY <2>1, <2>2
  <1>2. EnabledBooked'
    <2> SUFFICES ASSUME NEW u \in rb'.created, u \in enabled'
                 PROVE  u \in rb'.enabled /\ tx'.phase # "undo-files"
      BY DEF EnabledBooked
    <2>1. rb' # NoUndo
      BY DEF NoUndo
    <2>2. CASE u \notin enabled
      BY <1>0, <2>2, EnablementGrows
    <2>3. CASE u \in enabled
      <3>1. u \in rb.created
        BY <1>0, <2>1, <2>3, BookingsGrow DEF EnabledInv, EnabledHasFile
      <3>2. u \in rb.enabled /\ tx.phase # "undo-files"
        BY <2>3, <3>1 DEF EnabledInv, EnabledBooked
      <3>3. u \in rb'.enabled
        BY <1>0, <2>1, <3>2, BookingsGrow
      <3>4. ~RollbackUnits
        <4> SUFFICES ASSUME RollbackUnits PROVE FALSE
          OBVIOUS
        <4>1. enabled' = enabled \ rb.enabled
          BY DEF RollbackUnits
        <4> QED
          BY <3>2, <4>1
      <3> QED
        BY <1>0, <3>2, <3>3, <3>4, UndoFilesFollows
    <2> QED
      BY <2>2, <2>3
  <1> QED
    BY <1>0, <1>1, <1>2 DEF EnabledInv

\* At no moment, not between two steps of a transaction or of its rollback,
\* and not when the worker dies there or the host reboots, is a unit enabled
\* whose file is absent.  It needs that systemctl's effects are known and that
\* the undo of an enablement does not itself fail.
THEOREM EnabledUnitsHaveFiles ==
    ASSUME Hazards \cap {"unclean", "timeout"} = {}
    PROVE  Spec => []EnabledHasFile
  <1>1. Init => EnabledInv
    BY InitEnabled
  <1>2. EnabledInv /\ [Next]_vars => EnabledInv'
    BY NextEnabled
  <1>3. EnabledInv => EnabledHasFile
    BY DEF EnabledInv
  <1> QED
    BY <1>1, <1>2, <1>3, PTL DEF Spec
(***************************************************************************)
(* Running units have files.                                               *)
(***************************************************************************)
\* Without the guard, services are started by the worker, which books it
\* unless systemctl timed out, and by the host's start.
LEMMA ProcessesGrow ==
    ASSUME PlanInv, guardpc = "off", [Next]_vars,
           NEW u \in Service, running[u] = None, running'[u] # None
    PROVE  \/ tx' = NoTx /\ rb' = NoUndo /\ UNCHANGED file /\ file[u] # Absent
           \/ /\ \E op \in Launching : Due(<<op, u>>)
              /\ UNCHANGED file /\ rb'.created = rb.created
              /\ tx'.phase \in {"execute", "undo-units"}
              /\ "timeout" \in Hazards \/ u \in rb'.started
  <1>0. tx.todo \subseteq Step /\ TypeInv /\ TypeOK /\ rb \in RbType
    BY DEF PlanInv, ForeignInv, TypeInv, TypeOK, RbType
  <1>1. CASE \E s \in tx.todo : Execute(s)
    <2> PICK s \in tx.todo : Execute(s)
      BY <1>1
    <2>1. CASE Stop(s)
      BY <2>1 DEF Stop, AfterStop
    <2>2. CASE Start(s)
      <3>1. s = <<s[1], s[2]>> /\ s[1] \in Launching /\ Due(<<s[1], s[2]>>)
            /\ ToDo(s[1], s[2])
        BY <1>0, <2>2, StepObject DEF Start, Launching, ToDo
      <3>2. u = s[2] \/ (u = Mcp /\ s[2] = Tunnel)
        BY <1>0, <2>2, LaunchRuns
      <3>3. ~(u = Mcp /\ s[2] = Tunnel)
        <4> SUFFICES ASSUME u = Mcp, s[2] = Tunnel PROVE FALSE
          OBVIOUS
        <4>1. running[Mcp] # None \/ ToDo("start", Mcp)
          BY <3>1 DEF PlanInv, McpFirst, Launches
        <4> QED
          BY <3>1, <4>1, DueLaunch
      <3>4. tx'.phase \in {"execute", "undo-units"}
        BY <1>0, <2>2, AfterProceed, AfterRaise DEF Start, Ended, Raises, Due
      <3>5. rb'.created = rb.created
        BY <1>0, <2>2 DEF Start, StartBooked, RbType
      <3>6. "timeout" \in Hazards \/ u \in rb'.started
        <4>1. ~IsActive(u)
          BY ResourceKinds DEF IsActive
        <4> QED
          BY <1>0, <2>2, <3>2, <3>3, <4>1 DEF Start, StartBooked, Raises, RbType
      <3> QED
        BY <2>2, <3>1, <3>2, <3>3, <3>4, <3>5, <3>6 DEF Start
    <2> QED
      BY <2>1, <2>2 DEF Execute, Check, Write, DaemonReload, Enable, Disable, CannotStart,
         RemoveFile, RemoveStateDir
  <1>2. CASE RollbackUnits
    BY <1>2 DEF RollbackUnits, AfterStop
  <1>3. CASE Reboot
    BY <1>3 DEF Reboot
  <1>4. ASSUME Operator \/ Kill \/ (\E r \in Resource : Tamper(r)) \/ DropUnknown
                 \/ Guard \/ UNCHANGED vars
        PROVE  UNCHANGED running
    BY <1>4 DEF Operator, Update, Command, Redeclare, notOperator, vars, hostVars,
       Kill, Tamper, DropUnknown,
       Guard, GuardBegins, GuardObserves, GuardRestarts, GuardEnds
  <1>5. ASSUME (\E req \in {"plain", "forced"} : Lock(req)) \/ RecoverOwner \/ Begin \/ Refuse
                 \/ FailsEarly \/ Executed \/ Qualify \/ FinalPlan \/ FinalPlanGuard
                 \/ WriteApplied \/ Finish \/ FinishRaises
                 \/ RollbackFiles \/ RollbackFilesRaises \/ RollbackReload
        PROVE  UNCHANGED running
    BY <1>5 DEF Lock, RecoverOwner, Begin, Refuse, FailsEarly, Executed, Qualify, FinalPlan,
       FinalPlanGuard, WriteApplied, Finish, FinishRaises, RollbackFiles, RollbackFilesRaises,
       RollbackReload, hostVars, notHost, notPhase
  <1> QED
    BY <1>1, <1>2, <1>3, <1>4, <1>5 DEF Next, Worker, Environment

\* Steps are planned by Begin, and done one at a time or dropped together.
LEMMA StepsGo ==
    ASSUME PlanInv, [Next]_vars
    PROVE  \/ Begin
           \/ tx'.todo = {}
           \/ UNCHANGED tx /\ ~(\E s \in tx.todo : Execute(s))
           \/ \E s \in tx.todo : Execute(s) /\ Proceed(s)
  <1>0. /\ tx.todo \subseteq Step /\ TypeInv /\ tx \in TxType
        /\ tx.phase # "execute" => tx.todo = {}
    BY DEF PlanInv, ForeignInv, OnlyExecuteHasSteps, TypeInv, TypeOK, TxType
  <1>1. CASE \E s \in tx.todo : Execute(s)
    <2> PICK s \in tx.todo : Execute(s)
      BY <1>1
    <2>1. Proceed(s) \/ Raise
      BY DEF Execute, Check, Write, DaemonReload, Enable, Disable, Start,
         CannotStart, Stop, RemoveFile, RemoveStateDir, Ended, Raises
    <2> QED
      BY <1>0, <2>1, AfterRaise
  <1>2. ASSUME Operator \/ DropUnknown \/ Guard \/ UNCHANGED vars
                 \/ (\E r \in Resource : Tamper(r)) \/ RecoverOwner
        PROVE  UNCHANGED tx
    BY <1>2 DEF Operator, Update, Command, Redeclare, notOperator, vars, Tamper, DropUnknown,
       Guard, GuardBegins, GuardObserves, GuardRestarts, GuardEnds, notGuard, RecoverOwner
  <1>3. ASSUME Kill \/ Reboot \/ Refuse \/ Finish \/ RollbackReload
        PROVE  tx'.todo = {}
    BY <1>3 DEF Kill, Reboot, Refuse, Finish, RollbackReload, NoTx
  <1>4. CASE \E req \in {"plain", "forced"} : Lock(req)
    BY <1>4 DEF Lock, NoTx
  <1>5. ASSUME Executed \/ Qualify \/ FinalPlan \/ FinalPlanGuard
        PROVE  tx'.todo = {}
    BY <1>0, <1>5 DEF Executed, Qualify, FinalPlan, FinalPlanGuard, Move, Raises, Raise, TxType
  <1>6. ASSUME FailsEarly \/ WriteApplied \/ FinishRaises
                 \/ RollbackUnits \/ RollbackFiles \/ RollbackFilesRaises
        PROVE  tx'.todo = {}
    BY <1>0, <1>6 DEF FailsEarly, WriteApplied, FinishRaises, RollbackUnits, RollbackFiles,
       RollbackFilesRaises, Move, Raises, Raise, TxType
  <1> QED
    BY <1>1, <1>2, <1>3, <1>4, <1>5, <1>6 DEF Next, Worker, Environment

LEMMA InitRunning == Init => RunningInv
  <1>1. Init => guardpc = "off" /\ RunningHasFile /\ RemovedIsStopped /\ RunningBooked
    BY DEF Init, RunningHasFile, RemovedIsStopped, RunningBooked, NoUndo, NoTx, ToDo
  <1> QED
    BY <1>1, InitPlan DEF RunningInv

LEMMA GuardStaysOff ==
    ASSUME "tick" \notin Hazards, guardpc = "off", [Next]_vars
    PROVE  guardpc' = "off"
  <1>1. ASSUME Worker PROVE guardpc' = "off"
    <2>1. CASE \E s \in tx.todo : Execute(s)
      BY <2>1 DEF Execute, Check, Write, DaemonReload, Enable, Disable, Start,
         CannotStart, Stop, RemoveFile, RemoveStateDir
    <2>2. ASSUME (\E req \in {"plain", "forced"} : Lock(req)) \/ RecoverOwner \/ Begin \/ Refuse
                   \/ FailsEarly \/ Executed \/ Qualify \/ FinalPlan \/ FinalPlanGuard
                   \/ WriteApplied \/ Finish \/ FinishRaises \/ RollbackUnits
                   \/ RollbackFiles \/ RollbackFilesRaises \/ RollbackReload
          PROVE  UNCHANGED guardpc
      BY <2>2 DEF Lock, RecoverOwner, Begin, Refuse, FailsEarly, Executed, Qualify, FinalPlan,
         FinalPlanGuard, WriteApplied, Finish, FinishRaises, RollbackUnits, RollbackFiles,
         RollbackFilesRaises, RollbackReload, hostVars, notHost, notPhase
    <2> QED
      BY <1>1, <2>1, <2>2 DEF Worker
  <1>2. ASSUME Operator \/ Environment \/ Guard \/ UNCHANGED vars PROVE guardpc' = "off"
    BY <1>2 DEF Operator, Update, Command, Redeclare, notOperator, vars, hostVars,
       Environment, Kill, Reboot, Tamper, DropUnknown,
       Guard, GuardBegins, GuardObserves, GuardRestarts, GuardEnds
  <1> QED
    BY <1>1, <1>2 DEF Next
LEMMA RemovedStaysStopped ==
    ASSUME "tick" \notin Hazards, RunningInv, [Next]_vars, NEW u \in Service, ToDo("remove", u)'
    PROVE  running'[u] = None \/ ToDo("stop", u)' \/ ToDo("stop-stale", u)'
  <1>0. /\ PlanInv /\ TypeInv /\ tx.todo \subseteq Step /\ guardpc = "off" /\ u \in Unit
        /\ u # GuardSvc /\ tx'.todo # {}
    BY ResourceKinds DEF RunningInv, PlanInv, ForeignInv, TypeInv, TypeOK, ToDo
  <1>1. CASE Begin
    <2>1. /\ tx'.todo = PlanSteps(want, tx.force) /\ UNCHANGED running
      BY <1>0, <1>1 DEF Begin, notHost, TypeInv, TypeOK
    <2>2. IsActive(u) => ToDo("stop", u)'
      BY <1>0, <2>1, PlannedRemovals DEF ToDo
    <2> QED
      BY <1>0, <2>1, <2>2 DEF IsActive
  <1>2. CASE ~Begin
    <2>1. ToDo("remove", u)
      <3>1. CASE \E s \in tx.todo : Execute(s) /\ Proceed(s)
        BY <1>0, <3>1, AfterProceed
      <3> QED
        BY <1>0, <1>2, <3>1, StepsGo DEF ToDo
    <2>2. running[u] = None \/ ToDo("stop", u) \/ ToDo("stop-stale", u)
      BY <2>1 DEF RunningInv, RemovedIsStopped
    <2>3. CASE running[u] = None
      <3> SUFFICES ASSUME running'[u] # None PROVE FALSE
        OBVIOUS
      <3>1. \E op \in Launching : Due(<<op, u>>)
        BY <1>0, <2>3, ProcessesGrow DEF NoTx
      <3>2. Launches(u)
        BY <3>1 DEF Launches, ToDo, Due
      <3> QED
        BY <1>0, <2>1, <3>2 DEF PlanInv, UsesFile
    <2>4. ASSUME NEW op \in {"stop", "stop-stale"}, ToDo(op, u), ~ToDo(op, u)'
          PROVE  running'[u] = None
      <3>1. PICK s \in tx.todo : Execute(s) /\ Proceed(s)
        BY <1>0, <1>2, <2>4, StepsGo DEF ToDo
      <3>2. s = <<op, u>>
        BY <1>0, <2>4, <3>1, AfterProceed
      <3>3. Stop(s)
        BY <3>1, <3>2 DEF Execute, Check, Write, DaemonReload, Enable, Disable, Start,
           CannotStart, RemoveFile, RemoveStateDir
      <3> QED
        BY <3>2, <3>3 DEF Stop, AfterStop
    <2> QED
      BY <2>2, <2>3, <2>4
  <1> QED
    BY <1>1, <1>2

LEMMA NextRunning ==
    ASSUME Hazards \cap {"unclean", "timeout", "tick"} = {}, RunningInv, [Next]_vars
    PROVE  RunningInv'
  <1>0. PlanInv /\ PlanInv' /\ Service \subseteq Unit /\ guardpc = "off" /\ guardpc' = "off"
    BY NextPlan, UnitsAreResources, GuardStaysOff DEF RunningInv
  <1>1. RunningHasFile'
    <2> SUFFICES ASSUME NEW u \in Service, running'[u] # None, file'[u] = Absent PROVE FALSE
      BY DEF RunningHasFile
    <2>1. CASE running[u] = None
      <3>1. UNCHANGED file /\ (file[u] # Absent \/ \E op \in Launching : Due(<<op, u>>))
        BY <1>0, <2>1, ProcessesGrow
      <3>2. PICK op \in Launching : Due(<<op, u>>)
        BY <3>1
      <3>3. Launches(u)
        BY <3>2 DEF Due, Launches, ToDo
      <3>4. file[u] # Absent \/ ToDo("create", u)
        BY <1>0, <3>3 DEF PlanInv, UsesFile
      <3> QED
        BY <3>1, <3>2, <3>4, DueEnable
    <2>2. CASE running[u] # None
      <3>1. file[u] # Absent
        BY <2>2 DEF RunningInv, RunningHasFile
      <3>2. CASE Due(<<"remove", u>>)
        <4>1. ToDo("remove", u)
          BY <3>2 DEF Due, ToDo
        <4> QED
          BY <2>2, <3>2, <4>1, DueRemoval DEF RunningInv, RemovedIsStopped
      <3>3. CASE tx.phase = "undo-files" /\ u \in rb.created
        BY <2>2, <3>3 DEF RunningInv, RunningBooked
      <3> QED
        BY <1>0, <3>1, <3>2, <3>3, FileGoes
    <2> QED
      BY <2>1, <2>2
  <1>2. RunningBooked'
    <2> SUFFICES ASSUME NEW u \in Service, u \in rb'.created, running'[u] # None
                 PROVE  u \in rb'.started /\ tx'.phase # "undo-files"
      BY DEF RunningBooked
    <2>1. rb' # NoUndo
      BY DEF NoUndo
    <2>2. CASE running[u] = None
      BY <1>0, <2>1, <2>2, ProcessesGrow
    <2>3. CASE running[u] # None
      <3>1. u \in rb.created
        BY <1>0, <2>1, <2>3, BookingsGrow DEF RunningInv, RunningHasFile
      <3>2. u \in rb.started /\ tx.phase # "undo-files"
        BY <2>3, <3>1 DEF RunningInv, RunningBooked
      <3>3. u \in rb'.started
        BY <1>0, <2>1, <3>2, BookingsGrow
      <3>4. ~RollbackUnits
        <4> SUFFICES ASSUME RollbackUnits PROVE FALSE
          OBVIOUS
        <4>1. running' = AfterStop(rb.started \ {})
          BY DEF RollbackUnits
        <4> QED
          BY <3>2, <4>1 DEF AfterStop
      <3> QED
        BY <1>0, <3>2, <3>3, <3>4, UndoFilesFollows
    <2> QED
      BY <2>2, <2>3
  <1>3. RemovedIsStopped'
    BY RemovedStaysStopped DEF RemovedIsStopped
  <1> QED
    BY <1>0, <1>1, <1>2, <1>3 DEF RunningInv

\* Nothing ever runs whose unit file is gone, in particular not between two
\* transactions whatever became of the last.  It needs that systemctl's effects
\* are known, that stopping does not fail in a rollback, and that the guard,
\* which takes no lock, does not restart a service that is being removed.
THEOREM NothingIsOrphaned ==
    ASSUME Hazards \cap {"unclean", "timeout", "tick"} = {}
    PROVE  Spec => []NoOrphanedUnit
  <1>1. Init => RunningInv
    BY InitRunning
  <1>2. RunningInv /\ [Next]_vars => RunningInv'
    BY NextRunning
  <1>3. RunningInv => NoOrphanedUnit
    BY DEF RunningInv, RunningHasFile, NoOrphanedUnit
  <1> QED
    BY <1>1, <1>2, <1>3, PTL DEF Spec
(***************************************************************************)
(* A failed transaction is undone.                                         *)
(***************************************************************************)
\* Where a step may lead.
InTransaction ==
    \/ \E s \in tx.todo : Execute(s)
    \/ FailsEarly \/ Executed \/ Qualify \/ FinalPlan \/ FinalPlanGuard
    \/ WriteApplied \/ FinishRaises
Outside ==
    Operator \/ RecoverOwner \/ Guard \/ (\E r \in Resource : Tamper(r)) \/ DropUnknown
        \/ UNCHANGED vars

LEMMA Phases ==
    ASSUME PlanInv, [Next]_vars
    PROVE  \/ tx'.phase \in {"idle", "planning"} /\ tx'.todo = {}
           \/ Begin
           \/ /\ InTransaction /\ tx.phase \in Applying /\ tx'.phase \in Applying
              /\ UNCHANGED <<pre, journal>>
           \/ RollbackUnits \/ RollbackFiles \/ RollbackFilesRaises
           \/ Outside
  <1>0. tx.todo \subseteq Step /\ TypeInv /\ tx \in TxType
    BY DEF PlanInv, ForeignInv, TypeInv, TypeOK, TxType
  <1>1. CASE \E s \in tx.todo : Execute(s)
    <2> PICK s \in tx.todo : Execute(s)
      BY <1>1
    <2>1. tx.phase = "execute" /\ (Proceed(s) \/ Raise) /\ UNCHANGED <<pre, journal>>
      BY DEF Execute, Check, Write, DaemonReload, Enable, Disable, Start,
         CannotStart, Stop, RemoveFile, RemoveStateDir, Due, Ended, Raises, notStep
    <2>2. tx'.phase \in {"execute", "undo-units"}
      BY <1>0, <2>1, AfterProceed, AfterRaise
    <2> QED
      BY <2>1, <2>2 DEF InTransaction, Applying
  <1>2. CASE FailsEarly \/ Executed \/ Qualify
    <2>1. UNCHANGED <<pre, journal>> /\ tx.phase \in Applying
      BY <1>2 DEF FailsEarly, Executed, Qualify, notStep, notPhase, Applying
    <2>2. tx'.phase \in Applying
      BY <1>0, <1>2 DEF FailsEarly, Executed, Qualify, Move, Raises, Raise, TxType, Applying
    <2> QED
      BY <1>2, <2>1, <2>2 DEF InTransaction
  <1>3. CASE FinalPlan \/ FinalPlanGuard \/ WriteApplied \/ FinishRaises
    <2>1. UNCHANGED <<pre, journal>> /\ tx.phase \in Applying
      BY <1>3 DEF FinalPlan, FinalPlanGuard, WriteApplied, FinishRaises, notPhase, Applying
    <2>2. tx'.phase \in Applying
      BY <1>0, <1>3 DEF FinalPlan, FinalPlanGuard, WriteApplied, FinishRaises,
         Move, Raises, Raise, TxType, Applying
    <2> QED
      BY <1>3, <2>1, <2>2 DEF InTransaction
  <1>4. CASE Kill \/ Reboot \/ Refuse \/ Finish \/ RollbackReload
    <2>1. tx' = NoTx
      BY <1>4 DEF Kill, Reboot, Refuse, Finish, RollbackReload
    <2>2. tx'.phase = "idle" /\ tx'.todo = {}
      BY <2>1 DEF NoTx
    <2> QED
      BY <2>2
  <1>5. CASE \E req \in {"plain", "forced"} : Lock(req)
    BY <1>5 DEF Lock, NoTx
  <1> QED
    BY <1>1, <1>2, <1>3, <1>4, <1>5 DEF Next, Worker, Environment, Outside
FileParts == CreatesAbsent /\ RemovesFound /\ FilesKept /\ DirKept /\ BookedOnce /\ GoneLast

\* Steps that leave files and the bookings of files as they are.
LEMMA FilePartsFrame ==
    ASSUME UndoInv, UNCHANGED <<pre, file>>, tx'.phase \in Undoable => tx.phase \in Undoable,
           rb'.text = rb.text, rb'.created = rb.created, rb'.newDir = rb.newDir,
           rb'.goneDir = rb.goneDir, rb'.logs = rb.logs,
           \A op, r : ToDo(op, r)' => ToDo(op, r)
    PROVE  FileParts'
  <1>1. CreatesAbsent' /\ RemovesFound' /\ GoneLast'
    BY DEF UndoInv, CreatesAbsent, RemovesFound, GoneLast
  <1>2. FilesKept'
    BY DEF UndoInv, FilesKept, Restored
  <1>3. DirKept'
    BY DEF UndoInv, DirKept
  <1>4. BookedOnce'
    BY DEF UndoInv, BookedOnce
  <1> QED
    BY <1>1, <1>2, <1>3, <1>4 DEF FileParts

LEMMA BeginUndo ==
    ASSUME UndoInv, PlanInv', guardpc' = "off", Begin
    PROVE  UndoInv'
  <1>1. /\ tx'.todo = PlanSteps(want, tx.force) /\ tx'.phase = "execute" /\ rb' = NoUndo
        /\ UNCHANGED <<file, enabled, running>>
        /\ pre'.file = file /\ pre'.enabled = enabled
        /\ pre'.active = {u \in Service : IsActive(u)}
        /\ journal'.status = "running"
    BY DEF Begin, notHost, UndoInv, PlanInv, ForeignInv, TypeInv, TypeOK
  <1>2. CreatesAbsent'
    <2> SUFFICES ASSUME NEW r \in Resource, ToDo("create", r)' PROVE file'[r] = Absent
      BY DEF CreatesAbsent
    <2>1. r \in Creates(want)
      BY <1>1, PlannedSteps DEF ToDo
    <2>2. Observe(r, want) = "absent"
      BY <2>1 DEF Creates
    <2>3. file[r] = Absent
      BY <2>2 DEF Observe
    <2> QED
      BY <1>1, <2>3
  <1>3. RemovesFound'
    BY <1>1, PlannedRemovals DEF RemovesFound, ToDo
  <1>4. FilesKept'
    BY <1>1 DEF FilesKept, Restored, NoUndo
  <1>5. DirKept'
    <2>1. file[StateDir] \in {Absent, DirText} /\ (file[StateDir] = Absent => file[Owner] = Absent)
      BY DEF UndoInv, PlanInv, DirIsOurs, OwnerInDir
    <2> QED
      BY <1>1, <2>1 DEF DirKept, NoUndo
  <1>6. BookedOnce' /\ GoneLast' /\ JournalOpen' /\ Undone'
    BY <1>1 DEF BookedOnce, GoneLast, NoUndo, JournalOpen, Undone
  <1>7. UnitsKept'
    <2>1. \A u \in Service : running[u] # None => IsActive(u)
      BY ResourceKinds DEF IsActive
    <2> QED
      BY <1>1, <2>1 DEF UnitsKept
  <1> QED
    BY <1>2, <1>3, <1>4, <1>5, <1>6, <1>7 DEF UndoInv

LEMMA WriteFileParts ==
    ASSUME UndoInv, NEW s \in tx.todo, Write(s)
    PROVE  FileParts'
  <1>0. /\ file \in [Resource -> FileValue] /\ rb \in RbType /\ want.cfg \in Configs
        /\ s \in Step /\ TypeInv /\ PlanInv
    BY DeclarationFields
       DEF Write, Due, UndoInv, PlanInv, ForeignInv, TypeInv, TypeOK, HostTypeOK, ActiveWant,
           want, RbType
  <1>1. /\ s[2] \in Resource /\ s = <<s[1], s[2]>> /\ s[1] \in {"create", "update"}
        /\ ToDo(s[1], s[2]) /\ tx.phase = "execute" /\ UNCHANGED pre
        /\ file' = [file EXCEPT ![s[2]] = Text(s[2], want.cfg)]
    BY <1>0, StepObject DEF Write, FileOp, ToDo, Due, notStep
  <1>2. /\ \A r \in Resource :
              rb'.text[r] = IF r = s[2] /\ s[1] = "update" /\ file[r] # Absent
                            THEN file[r] ELSE rb.text[r]
        /\ rb'.created = IF file[s[2]] = Absent THEN rb.created \cup {s[2]} ELSE rb.created
        /\ rb'.newDir = (rb.newDir \/ (s[2] = StateDir /\ file[StateDir] = Absent))
        /\ rb'.goneDir = rb.goneDir /\ rb'.logs = rb.logs
    BY <1>0, <1>1 DEF Write, Booked, RbType
  <1>3. \A op, r : ToDo(op, r)' => ToDo(op, r) /\ s # <<op, r>>
    <2>1. CASE Proceed(s)
      BY <1>0, <2>1, AfterProceed
    <2>2. CASE Raise
      BY <1>0, <2>2, AfterRaise DEF ToDo
    <2> QED
      BY <2>1, <2>2 DEF Write, Ended, Raises
  <1>4. s[2] \notin rb.created /\ rb.text[s[2]] = None
    BY <1>0, <1>1 DEF PlanInv, WritesOnce, Touched
  <1>5. CreatesAbsent'
    <2> SUFFICES ASSUME NEW r \in Resource, ToDo("create", r)' PROVE file'[r] = Absent
      BY DEF CreatesAbsent
    <2>1. ToDo("create", r) /\ file[r] = Absent
      BY <1>3 DEF UndoInv, CreatesAbsent
    <2>2. r # s[2]
      BY <1>0, <1>1, <1>3, <2>1 DEF PlanInv, WritesOnce
    <2> QED
      BY <1>0, <1>1, <2>1, <2>2
  <1>6. RemovesFound' /\ GoneLast'
    BY <1>1, <1>2, <1>3 DEF UndoInv, RemovesFound, GoneLast
  <1>9. BookedOnce'
    <2> SUFFICES ASSUME NEW r \in Resource, r \in rb'.created PROVE rb'.text[r] = None
      BY <1>0, <1>1, <1>2 DEF BookedOnce, RbType
    <2> QED
      BY <1>2, <1>4 DEF UndoInv, BookedOnce
  <1>7. FilesKept'
    <2> SUFFICES ASSUME NEW r \in Resource \ {StateDir} PROVE Restored(r)' = pre.file[r]
      BY <1>1 DEF FilesKept
    <2>1. Restored(r) = pre.file[r]
      BY <1>1 DEF UndoInv, FilesKept, Undoable, Applying
    <2>2. CASE r # s[2]
      <3>1. file'[r] = file[r] /\ rb'.text[r] = rb.text[r] /\ (r \in rb'.created <=> r \in rb.created)
        BY <1>0, <1>1, <1>2, <2>2
      <3> QED
        BY <2>1, <3>1 DEF Restored
    <2>3. CASE r = s[2]
      <3>1. file[r] = pre.file[r]
        BY <1>4, <2>1, <2>3 DEF Restored
      <3>2. CASE file[r] = Absent
        BY <1>2, <2>3, <3>1, <3>2 DEF Restored
      <3>3. CASE file[r] # Absent
        <4>1. s[1] = "update"
          BY <1>1, <2>3, <3>3 DEF UndoInv, CreatesAbsent
        <4>2. rb'.text[r] = file[r] /\ r \notin rb'.created /\ file[r] # None
          BY <1>0, <1>2, <1>4, <2>3, <3>3, <4>1, NoneIsNoFileValue
        <4> QED
          BY <3>1, <4>2 DEF Restored
      <3> QED
        BY <3>2, <3>3
    <2> QED
      BY <2>2, <2>3
  <1>8. DirKept'
    <2>1. tx.phase \in Undoable
      BY <1>1 DEF Undoable, Applying
    <2>2. CASE s[2] = StateDir
      <3>1. ~rb.goneDir /\ file[StateDir] \in {Absent, DirText}
            /\ file'[StateDir] = DirText
        BY <1>0, <1>1, <2>2, DirTextIsOne DEF UndoInv, GoneLast, PlanInv, DirIsOurs
      <3>2. DirText # Absent
        BY <1>0, DirTextIsContent
      <3> QED
        BY <1>1, <1>2, <1>4, <2>1, <2>2, <3>1, <3>2 DEF UndoInv, DirKept
    <2>3. CASE s[2] # StateDir
      <3>1. file'[StateDir] = file[StateDir]
        BY <1>0, <1>1, <2>3, ResourceKinds
      <3>2. rb'.newDir <=> rb.newDir
        BY <1>0, <1>2, <2>3
      <3>3. StateDir \in rb'.created <=> StateDir \in rb.created
        BY <1>2, <2>3
      <3> QED
        BY <1>1, <1>2, <2>1, <3>1, <3>2, <3>3 DEF UndoInv, DirKept
    <2> QED
      BY <2>2, <2>3
  <1> QED
    BY <1>5, <1>6, <1>7, <1>8, <1>9 DEF FileParts

LEMMA RemoveFileParts ==
    ASSUME UndoInv, NEW s \in tx.todo, RemoveFile(s) \/ RemoveStateDir(s)
    PROVE  FileParts'
  <1>0. /\ file \in [Resource -> FileValue] /\ rb \in RbType /\ s \in Step /\ TypeInv
        /\ PlanInv /\ ForeignInv
    BY DEF UndoInv, PlanInv, ForeignInv, TypeInv, TypeOK, HostTypeOK, RbType
  <1>1. /\ s = <<"remove", s[2]>> /\ s[2] \in Resource /\ Due(<<"remove", s[2]>>)
        /\ ToDo("remove", s[2]) /\ tx.phase = "execute" /\ UNCHANGED pre
    BY <1>0, StepObject, ResourceKinds DEF RemoveFile, RemoveStateDir, FileOp, ToDo, Due, notStep
  <1>2. \A op, r : ToDo(op, r)' => ToDo(op, r)
    <2>1. CASE Proceed(s)
      BY <1>0, <2>1, AfterProceed
    <2>2. CASE Raise
      BY <1>0, <2>2, AfterRaise DEF ToDo
    <2> QED
      BY <2>1, <2>2 DEF RemoveFile, RemoveStateDir, Ended, Raises
  <1>3. \A r : ~ToDo("create", r)' /\ ~ToDo("update", r)'
    BY <1>1, <1>2, DueRemoval
  <1>4. CreatesAbsent' /\ GoneLast' /\ RemovesFound'
    BY <1>1, <1>2, <1>3 DEF CreatesAbsent, GoneLast, RemovesFound, UndoInv
  <1>5. s[2] \notin rb.created /\ rb.text[s[2]] = None
    BY <1>0, <1>1 DEF ForeignInv, RemovesOnce, Touched, ToDo
  <1>6. pre.file[s[2]] # Absent
    BY <1>1 DEF UndoInv, RemovesFound
  <1>7. tx.phase \in Undoable
    BY <1>1 DEF Undoable, Applying
  <1>A. BookedOnce'
    <2> SUFFICES ASSUME NEW r \in Resource, r \in rb'.created PROVE rb'.text[r] = None
      BY <1>0 DEF BookedOnce, RemoveFile, RemoveStateDir, RbType
    <2>1. r \in rb.created /\ (r = s[2] \/ rb'.text[r] = rb.text[r])
      <3>1. CASE RemoveFile(s)
        BY <1>0, <1>1, <3>1 DEF RemoveFile, RbType
      <3>2. CASE RemoveStateDir(s)
        BY <1>0, <3>2 DEF RemoveStateDir, RbType
      <3> QED
        BY <3>1, <3>2
    <2> QED
      BY <1>5, <2>1 DEF UndoInv, BookedOnce
  <1>8. CASE RemoveFile(s)
    <2>1. /\ s[2] # StateDir /\ file' = [file EXCEPT ![s[2]] = Absent]
          /\ \A r \in Resource :
                rb'.text[r] = IF r = s[2] /\ file[r] # Absent THEN file[r] ELSE rb.text[r]
          /\ rb'.created = rb.created /\ rb'.newDir = rb.newDir
          /\ rb'.goneDir = rb.goneDir /\ rb'.logs = rb.logs
      BY <1>0, <1>1, <1>8 DEF RemoveFile, RbType
    <2>2. FilesKept'
      <3> SUFFICES ASSUME NEW r \in Resource \ {StateDir} PROVE Restored(r)' = pre.file[r]
        BY <1>1 DEF FilesKept
      <3>1. Restored(r) = pre.file[r]
        BY <1>7 DEF UndoInv, FilesKept
      <3>2. CASE r # s[2]
        BY <1>0, <1>1, <2>1, <3>1, <3>2 DEF Restored
      <3>3. CASE r = s[2]
        <4>1. file[r] = pre.file[r] /\ file[r] # Absent /\ file[r] # None
          BY <1>0, <1>5, <1>6, <3>1, <3>3, NoneIsNoFileValue DEF Restored
        <4> QED
          BY <1>5, <2>1, <3>3, <4>1 DEF Restored
      <3> QED
        BY <3>2, <3>3
    <2>3. DirKept'
      <3>1. file'[StateDir] = file[StateDir]
        BY <1>0, <1>1, <2>1, ResourceKinds
      <3> QED
        BY <1>1, <1>7, <2>1, <3>1 DEF UndoInv, DirKept
    <2> QED
      BY <1>4, <1>A, <2>2, <2>3 DEF FileParts
  <1>9. CASE RemoveStateDir(s)
    <2>1. /\ s[2] = StateDir
          /\ rb'.text = rb.text /\ rb'.created = rb.created /\ rb'.newDir = rb.newDir
          /\ \/ file' = [file EXCEPT ![StateDir] = Absent] /\ rb'.goneDir
             \/ file' = file /\ rb'.goneDir = rb.goneDir
      <3>1. s[2] = StateDir
        BY <1>9 DEF RemoveStateDir
      <3> QED
        BY <1>0, <1>9, <3>1 DEF RemoveStateDir, RbType
    <2>2. \A r \in Resource \ {StateDir} : file'[r] = file[r]
      BY <1>0, <2>1
    <2>3. FilesKept'
      BY <1>1, <1>7, <2>1, <2>2 DEF UndoInv, FilesKept, Restored
    <2>4. DirKept'
      BY <1>1, <1>6, <1>7, <2>1 DEF UndoInv, DirKept
    <2> QED
      BY <1>4, <1>A, <2>3, <2>4 DEF FileParts
  <1> QED
    BY <1>8, <1>9
LEMMA TransactionKeepsFiles ==
    ASSUME UndoInv, InTransaction, tx.phase \in Applying, UNCHANGED pre
    PROVE  /\ FileParts'
           /\ rb.enabled \subseteq rb'.enabled /\ rb.started \subseteq rb'.started
  <1> USE DEF Raises
  <1>0. tx.todo \subseteq Step /\ TypeInv /\ tx \in TxType /\ rb \in RbType
    BY DEF UndoInv, PlanInv, ForeignInv, TypeInv, TypeOK, TxType, RbType
  <1>1. tx.phase \in Undoable
    BY DEF Undoable
  <1>2. CASE \E s \in tx.todo : Execute(s)
    <2> PICK s \in tx.todo : Execute(s)
      BY <1>2
    <2>1. CASE Write(s)
      <3>1. FileParts'
        BY <2>1, WriteFileParts
      <3> QED
        BY <1>0, <2>1, <3>1 DEF Write, Booked, RbType
    <2>2. CASE RemoveFile(s) \/ RemoveStateDir(s)
      <3>1. FileParts'
        BY <2>2, RemoveFileParts
      <3> QED
        BY <1>0, <2>2, <3>1 DEF RemoveFile, RemoveStateDir, RbType
    <2>3. ASSUME Check(s) \/ DaemonReload(s) \/ Enable(s) \/ Disable(s) \/ Start(s)
                   \/ CannotStart(s) \/ Stop(s)
          PROVE  /\ FileParts'
                 /\ rb.enabled \subseteq rb'.enabled /\ rb.started \subseteq rb'.started
      <3>1. Proceed(s) \/ Raise
        BY <2>3 DEF Check, DaemonReload, Enable, Disable, Start, CannotStart, Stop, Ended
      <3>2. UNCHANGED file
        BY <2>3 DEF Check, DaemonReload, Enable, Disable, Start, CannotStart, Stop
      <3>3. /\ rb'.text = rb.text /\ rb'.created = rb.created /\ rb'.newDir = rb.newDir
            /\ rb'.goneDir = rb.goneDir /\ rb'.logs = rb.logs
            /\ rb.enabled \subseteq rb'.enabled /\ rb.started \subseteq rb'.started
        BY <1>0, <2>3 DEF Check, DaemonReload, Enable, Disable, Start, CannotStart, Stop,
           StartBooked, RbType
      <3>4. \A op, r : ToDo(op, r)' => ToDo(op, r)
        <4>1. CASE Proceed(s)
          BY <1>0, <4>1, AfterProceed
        <4>2. CASE Raise
          BY <1>0, <4>2, AfterRaise DEF ToDo
        <4> QED
          BY <3>1, <4>1, <4>2
      <3> QED
        BY <1>1, <3>2, <3>3, <3>4, FilePartsFrame
    <2> QED
      BY <2>1, <2>2, <2>3 DEF Execute
  <1>3. CASE FailsEarly \/ Executed \/ Qualify \/ FinalPlan \/ FinalPlanGuard
               \/ WriteApplied \/ FinishRaises
    <2>1. UNCHANGED file
      BY <1>3 DEF FailsEarly, Executed, Qualify, FinalPlan, FinalPlanGuard, WriteApplied,
         FinishRaises, hostVars, notPhase
    <2>2. /\ rb'.text = rb.text /\ rb'.created = rb.created /\ rb'.newDir = rb.newDir
          /\ rb'.goneDir = rb.goneDir /\ rb'.logs = rb.logs
          /\ rb.enabled \subseteq rb'.enabled /\ rb.started \subseteq rb'.started
      BY <1>0, <1>3 DEF FailsEarly, Executed, Qualify, FinalPlan, FinalPlanGuard, WriteApplied,
         FinishRaises, notPhase, RbType
    <2>3. tx'.todo \in {tx.todo, {}}
      BY <1>0, <1>3 DEF FailsEarly, Executed, Qualify, FinalPlan, FinalPlanGuard, WriteApplied,
         FinishRaises, Move, Raise, TxType
    <2>4. \A op, r : ToDo(op, r)' => ToDo(op, r)
      BY <2>3 DEF ToDo
    <2> QED
      BY <1>1, <2>1, <2>2, <2>4, FilePartsFrame
  <1> QED
    BY <1>2, <1>3 DEF InTransaction

LEMMA TransactionUndo ==
    ASSUME "timeout" \notin Hazards, UndoInv, PlanInv', guardpc' = "off", [Next]_vars,
           InTransaction, tx.phase \in Applying, tx'.phase \in Applying, UNCHANGED <<pre, journal>>
    PROVE  UndoInv'
  <1>0. PlanInv /\ guardpc = "off"
    BY DEF UndoInv
  <1>1. /\ FileParts'
        /\ rb.enabled \subseteq rb'.enabled /\ rb.started \subseteq rb'.started
    BY TransactionKeepsFiles
  <1>2. /\ enabled \subseteq pre.enabled \cup rb.enabled
        /\ \A u \in Service : running[u] # None => u \in pre.active \cup rb.started
    BY DEF UndoInv, UnitsKept
  <1>3. enabled' \subseteq pre.enabled \cup rb'.enabled
    BY <1>0, <1>1, <1>2, EnablementGrows
  <1>4. \A u \in Service : running'[u] # None => u \in pre.active \cup rb'.started
    <2> SUFFICES ASSUME NEW u \in Service, running'[u] # None, running[u] = None
                 PROVE  u \in rb'.started
      BY <1>1, <1>2
    <2>1. tx' # NoTx
      BY DEF NoTx, Applying
    <2> QED
      BY <1>0, <2>1, ProcessesGrow
  <1>5. UnitsKept'
    BY <1>3, <1>4 DEF UnitsKept, Applying
  <1>6. JournalOpen' /\ Undone'
    BY DEF UndoInv, JournalOpen, Undone, Undoable, Applying
  <1> QED
    BY <1>1, <1>5, <1>6 DEF UndoInv, FileParts
LEMMA RollbackUnitsUndo ==
    ASSUME UndoInv, PlanInv', guardpc' = "off", RollbackUnits
    PROVE  UndoInv'
  <1>0. /\ tx \in TxType /\ rb \in RbType /\ TypeInv /\ tx.todo = {}
        /\ journal \in [status : {"none", "running", "failed", "succeeded"}, clean : BOOLEAN]
    BY DEF UndoInv, PlanInv, ForeignInv, OnlyExecuteHasSteps, TypeInv, TypeOK, TxType, RbType,
       RollbackUnits
  <1>1. /\ tx.phase = "undo-units" /\ tx'.phase = "undo-files" /\ tx'.todo = {}
        /\ UNCHANGED <<pre, file, rb>>
    BY <1>0 DEF RollbackUnits, Move, notUndo, TxType
  <1>2. FileParts'
    BY <1>1, FilePartsFrame DEF Undoable, Applying, ToDo
  <1>3. journal'.clean =>
            /\ running' = AfterStop(rb.started) /\ enabled' = enabled \ rb.enabled
    <2> SUFFICES ASSUME journal'.clean
                 PROVE  running' = AfterStop(rb.started) /\ enabled' = enabled \ rb.enabled
      OBVIOUS
    <2>1. PICK stuck \in SUBSET (rb.started \cup rb.enabled) :
            /\ running' = AfterStop(rb.started \ stuck)
            /\ enabled' = enabled \ (rb.enabled \ stuck)
            /\ journal' = [journal EXCEPT !.clean = IF stuck = {} THEN @ ELSE FALSE]
      BY DEF RollbackUnits
    <2>2. stuck = {}
      BY <1>0, <2>1
    <2> QED
      BY <2>1, <2>2
  <1>4. journal'.status = "running"
    BY <1>0, <1>1 DEF RollbackUnits, UndoInv, JournalOpen, Undoable, Applying
  <1>5. UnitsKept'
    <2>1. /\ enabled \subseteq pre.enabled \cup rb.enabled
          /\ \A u \in Service : running[u] # None => u \in pre.active \cup rb.started
      BY <1>1 DEF UndoInv, UnitsKept, Applying
    <2>2. journal'.clean => enabled' \subseteq pre.enabled
      BY <1>3, <2>1
    <2>3. journal'.clean => \A u \in Service : running'[u] # None => u \in pre.active
      BY <1>3, <2>1 DEF AfterStop
    <2> QED
      BY <1>1, <2>2, <2>3 DEF UnitsKept, Applying
  <1>6. JournalOpen' /\ Undone'
    BY <1>1, <1>4 DEF JournalOpen, Undone
  <1> QED
    BY <1>2, <1>5, <1>6 DEF UndoInv, FileParts

\* Restoring gives every file back; the state directory and its marker stay
\* where they were not only because of what was logged or left there.
LEMMA FilesAreRestored ==
    ASSUME UndoInv, RollbackFiles
    PROVE  /\ \A r \in Resource \ {StateDir, Owner} : file'[r] = pre.file[r]
           /\ \A r \in {StateDir, Owner} :
                 file'[r] = pre.file[r] \/ (pre.file[r] = Absent /\ contents' # {})
  <1>0. /\ rb \in RbType /\ contents \subseteq {"runtime", "unknown"}
        /\ Owner \in Resource /\ StateDir \in Resource /\ StateDir # Owner
        /\ tx.phase = "undo-files" /\ tx.phase \in Undoable
    BY ResourceKinds
       DEF UndoInv, PlanInv, ForeignInv, TypeInv, TypeOK, HostTypeOK, RbType, RollbackFiles,
       Undoable
  <1> DEFINE back == contents \cup (IF rb.logs THEN {"runtime"} ELSE {})
             left(relog) ==
                IF rb.newDir
                THEN (back \ {"runtime"}) \cup (IF relog THEN {"runtime"} ELSE {})
                ELSE back
             keepOwner == rb.newDir /\ "unknown" \in back
             gone == rb.created \ (IF keepOwner THEN {Owner} ELSE {})
             ownerLeft == IF Owner \in Saved THEN TRUE
                          ELSE file[Owner] # Absent /\ Owner \notin gone
  <1>1. PICK relog \in BOOLEAN :
          /\ contents' = left(relog)
          /\ file' = [r \in Resource |->
                  IF r = StateDir
                  THEN IF StateDir \in gone /\ left(relog) = {} /\ ~ownerLeft THEN Absent
                       ELSE IF DirRestored THEN Text(StateDir, want.cfg)
                       ELSE file[StateDir]
                  ELSE IF r \in gone THEN Absent
                  ELSE IF r \in Saved THEN rb.text[r]
                  ELSE file[r]]
    BY DEF RollbackFiles
  <1>2. \A r \in Resource : r \in rb.created => r \notin Saved
    BY DEF UndoInv, BookedOnce, Saved
  <1>3. \A r \in Resource \ {StateDir} :
            r \in gone \/ r \notin rb.created => file'[r] = pre.file[r]
    BY <1>0, <1>1 DEF UndoInv, FilesKept, Restored, Saved
  <1>4. \A r \in Resource \ {StateDir, Owner} : file'[r] = pre.file[r]
    BY <1>1, <1>3
  <1>5. CASE pre.file[StateDir] # Absent
    <2>1. /\ pre.file[StateDir] = DirText /\ ~rb.newDir /\ StateDir \notin rb.created
          /\ file[StateDir] = DirText \/ rb.goneDir
      BY <1>0, <1>5 DEF UndoInv, DirKept
    <2>2. file'[StateDir] = DirText
      BY <1>0, <1>1, <2>1, DirTextIsOne DEF DirRestored
    <2>3. file'[Owner] = pre.file[Owner]
      BY <1>0, <1>1, <1>3, <2>1
    <2> QED
      BY <1>4, <2>1, <2>2, <2>3
  <1>6. CASE pre.file[StateDir] = Absent
    <2>1. /\ StateDir \in rb.created <=> rb.newDir
          /\ rb.newDir \/ file[StateDir] = Absent
          /\ ~rb.goneDir /\ ~rb.logs /\ pre.file[Owner] = Absent
      BY <1>0, <1>6 DEF UndoInv, DirKept
    <2>2. Owner \notin Saved /\ (Owner \notin rb.created => file[Owner] = Absent)
      BY <1>0, <2>1 DEF UndoInv, PlanInv, SavedIsContent, FilesKept, Restored, Saved, BookedOnce
    <2>3. ~DirRestored
      BY <2>1, <2>2 DEF DirRestored
    <2>4. CASE keepOwner
      <3>1. "unknown" \in contents'
        BY <1>1, <2>4
      <3> QED
        BY <1>4, <1>6, <2>1, <3>1
    <2>5. CASE ~keepOwner
      <3>1. gone = rb.created
        BY <1>1, <2>5
      <3>2. file'[Owner] = pre.file[Owner] /\ ~ownerLeft
        BY <1>0, <1>1, <1>3, <2>2, <3>1
      <3>3. file'[StateDir] = Absent \/ contents' # {}
        BY <1>0, <1>1, <2>1, <2>3, <3>1, <3>2
      <3> QED
        BY <1>4, <1>6, <3>2, <3>3
    <2> QED
      BY <2>4, <2>5
  <1> QED
    BY <1>5, <1>6
LEMMA RestoredUndo ==
    ASSUME UndoInv, PlanInv', guardpc' = "off", RollbackFiles \/ RollbackFilesRaises
    PROVE  UndoInv'
  <1>0. /\ tx \in TxType /\ tx.phase = "undo-files" /\ tx.todo = {}
        /\ tx'.phase = "undo-reload" /\ tx'.todo = {} /\ rb' = NoUndo
        /\ UNCHANGED <<pre, enabled, running>>
        /\ journal' = journal \/ journal' = [journal EXCEPT !.clean = FALSE]
        /\ journal \in [status : {"none", "running", "failed", "succeeded"}, clean : BOOLEAN]
    BY DEF UndoInv, PlanInv, ForeignInv, OnlyExecuteHasSteps, TypeInv, TypeOK, TxType,
       RollbackFiles, RollbackFilesRaises, Move, notUndo, hostVars
  <1>1. FileParts' /\ JournalOpen'
    BY <1>0 DEF FileParts, CreatesAbsent, RemovesFound, FilesKept, DirKept, BookedOnce, GoneLast,
       NoUndo, ToDo, UndoInv, JournalOpen, Undoable, Applying
  <1>2. UnitsKept'
    BY <1>0 DEF UndoInv, UnitsKept, Applying
  <1>3. Undone'
    <2>1. CASE RollbackFiles
      BY <1>0, <2>1, FilesAreRestored DEF Undone
    <2>2. CASE RollbackFilesRaises
      BY <1>0, <2>2 DEF Undone, RollbackFilesRaises
    <2> QED
      BY <2>1, <2>2
  <1> QED
    BY <1>1, <1>2, <1>3 DEF UndoInv, FileParts

\* While nothing is applied there is nothing to keep.
LEMMA UndoEmpty ==
    ASSUME PlanInv', guardpc' = "off", tx'.phase \in {"idle", "planning"}, tx'.todo = {}
    PROVE  UndoInv'
  <1>1. rb' = NoUndo
    BY DEF PlanInv, ForeignInv, NothingToUndo
  <1> QED
    BY <1>1 DEF UndoInv, CreatesAbsent, RemovesFound, FilesKept, DirKept, BookedOnce, GoneLast,
       UnitsKept, Undone, JournalOpen, NoUndo, ToDo, Undoable, Applying

LEMMA OutsideUndo ==
    ASSUME Hazards \cap {"tick", "tamper"} = {}, UndoInv, PlanInv', guardpc' = "off", Outside
    PROVE  UndoInv'
  <1>1. /\ UNCHANGED <<tx, rb, pre, journal, enabled, running>>
        /\ contents \subseteq contents'
        /\ UNCHANGED file \/ (tx.phase = "planning" /\ tx.todo = {})
    <2>1. CASE Operator \/ DropUnknown \/ UNCHANGED vars
      BY <2>1 DEF Operator, Update, Command, Redeclare, notOperator, vars, hostVars, DropUnknown
    <2>2. CASE RecoverOwner
      BY <2>2 DEF RecoverOwner, UndoInv, PlanInv, ForeignInv, OnlyExecuteHasSteps
    <2>3. ~Guard /\ ~(\E r \in Resource : Tamper(r))
      BY DEF Guard, GuardBegins, GuardObserves, GuardRestarts, GuardEnds, Tamper, UndoInv
    <2> QED
      BY <2>1, <2>2, <2>3 DEF Outside
  <1>2. CASE UNCHANGED file
    <2>1. FileParts'
      BY <1>1, <1>2, FilePartsFrame DEF ToDo
    <2> QED
      BY <1>1, <1>2, <2>1 DEF UndoInv, FileParts, UnitsKept, Undone, JournalOpen
  <1>3. CASE tx.phase = "planning" /\ tx.todo = {}
    BY <1>1, <1>3, UndoEmpty
  <1> QED
    BY <1>1, <1>2, <1>3

LEMMA InitUndo == Init => UndoInv
  <1>1. Init => /\ tx.phase = "idle" /\ tx.todo = {} /\ rb = NoUndo /\ guardpc = "off"
    BY DEF Init, NoTx
  <1>2. Init => /\ CreatesAbsent /\ RemovesFound /\ FilesKept /\ DirKept /\ BookedOnce /\ GoneLast
                /\ UnitsKept /\ Undone /\ JournalOpen
    BY <1>1 DEF CreatesAbsent, RemovesFound, FilesKept, DirKept, BookedOnce, GoneLast,
       UnitsKept, Undone, JournalOpen, NoUndo, ToDo, Undoable, Applying
  <1> QED
    BY <1>1, <1>2, InitPlan DEF UndoInv

LEMMA NextUndo ==
    ASSUME Hazards \cap {"timeout", "tick", "tamper"} = {}, UndoInv, [Next]_vars
    PROVE  UndoInv'
  <1>1. PlanInv /\ PlanInv' /\ guardpc' = "off"
    BY NextPlan, GuardStaysOff DEF UndoInv
  <1>2. CASE tx'.phase \in {"idle", "planning"} /\ tx'.todo = {}
    BY <1>1, <1>2, UndoEmpty
  <1>3. CASE Begin
    BY <1>1, <1>3, BeginUndo
  <1>4. CASE /\ InTransaction /\ tx.phase \in Applying /\ tx'.phase \in Applying
             /\ UNCHANGED <<pre, journal>>
    BY <1>1, <1>4, TransactionUndo
  <1>5. CASE RollbackUnits
    BY <1>1, <1>5, RollbackUnitsUndo
  <1>6. CASE RollbackFiles \/ RollbackFilesRaises
    BY <1>1, <1>6, RestoredUndo
  <1>7. CASE Outside
    BY <1>1, <1>7, OutsideUndo
  <1> QED
    BY <1>1, <1>2, <1>3, <1>4, <1>5, <1>6, <1>7, Phases

\* A transaction ends as failed only after its rollback: a worker that dies
\* leaves the journal saying that it runs.
LEMMA FailedIsRolledBack ==
    ASSUME UndoInv, Next, EndsFailed, journal'.clean
    PROVE  /\ tx.phase = "undo-reload" /\ journal.clean
           /\ UNCHANGED <<file, contents, enabled, running>>
  <1>0. /\ tx.phase = "undo-reload" /\ tx.todo = {} /\ journal.status = "running"
        /\ tx'.phase = "idle" /\ journal'.status = "failed"
        /\ journal \in [status : {"none", "running", "failed", "succeeded"}, clean : BOOLEAN]
    BY DEF EndsFailed, UndoInv, JournalOpen, PlanInv, ForeignInv, OnlyExecuteHasSteps,
       TypeInv, TypeOK
  <1>1. CASE RollbackReload
    BY <1>0, <1>1 DEF RollbackReload
  <1>2. ASSUME Environment \/ Operator \/ Guard PROVE UNCHANGED journal
    BY <1>2 DEF Environment, Kill, Reboot, Tamper, DropUnknown,
       Operator, Update, Command, Redeclare, notOperator,
       Guard, GuardBegins, GuardObserves, GuardRestarts, GuardEnds, notGuard
  <1>3. ~(Worker /\ ~RollbackReload)
    BY <1>0 DEF Worker, Lock, Idle, RecoverOwner, Begin, Refuse, FailsEarly, Executed, Qualify,
       FinalPlan, FinalPlanGuard, WriteApplied, Finish, FinishRaises, RollbackUnits,
       RollbackFiles, RollbackFilesRaises
  <1> QED
    BY <1>0, <1>1, <1>2, <1>3 DEF Next

\* A failed transaction whose rollback reports no error has undone all of it:
\* wherever an operation raised, or the host's writing of its journal did, the
\* files are the ones it started from, and what is enabled or runs was so
\* before.  It needs that systemctl's effects are known, and that neither the
\* guard nor anybody else changes the host meanwhile.
THEOREM FailedAppliesAreUndone ==
    ASSUME Hazards \cap {"timeout", "tick", "tamper"} = {}
    PROVE  Spec => FailedApplyUndone
  <1>1. Init => UndoInv
    BY InitUndo
  <1>2. UndoInv /\ [Next]_vars => UndoInv'
    BY NextUndo
  <1> DEFINE Kept ==
        EndsFailed /\ journal'.clean /\ late = {} =>
            /\ \A r \in Resource \ {StateDir, Owner} : file'[r] = pre.file[r]
            /\ \A r \in {StateDir, Owner} :
                  file'[r] = pre.file[r] \/ (pre.file[r] = Absent /\ contents # {})
            /\ enabled' \subseteq pre.enabled
            /\ {u \in Service : running'[u] # None} \subseteq pre.active
  <1>3. UndoInv /\ [Next]_vars => [Kept]_vars
    <2> SUFFICES ASSUME UndoInv, Next, EndsFailed, journal'.clean PROVE Kept
      OBVIOUS
    <2>1. /\ tx.phase = "undo-reload" /\ journal.clean
          /\ UNCHANGED <<file, contents, enabled, running>>
      BY FailedIsRolledBack
    <2>2. Undone /\ UnitsKept
      BY DEF UndoInv
    <2> QED
      BY <2>1, <2>2 DEF Undone, UnitsKept
  <1> QED
    BY <1>1, <1>2, <1>3, PTL DEF Spec, FailedApplyUndone

(***************************************************************************)
(* What a failed apply leaves behind is still recognised as ours.          *)
(***************************************************************************)
\* The units that write into the state directory have their files only as
\* long as it is there: it is created first and removed last.
Loggers == {Mcp, Tunnel}
DirHolds ==
    /\ file[StateDir] = Absent => \A u \in Loggers : file[u] = Absent
    /\ ToDo("remove", StateDir) => \A u \in Loggers : file[u] = Absent \/ ToDo("remove", u)
    /\ ToDo("remove", StateDir) => \A r \in Resource : ~ToDo("create", r) /\ ~ToDo("update", r)
    /\ \A u \in Loggers :
          ToDo("create", u) \/ ToDo("update", u) => file[StateDir] # Absent \/ ToDo("create", StateDir)

\* The state directory is gone, or has its marker.
Marked == file[StateDir] = Absent \/ file[Owner] # Absent
PreMarked ==
    tx.phase \in Undoable =>
        /\ pre.file[StateDir] = Absent \/ pre.file[Owner] # Absent
        /\ pre.file[StateDir] = Absent => \A u \in Loggers : pre.file[u] = Absent
MarkKept ==
    /\ ~rb.discarded
    /\ tx.phase = "undo-reload" \/ (tx.phase \in {"idle", "planning"} /\ journal.status = "failed") =>
          "unknown" \in contents \/ Marked

RecoverInv == UndoInv /\ RunningInv /\ DirHolds /\ PreMarked /\ MarkKept

LEMMA RemovalRanks ==
    Rank(<<"remove", StateDir>>) = 117 /\ Rank(<<"remove", Mcp>>) = 114
        /\ Rank(<<"remove", Tunnel>>) = 115
  <1>1. DOMAIN RemovalOrder = 1..7
    BY DEF RemovalOrder
  <1>2. \A i \in 1..7 : /\ RemovalOrder[i] = Mcp <=> i = 4
                        /\ RemovalOrder[i] = Tunnel <=> i = 5
                        /\ RemovalOrder[i] = StateDir <=> i = 7
    BY DEF RemovalOrder, StateDir, Owner, Profile, Mcp, Tunnel, GuardSvc, Timer
  <1>3. /\ Position(Mcp, RemovalOrder) = 4 /\ Position(Tunnel, RemovalOrder) = 5
        /\ Position(StateDir, RemovalOrder) = 7
    BY <1>1, <1>2 DEF Position
  <1> QED
    BY <1>3, OpRanks DEF Rank, ResourceRank

LEMMA DirectoryGoesLast ==
    ASSUME Due(<<"remove", StateDir>>), NEW u \in Loggers
    PROVE  ~ToDo("remove", u)
  <1> SUFFICES ASSUME ToDo("remove", u) PROVE FALSE
    OBVIOUS
  <1>1. Rank(<<"remove", StateDir>>) <= Rank(<<"remove", u>>)
    BY DEF Due, ToDo
  <1> QED
    BY <1>1, RemovalRanks DEF Loggers

LEMMA DirectoryComesFirst ==
    ASSUME NEW a \in {"create", "update"}, NEW u \in Loggers, Due(<<a, u>>)
    PROVE  ~ToDo("create", StateDir)
  <1> SUFFICES ASSUME ToDo("create", StateDir) PROVE FALSE
    OBVIOUS
  <1>1. Rank(<<a, u>>) <= Rank(<<"create", StateDir>>)
    BY DEF Due, ToDo
  <1>2. DOMAIN BundleOrder = 1..7
    BY DEF BundleOrder
  <1>3. \A i \in 1..7 : (BundleOrder[i] = Mcp <=> i = 4) /\ (BundleOrder[i] = Tunnel <=> i = 5)
    BY DEF BundleOrder, StateDir, Owner, Profile, Mcp, Tunnel, GuardSvc, Timer
  <1>4. Position(u, BundleOrder) \in {4, 5}
    BY <1>2, <1>3 DEF Position, Loggers
  <1>5. Rank(<<a, u>>) \in {34, 35}
    BY <1>4, OpRanks DEF Rank, ResourceRank
  <1> QED
    BY <1>1, <1>5, DirectoryRanks

\* Where the files may change.
LEMMA FileMoves ==
    ASSUME Hazards \cap {"tick", "tamper"} = {}, PlanInv, guardpc = "off", [Next]_vars
    PROVE  \/ Begin \/ (\E s \in tx.todo : Execute(s)) \/ RollbackFiles \/ RollbackFilesRaises
           \/ RecoverOwner
           \/ UNCHANGED file /\ (tx'.todo = {} \/ UNCHANGED tx)
  <1>1. ASSUME ~Begin, ~(\E s \in tx.todo : Execute(s)) PROVE tx'.todo = {} \/ UNCHANGED tx
    BY <1>1, StepsGo
  <1>2. ~Guard /\ ~(\E r \in Resource : Tamper(r))
    BY DEF Guard, GuardBegins, GuardObserves, GuardRestarts, GuardEnds, Tamper
  <1>3. ASSUME Operator \/ Kill \/ Reboot \/ DropUnknown \/ UNCHANGED vars PROVE UNCHANGED file
    BY <1>3 DEF Operator, Update, Command, Redeclare, notOperator, vars, hostVars,
       Kill, Reboot, DropUnknown
  <1>4. ASSUME (\E req \in {"plain", "forced"} : Lock(req)) \/ Refuse
                 \/ FailsEarly \/ Executed \/ Qualify \/ FinalPlan \/ FinalPlanGuard
                 \/ WriteApplied \/ Finish \/ FinishRaises
                 \/ RollbackUnits \/ RollbackReload
        PROVE  UNCHANGED file
    BY <1>4 DEF Lock, Refuse, FailsEarly, Executed, Qualify, FinalPlan, FinalPlanGuard,
       WriteApplied, Finish, FinishRaises, RollbackUnits, RollbackReload, hostVars, notPhase
  <1> QED
    BY <1>1, <1>2, <1>3, <1>4 DEF Next, Worker, Environment

LEMMA ValidIsMarked ==
    ASSUME NEW d, PlanValid(d)
    PROVE  Marked
  <1>1. Observe(StateDir, d) # "foreign"
    BY BundleKinds DEF PlanValid, Conflict, FileConflict
  <1> QED
    BY <1>1 DEF Marked, Observe

LEMMA BeginHolds ==
    ASSUME RecoverInv, Begin
    PROVE  DirHolds'
  <1>1. /\ tx'.todo = PlanSteps(want, tx.force) /\ UNCHANGED file /\ PlanValid(want)
    BY DEF Begin, notHost, RecoverInv, UndoInv, PlanInv, ForeignInv, TypeInv, TypeOK
  <1>2. ASSUME ToDo("remove", StateDir)' PROVE ~Present(want)
    <2>1. StateDir \in Removes(want)
      BY <1>1, <1>2, PlannedSteps DEF ToDo
    <2>2. StateDir \notin Stale(want)
      BY BundleKinds, ResourceKinds
    <2> QED
      BY <2>1, <2>2 DEF Removes
  <1>3. ASSUME NEW u \in Loggers, ToDo("remove", StateDir)', file[u] # Absent
        PROVE  ToDo("remove", u)'
    <2>1. u \in Bundle(want) /\ u # StateDir
      BY BundleKinds, ResourceKinds DEF Loggers
    <2>2. Observe(u, want) # "foreign"
      BY <1>1, <2>1 DEF PlanValid, Conflict, FileConflict
    <2>3. Observe(u, want) \in {"exact", "different"}
      BY <1>3, <2>1, <2>2 DEF Observe
    <2>4. u \in Removes(want)
      BY <1>2, <1>3, <2>1, <2>3 DEF Removes
    <2> QED
      BY <1>1, <2>4, PlannedSteps DEF ToDo
  <1>4. ASSUME NEW r, ToDo("create", r)' \/ ToDo("update", r)' PROVE Present(want)
    BY <1>1, <1>4, PlannedSteps DEF ToDo
  <1>5. ASSUME Present(want), file[StateDir] = Absent PROVE ToDo("create", StateDir)'
    <2>1. StateDir \in Creates(want)
      BY <1>5, BundleKinds DEF Creates, Observe
    <2> QED
      BY <1>1, <1>5, <2>1, PlannedSteps DEF ToDo
  <1>6. (file[StateDir] = Absent => \A u \in Loggers : file[u] = Absent)'
    BY <1>1 DEF DirHolds, RecoverInv
  <1>7. (ToDo("remove", StateDir) => \A r \in Resource : ~ToDo("create", r) /\ ~ToDo("update", r))'
    BY <1>2, <1>4
  <1> QED
    BY <1>1, <1>3, <1>4, <1>5, <1>6, <1>7 DEF DirHolds

LEMMA ExecuteHolds ==
    ASSUME RecoverInv, NEW s \in tx.todo, Execute(s)
    PROVE  DirHolds'
  <1>0. /\ file \in [Resource -> FileValue] /\ want.cfg \in Configs /\ s \in Step /\ TypeInv
        /\ StateDir \in Resource /\ Loggers \subseteq Resource /\ StateDir \notin Loggers
        /\ DirHolds
    <2>1. tx.phase = "execute"
      BY DEF Execute, Check, Write, DaemonReload, Enable, Disable, Start, CannotStart, Stop,
         RemoveFile, RemoveStateDir, Due
    <2> QED
      BY <2>1, DeclarationFields, ResourceKinds
         DEF RecoverInv, UndoInv, PlanInv, ForeignInv, TypeInv, TypeOK, HostTypeOK, ActiveWant,
         want, Loggers
  <1>1. /\ Proceed(s) => \A op, r : ToDo(op, r)' <=> ToDo(op, r) /\ s # <<op, r>>
        /\ Raise => \A op, r : ~ToDo(op, r)'
    BY <1>0, AfterProceed, AfterRaise DEF ToDo
  <1>2. Proceed(s) \/ Raise
    BY DEF Execute, Check, Write, DaemonReload, Enable, Disable, Start,
       CannotStart, Stop, RemoveFile, RemoveStateDir, Ended, Raises
  <1>3. CASE Write(s)
    <2>1. /\ s = <<s[1], s[2]>> /\ s[1] \in {"create", "update"} /\ s[2] \in Resource
          /\ Due(<<s[1], s[2]>>) /\ ToDo(s[1], s[2])
          /\ file' = [file EXCEPT ![s[2]] = Text(s[2], want.cfg)]
      BY <1>0, <1>3, StepObject DEF Write, FileOp, ToDo
    <2>2. file'[s[2]] # Absent /\ \A r \in Resource : r # s[2] => file'[r] = file[r]
      BY <1>0, <2>1, TextIsFileValue
    <2>3. ASSUME s[2] \in Loggers PROVE file[StateDir] # Absent
      BY <1>0, <2>1, <2>3, DirectoryComesFirst DEF DirHolds
    <2>4. \A r : ~ToDo("remove", r)' \/ (ToDo("remove", r) /\ s # <<"remove", r>>)
      BY <1>1, <1>2
    <2>5. ASSUME NEW u \in Loggers, ToDo("remove", StateDir)'
          PROVE  file'[u] = Absent \/ ToDo("remove", u)'
      <3>1. ToDo("remove", StateDir)
        BY <1>1, <1>2, <2>5
      <3>2. FALSE
        BY <1>0, <2>1, <3>1 DEF DirHolds
      <3> QED
        BY <3>2
    <2> QED
      BY <1>0, <1>1, <1>2, <2>1, <2>2, <2>3, <2>5 DEF DirHolds
  <1>4. CASE RemoveFile(s)
    <2>1. /\ s = <<"remove", s[2]>> /\ s[2] \in Resource \ {StateDir} /\ Due(<<"remove", s[2]>>)
          /\ file' = [file EXCEPT ![s[2]] = Absent]
      BY <1>0, <1>4, StepObject DEF RemoveFile, FileOp
    <2>2. file'[s[2]] = Absent /\ \A r \in Resource : r # s[2] => file'[r] = file[r]
      BY <1>0, <2>1
    <2> QED
      BY <1>0, <1>1, <1>2, <2>1, <2>2 DEF DirHolds
  <1>5. CASE RemoveStateDir(s)
    <2>1. /\ s = <<"remove", StateDir>> /\ Due(<<"remove", StateDir>>) /\ ToDo("remove", StateDir)
          /\ \A r \in Resource \ {StateDir} : file'[r] = file[r]
      BY <1>0, <1>5 DEF RemoveStateDir, ToDo
    <2>2. \A u \in Loggers : file[u] = Absent
      BY <1>0, <2>1, DirectoryGoesLast DEF DirHolds
    <2>3. \A u \in Loggers : file'[u] = Absent /\ ~ToDo("create", u)' /\ ~ToDo("update", u)'
      BY <1>0, <1>1, <1>2, <2>1, <2>2, DueRemoval
    <2>4. ~ToDo("remove", StateDir)'
      BY <1>1, <1>2, <2>1
    <2> QED
      BY <2>3, <2>4 DEF DirHolds
  <1>6. ASSUME ~Write(s), ~RemoveFile(s), ~RemoveStateDir(s)
        PROVE  UNCHANGED file /\ s[1] \notin FileOp
    BY <1>0, <1>6, StepObject DEF Execute, Check, DaemonReload, Enable, Disable, Start,
       CannotStart, Stop, FileOp
  <1>7. ASSUME UNCHANGED file, s[1] \notin FileOp PROVE DirHolds'
    <2>1. \A op \in FileOp : \A r : s # <<op, r>>
      BY <1>7
    <2> QED
      BY <1>0, <1>1, <1>2, <1>7, <2>1 DEF DirHolds, FileOp
  <1> QED
    BY <1>3, <1>4, <1>5, <1>6, <1>7
\* Where the file is gone again, nothing writes its log there.
LEMMA FreshDirectoryGoes ==
    ASSUME RecoverInv, RollbackFiles, pre.file[StateDir] = Absent
    PROVE  file'[StateDir] = Absent \/ "unknown" \in contents'
  <1>0. /\ rb \in RbType /\ contents \subseteq {"runtime", "unknown"}
        /\ Owner \in Resource /\ StateDir \in Resource /\ StateDir # Owner
        /\ tx.phase = "undo-files" /\ tx.phase \in Undoable /\ UndoInv /\ PreMarked
        /\ Loggers \subseteq Service \ {StateDir}
    BY ResourceKinds
       DEF RecoverInv, UndoInv, PlanInv, ForeignInv, TypeInv, TypeOK, HostTypeOK, RbType,
       RollbackFiles, Undoable, Loggers
  <1>1. /\ StateDir \in rb.created <=> rb.newDir
        /\ rb.newDir \/ file[StateDir] = Absent
        /\ ~rb.goneDir /\ ~rb.logs /\ pre.file[Owner] = Absent
    BY <1>0 DEF UndoInv, DirKept
  <1>2. Owner \notin Saved /\ (Owner \notin rb.created => file[Owner] = Absent)
    BY <1>0, <1>1 DEF UndoInv, PlanInv, SavedIsContent, FilesKept, Restored, Saved, BookedOnce
  <1>3. ASSUME NEW u \in Loggers PROVE ~IsActive(u)
    <2>1. pre.file[u] = Absent /\ Restored(u) = Absent
      BY <1>0, ResourceKinds DEF UndoInv, FilesKept, PreMarked
    <2>2. u \in rb.created \/ file[u] = Absent
      BY <1>0, <2>1, ResourceKinds DEF UndoInv, PlanInv, SavedIsContent, Restored
    <2> QED
      BY <1>0, <2>2 DEF RecoverInv, RunningInv, RunningBooked, RunningHasFile, IsActive
  <1>4. /\ contents' = IF rb.newDir THEN contents \ {"runtime"} ELSE contents
        /\ file'[StateDir] =
              IF /\ StateDir \in rb.created /\ contents' = {}
                 /\ Owner \in rb.created \/ file[Owner] = Absent
              THEN Absent ELSE file[StateDir]
    <2>1. ~DirRestored
      BY <1>1, <1>2 DEF DirRestored
    <2>2. \A u \in {Mcp, Tunnel} : ~IsActive(u)
      BY <1>3 DEF Loggers
    <2> DEFINE back == contents \cup (IF rb.logs THEN {"runtime"} ELSE {})
               left == IF rb.newDir THEN (back \ {"runtime"}) \cup {} ELSE back
               gone == rb.created \ (IF rb.newDir /\ "unknown" \in back THEN {Owner} ELSE {})
               ownerLeft == IF Owner \in Saved THEN TRUE
                            ELSE file[Owner] # Absent /\ Owner \notin gone
    <2>3. /\ contents' = left
          /\ file'[StateDir] = IF StateDir \in gone /\ left = {} /\ ~ownerLeft THEN Absent
                               ELSE file[StateDir]
      BY <1>0, <2>1, <2>2 DEF RollbackFiles
    <2>4. back = contents /\ (rb.newDir => left = contents \ {"runtime"})
      BY <1>1
    <2>5. left = {} /\ StateDir \in rb.created => gone = rb.created
      BY <1>1, <2>4
    <2>6. StateDir \in gone <=> StateDir \in rb.created
      BY <1>0
    <2> QED
      BY <1>2, <2>3, <2>4, <2>5, <2>6
  <1> QED
    BY <1>0, <1>1, <1>2, <1>4

LEMMA RestoredIsMarked ==
    ASSUME RecoverInv, RollbackFiles
    PROVE  "unknown" \in contents' \/ Marked'
  <1>1. /\ tx.phase \in Undoable /\ UndoInv /\ PreMarked
    BY DEF RecoverInv, RollbackFiles, Undoable
  <1>2. CASE pre.file[StateDir] = Absent
    BY <1>2, FreshDirectoryGoes DEF Marked
  <1>3. CASE pre.file[Owner] # Absent
    <2>1. file'[Owner] = pre.file[Owner]
      BY <1>1, <1>3, FilesAreRestored
    <2> QED
      BY <1>3, <2>1 DEF Marked
  <1> QED
    BY <1>1, <1>2, <1>3 DEF PreMarked

LEMMA RestoredHolds ==
    ASSUME RecoverInv, RollbackFiles
    PROVE  DirHolds'
  <1>1. /\ tx.phase \in Undoable /\ UndoInv /\ PreMarked /\ tx'.todo = {}
        /\ Loggers \subseteq Resource \ {StateDir, Owner}
    BY ResourceKinds DEF RecoverInv, RollbackFiles, Undoable, UndoInv, PlanInv, ForeignInv,
       OnlyExecuteHasSteps, TypeInv, TypeOK, Move, Loggers
  <1>2. /\ \A u \in Loggers : file'[u] = pre.file[u]
        /\ pre.file[StateDir] # Absent => file'[StateDir] # Absent
    BY <1>1, FilesAreRestored
  <1>3. \A op, r : ~ToDo(op, r)'
    BY <1>1 DEF ToDo
  <1> QED
    BY <1>1, <1>2, <1>3 DEF DirHolds, PreMarked
LEMMA NothingLost ==
    ASSUME "unclean" \notin Hazards, RecoverInv
    PROVE  ~RollbackFilesRaises
  BY DEF RollbackFilesRaises, BackupsLost, RecoverInv, MarkKept

LEMMA NextHolds ==
    ASSUME Hazards \cap {"unclean", "tick", "tamper"} = {}, RecoverInv, [Next]_vars
    PROVE  DirHolds'
  <1>1. PlanInv /\ guardpc = "off" /\ DirHolds
    BY DEF RecoverInv, UndoInv
  <1>2. CASE RecoverOwner
    <2>1. /\ UNCHANGED tx /\ file \in [Resource -> FileValue]
          /\ file' = [file EXCEPT ![Owner] = Text(Owner, want.cfg)]
      BY <1>1, <1>2 DEF RecoverOwner, PlanInv, ForeignInv, TypeInv, TypeOK, HostTypeOK
    <2>2. \A r \in Loggers \cup {StateDir} : file'[r] = file[r]
      BY <2>1, ResourceKinds DEF Loggers
    <2> QED
      BY <1>1, <2>1, <2>2 DEF DirHolds, ToDo
  <1>3. CASE UNCHANGED file /\ (tx'.todo = {} \/ UNCHANGED tx)
    BY <1>1, <1>3 DEF DirHolds, ToDo
  <1> QED
    BY <1>1, <1>2, <1>3, BeginHolds, ExecuteHolds, RestoredHolds, NothingLost, FileMoves

LEMMA NextPreMarked ==
    ASSUME RecoverInv, [Next]_vars
    PROVE  PreMarked'
  <1>1. PlanInv /\ PreMarked
    BY DEF RecoverInv, UndoInv
  <1>2. CASE tx'.phase \in {"idle", "planning"}
    BY <1>2 DEF PreMarked, Undoable, Applying
  <1>3. CASE Begin
    <2>1. pre'.file = file /\ Marked
      BY <1>3, ValidIsMarked DEF Begin
    <2> QED
      BY <2>1 DEF RecoverInv, DirHolds, Marked, PreMarked
  <1>4. CASE UNCHANGED pre /\ tx.phase \in Undoable
    BY <1>1, <1>4 DEF PreMarked
  <1>5. CASE RollbackUnits
    BY <1>4, <1>5 DEF RollbackUnits, notUndo, Undoable, Applying
  <1>6. CASE RollbackFiles \/ RollbackFilesRaises
    <2>1. tx'.phase = "undo-reload"
      BY <1>1, <1>6 DEF RollbackFiles, RollbackFilesRaises, Move, PlanInv, ForeignInv,
         TypeInv, TypeOK
    <2> QED
      BY <2>1 DEF PreMarked, Undoable, Applying
  <1>7. CASE Outside
    <2>1. UNCHANGED <<tx, pre>>
      BY <1>7 DEF Outside, Operator, Update, Command, Redeclare, notOperator, vars, RecoverOwner,
         Guard, GuardBegins, GuardObserves, GuardRestarts, GuardEnds, notGuard, Tamper,
         DropUnknown
    <2> QED
      BY <1>1, <2>1 DEF PreMarked
  <1> QED
    BY <1>1, <1>2, <1>3, <1>4, <1>5, <1>6, <1>7, Phases DEF Undoable

\* Only the last journal write fails with the backups already gone.
LEMMA BackupsAreKept ==
    ASSUME "record" \notin Hazards, TypeOK, ~rb.discarded, [Next]_vars
    PROVE  ~rb'.discarded
  <1>0. rb \in RbType
    BY DEF TypeOK, RbType
  <1>1. CASE \E s \in tx.todo : Execute(s)
    BY <1>0, <1>1 DEF Execute, Check, Write, DaemonReload, Enable, Disable, Start, CannotStart,
       Stop, RemoveFile, RemoveStateDir, Booked, StartBooked, RbType
  <1>2. ~FinishRaises
    BY DEF FinishRaises, Raises
  <1>3. ASSUME Begin \/ Finish \/ Kill \/ Reboot \/ RollbackFiles \/ RollbackFilesRaises
        PROVE  rb' = NoUndo
    BY <1>3 DEF Begin, Finish, Kill, Reboot, RollbackFiles, RollbackFilesRaises
  <1>4. ASSUME (\E req \in {"plain", "forced"} : Lock(req)) \/ Refuse \/ RecoverOwner
                 \/ FailsEarly \/ Executed \/ Qualify \/ FinalPlan \/ FinalPlanGuard
                 \/ WriteApplied \/ RollbackUnits \/ RollbackReload
                 \/ Operator \/ DropUnknown \/ UNCHANGED vars
                 \/ Guard \/ (\E r \in Resource : Tamper(r))
        PROVE  UNCHANGED rb
    BY <1>4 DEF Lock, Refuse, RecoverOwner, FailsEarly, Executed, Qualify, FinalPlan,
       FinalPlanGuard, WriteApplied, RollbackUnits, RollbackReload, notPhase,
       Operator, Update, Command, Redeclare, notOperator, vars, DropUnknown,
       Guard, GuardBegins, GuardObserves, GuardRestarts, GuardEnds, notGuard, Tamper
  <1> QED
    BY <1>1, <1>2, <1>3, <1>4 DEF Next, Worker, Environment, NoUndo

LEMMA NextMarkKept ==
    ASSUME Hazards \cap {"unclean", "record", "tick", "tamper"} = {}, RecoverInv, [Next]_vars
    PROVE  MarkKept'
  <1>0. /\ PlanInv /\ MarkKept /\ JournalOpen /\ tx \in TxType /\ file \in [Resource -> FileValue]
        /\ want.cfg \in Configs \/ tx.phase = "idle"
    BY DeclarationFields
       DEF RecoverInv, UndoInv, PlanInv, ForeignInv, TypeInv, TypeOK, HostTypeOK, TxType,
       ActiveWant, want
  <1>1. ~Guard /\ ~(\E r \in Resource : Tamper(r))
    BY DEF RecoverInv, UndoInv, Guard, GuardBegins, GuardObserves, GuardRestarts, GuardEnds, Tamper
  <1>2. ASSUME Outside
        PROVE  /\ UNCHANGED <<tx, journal>> /\ contents \subseteq contents'
               /\ UNCHANGED file \/ RecoverOwner
    BY <1>1, <1>2 DEF Outside, Operator, Update, Command, Redeclare, notOperator, vars, hostVars,
       RecoverOwner, DropUnknown
  <1>3. ASSUME RecoverOwner PROVE Marked' /\ tx.phase = "planning"
    <2>1. tx.phase = "planning" /\ file' = [file EXCEPT ![Owner] = Text(Owner, want.cfg)]
      BY <1>3 DEF RecoverOwner
    <2>2. file'[Owner] # Absent
      BY <1>0, <2>1, ResourceKinds, TextIsFileValue
    <2> QED
      BY <2>1, <2>2 DEF Marked
  <1>5. ~rb'.discarded
    BY <1>0, BackupsAreKept DEF MarkKept, PlanInv, ForeignInv, TypeInv
  <1> DEFINE Over == tx.phase = "undo-reload"
                       \/ (tx.phase \in {"idle", "planning"} /\ journal.status = "failed")
  <1>6. ASSUME Over' PROVE ("unknown" \in contents \/ Marked)'
    <2>1. CASE RollbackFiles
      BY <2>1, RestoredIsMarked
    <2>2. ~RollbackFilesRaises
      BY NothingLost
    <2>3. CASE Over /\ UNCHANGED <<file, contents>>
      BY <1>0, <2>3 DEF MarkKept, Marked
    <2>4. CASE RollbackReload
      BY <2>3, <2>4 DEF RollbackReload
    <2>5. ~Finish
      BY <1>6 DEF Finish, NoTx
    <2>6. CASE Kill \/ Reboot
      <3>1. UNCHANGED <<file, contents, journal>> /\ tx'.phase = "idle"
        BY <2>6 DEF Kill, Reboot, hostVars, NoTx
      <3>2. tx.phase \in {"idle", "planning"}
        BY <1>0, <1>6, <3>1 DEF JournalOpen, Undoable, Applying, TxType, Phase
      <3> QED
        BY <1>6, <2>3, <3>1, <3>2
    <2>7. CASE Refuse \/ (\E req \in {"plain", "forced"} : Lock(req))
      <3>1. UNCHANGED <<file, contents, journal>> /\ tx.phase \in {"idle", "planning"}
            /\ tx'.phase \in {"idle", "planning"}
        <4>1. CASE Refuse
          BY <4>1 DEF Refuse, hostVars, NoTx
        <4>2. CASE \E req \in {"plain", "forced"} : Lock(req)
          BY <4>2 DEF Lock, Idle, hostVars, NoTx
        <4> QED
          BY <2>7, <4>1, <4>2
      <3> QED
        BY <1>6, <2>3, <3>1
    <2>8. CASE Outside
      <3>1. Over
        BY <1>2, <1>6, <2>8
      <3> QED
        BY <1>0, <1>2, <1>3, <2>8, <3>1 DEF MarkKept, Marked
    <2>9. CASE Begin \/ RollbackUnits \/ InTransaction
      <3>1. tx'.phase \notin {"idle", "planning", "undo-reload"}
        <4>1. CASE Begin \/ RollbackUnits
          BY <1>0, <4>1 DEF Begin, RollbackUnits, Move, TxType
        <4>2. CASE InTransaction
          <5>1. CASE \E s \in tx.todo : Execute(s)
            <6> PICK s \in tx.todo : Execute(s)
              BY <5>1
            <6>1. tx.phase = "execute" /\ (Proceed(s) \/ Raise)
              BY DEF Execute, Check, Write, DaemonReload, Enable, Disable, Start,
                 CannotStart, Stop, RemoveFile, RemoveStateDir, Due, Ended, Raises
            <6> QED
              BY <1>0, <6>1, AfterProceed, AfterRaise DEF PlanInv, ForeignInv, TypeInv, TypeOK
          <5>2. CASE ~(\E s \in tx.todo : Execute(s))
            BY <1>0, <4>2, <5>2 DEF InTransaction, FailsEarly, Executed, Qualify, FinalPlan,
               FinalPlanGuard, WriteApplied, FinishRaises, Move, Raises, Raise, TxType
          <5> QED
            BY <5>1, <5>2
        <4> QED
          BY <2>9, <4>1, <4>2
      <3> QED
        BY <1>6, <3>1
    <2> QED
      BY <2>1, <2>2, <2>4, <2>5, <2>6, <2>7, <2>8, <2>9
         DEF Next, Worker, Environment, Outside, InTransaction
  <1> QED
    BY <1>5, <1>6 DEF MarkKept

LEMMA InitRecover == Init => RecoverInv
  <1>1. Init => DirHolds /\ PreMarked /\ MarkKept
    BY ResourceKinds DEF Init, NoTx, NoUndo, DirHolds, ToDo, Loggers, PreMarked, MarkKept,
       Undoable, Applying
  <1> QED
    BY <1>1, InitUndo, InitRunning DEF RecoverInv

\* A failed apply, the first or a later one, never leaves a state directory
\* that the next apply takes for somebody else's: the rollback takes it away
\* again, or gives its marker back, or the transaction was so far that the
\* marker was there and stays.  It needs what FailedAppliesAreUndone needs,
\* and that neither undoing nor the last journal write of a transaction fails:
\* after a removal, the rollback that follows makes the directory anew and
\* then misses the marker's backup.
THEOREM FailedAppliesAreRecoverable ==
    ASSUME Hazards \cap {"unclean", "timeout", "record", "tick", "tamper"} = {}
    PROVE  Spec => []FailedApplyRecoverable
  <1>1. Init => RecoverInv
    BY InitRecover
  <1>2. RecoverInv /\ [Next]_vars => RecoverInv'
    BY NextUndo, NextRunning, NextHolds, NextPreMarked, NextMarkKept DEF RecoverInv
  <1>3. RecoverInv => FailedApplyRecoverable
    <2> SUFFICES ASSUME RecoverInv, Idle, journal.status = "failed", "unknown" \notin contents,
                        \A r \in Resource : file[r] # Foreign
                 PROVE  ~FileConflict(desired)
      BY DEF FailedApplyRecoverable
    <2>1. Marked
      BY DEF RecoverInv, MarkKept, Idle
    <2>2. \A r \in Resource : Observe(r, desired) # "foreign"
      BY <2>1, ResourceKinds DEF Observe, Marked
    <2> QED
      BY <2>2, BundleKinds DEF FileConflict
  <1> QED
    BY <1>1, <1>2, <1>3, PTL DEF Spec
(***************************************************************************)
(* A removal that succeeds leaves nothing behind.                          *)
(***************************************************************************)
ContentsInDir == file[StateDir] = Absent => contents = {}

\* The guard's units are installed only where the evidence lists them; so an
\* apply whose declaration has none knows which to remove.
Listed(files, d) ==
    \A r \in GuardResource : files[r] # Absent => d # None /\ Present(d) /\ r \in Bundle(d)
WritesWanted ==
    \A r \in Resource : ToDo("create", r) \/ ToDo("update", r) => Present(want) /\ r \in Bundle(want)
Ending == {"final-guard", "evidence", "commit"}
GuardsListed ==
    /\ tx.phase \in {"idle", "planning", "undo-reload"} => Listed(file, applied)
    /\ tx.phase \in Undoable \ {"commit"} => Listed(pre.file, applied)
    /\ tx.phase \in Undoable =>
          \A r \in GuardResource : file[r] # Absent =>
              pre.file[r] # Absent \/ (Present(want) /\ r \in Bundle(want))
    /\ tx.phase \in Ending =>
          /\ Listed(file, want)
          /\ ~Present(want) => \A r \in Resource : file[r] = Absent
    /\ tx.phase = "commit" => applied = want

RemovalInv ==
    /\ RecoverInv /\ EnabledInv
    /\ ContentsInDir /\ WritesWanted /\ GuardsListed
LEMMA NextContents ==
    ASSUME Hazards \cap {"unclean", "tick", "tamper"} = {}, RecoverInv, ContentsInDir, [Next]_vars
    PROVE  ContentsInDir'
  <1> SUFFICES ASSUME file'[StateDir] = Absent PROVE contents' = {}
    BY DEF ContentsInDir
  <1>0. /\ PlanInv /\ TypeInv /\ tx.todo \subseteq Step /\ file \in [Resource -> FileValue]
        /\ guardpc = "off" /\ StateDir \in Resource /\ Owner # StateDir /\ rb \in RbType
        /\ tx.phase # "idle" => want.cfg \in Configs
    BY ResourceKinds, DeclarationFields
       DEF RecoverInv, UndoInv, PlanInv, ForeignInv, TypeInv, TypeOK, HostTypeOK, RbType,
       ActiveWant, want
  <1>1. CASE UNCHANGED <<file, contents>>
    BY <1>1 DEF ContentsInDir
  <1>2. CASE \E s \in tx.todo : Execute(s)
    <2> PICK s \in tx.todo : Execute(s)
      BY <1>2
    <2>1. CASE Write(s)
      <3>1. s[2] \in Resource /\ file' = [file EXCEPT ![s[2]] = Text(s[2], want.cfg)]
            /\ want.cfg \in Configs /\ UNCHANGED contents
        BY <1>0, <2>1, StepObject DEF Write, Due, FileOp
      <3>2. Text(s[2], want.cfg) # Absent
        BY <3>1, TextIsFileValue
      <3>3. file[StateDir] = Absent
        BY <1>0, <3>1, <3>2
      <3> QED
        BY <3>1, <3>3 DEF ContentsInDir
    <2>2. CASE Start(s)
      BY <2>2 DEF Start, WithLog, ContentsInDir
    <2>3. CASE RemoveFile(s)
      BY <1>0, <2>3, StepObject DEF RemoveFile, FileOp, ContentsInDir
    <2>4. CASE RemoveStateDir(s)
      BY <1>0, <2>4 DEF RemoveStateDir, ContentsInDir
    <2> QED
      BY <1>1, <2>1, <2>2, <2>3, <2>4
         DEF Execute, Check, DaemonReload, Enable, Disable, CannotStart, Stop
  <1>3. CASE RollbackFiles
    <2> DEFINE back == contents \cup (IF rb.logs THEN {"runtime"} ELSE {})
               left(relog) ==
                  IF rb.newDir
                  THEN (back \ {"runtime"}) \cup (IF relog THEN {"runtime"} ELSE {})
                  ELSE back
    <2>1. PICK relog \in IF \E u \in {Mcp, Tunnel} : IsActive(u) THEN BOOLEAN ELSE {FALSE} :
            /\ contents' = left(relog)
            /\ \/ left(relog) = {}
               \/ file'[StateDir] = IF DirRestored THEN Text(StateDir, want.cfg)
                                    ELSE file[StateDir]
      BY <1>0, <1>3 DEF RollbackFiles
    <2>2. Text(StateDir, want.cfg) # Absent
      BY <1>0, <1>3, TextIsFileValue DEF RollbackFiles
    <2>3. CASE ~DirRestored /\ file[StateDir] = Absent
      <3>1. contents = {} /\ ~rb.logs
        BY <2>3 DEF ContentsInDir, DirRestored
      <3>2. \A u \in {Mcp, Tunnel} : ~IsActive(u)
        BY <2>3, ResourceKinds
           DEF RecoverInv, DirHolds, Loggers, RunningInv, RunningHasFile, IsActive
      <3> QED
        BY <2>1, <3>1, <3>2
    <2> QED
      BY <2>1, <2>2, <2>3
  <1>4. CASE RecoverOwner
    BY <1>0, <1>4 DEF RecoverOwner, ContentsInDir
  <1>5. CASE DropUnknown
    BY <1>5 DEF DropUnknown
  <1>6. ~Guard /\ ~(\E r \in Resource : Tamper(r))
    BY <1>0 DEF Guard, GuardBegins, GuardObserves, GuardRestarts, GuardEnds, Tamper
  <1>7. ASSUME Operator \/ Kill \/ Reboot \/ UNCHANGED vars PROVE UNCHANGED <<file, contents>>
    BY <1>7 DEF Operator, Update, Command, Redeclare, notOperator, vars, hostVars, Kill, Reboot
  <1>8. ASSUME (\E req \in {"plain", "forced"} : Lock(req)) \/ Begin \/ Refuse
                 \/ FailsEarly \/ Executed \/ Qualify \/ FinalPlan \/ FinalPlanGuard
                 \/ WriteApplied \/ Finish \/ FinishRaises
                 \/ RollbackUnits \/ RollbackReload
        PROVE  UNCHANGED <<file, contents>>
    BY <1>8 DEF Lock, Begin, Refuse, FailsEarly, Executed, Qualify, FinalPlan, FinalPlanGuard,
       WriteApplied, Finish, FinishRaises, RollbackUnits, RollbackReload,
       hostVars, notHost, notPhase
  <1> QED
    BY <1>1, <1>2, <1>3, <1>4, <1>5, <1>6, <1>7, <1>8, NothingLost DEF Next, Worker, Environment

LEMMA NextWrites ==
    ASSUME PlanInv, WritesWanted, [Next]_vars
    PROVE  WritesWanted'
  <1>0. TypeInv /\ tx \in TxType
    BY DEF PlanInv, ForeignInv, TypeInv, TypeOK, TxType
  <1>1. CASE Begin
    <2>1. tx'.todo = PlanSteps(want, tx.force) /\ want' = want
      BY <1>0, <1>1 DEF Begin, TxType, want
    <2>2. \A r : r \in Creates(want) \cup Updates(want) => Present(want) /\ r \in Bundle(want)
      BY DEF Creates, Updates
    <2>3. ASSUME NEW r, ToDo("create", r)' \/ ToDo("update", r)'
          PROVE  Present(want) /\ r \in Creates(want) \cup Updates(want)
      BY <2>1, <2>3, PlannedSteps DEF ToDo
    <2> QED
      BY <2>1, <2>2, <2>3 DEF WritesWanted
  <1>2. CASE \E s \in tx.todo : Execute(s) /\ Proceed(s)
    <2> PICK s \in tx.todo : Proceed(s)
      BY <1>2
    <2>1. tx'.todo \subseteq tx.todo /\ want' = want
      BY <1>0 DEF Proceed, TxType, want
    <2> QED
      BY <2>1 DEF WritesWanted, ToDo
  <1>3. CASE UNCHANGED tx \/ tx'.todo = {}
    BY <1>3 DEF WritesWanted, ToDo, want
  <1> QED
    BY <1>1, <1>2, <1>3, StepsGo

\* The final plan finds nothing left to remove: what else is there would be
\* listed by the evidence the transaction began with, and so be stale.
LEMMA FinalPlanIsComplete ==
    ASSUME PlanInv, GuardsListed, tx.phase = "final",
           PlanValid(want), Removes(want) = {}
    PROVE  /\ Listed(file, want)
           /\ ~Present(want) => \A r \in Resource : file[r] = Absent
  <1>0. /\ Listed(pre.file, applied)
        /\ \A r \in GuardResource : file[r] # Absent =>
              pre.file[r] # Absent \/ (Present(want) /\ r \in Bundle(want))
        /\ want # None
    BY NoneIsNoDeclaration DEF GuardsListed, Undoable, Applying,
       PlanInv, ForeignInv, TypeInv, ActiveWant, want, ValidDeclaration
  <1>1. ASSUME NEW r \in GuardResource, file[r] # Absent PROVE r \in Bundle(want)
    <2> SUFFICES ASSUME r \notin Bundle(want) PROVE FALSE
      OBVIOUS
    <2>1. applied # None /\ Present(applied) /\ r \in Bundle(applied)
      BY <1>0, <1>1 DEF Listed
    <2>2. r \in Stale(want)
      BY <1>1, <2>1 DEF Stale
    <2> QED
      BY <2>2 DEF Removes
  <1>2. ASSUME ~Present(want), NEW r \in Bundle(want) PROVE file[r] = Absent
    <2>1. Observe(r, want) \notin {"exact", "different"}
      BY <1>2 DEF Removes
    <2>2. Observe(r, want) # "foreign"
      BY DEF PlanValid, Conflict, FileConflict
    <2> QED
      BY <2>1, <2>2 DEF Observe
  <1>3. \A r \in Resource : r \in Bundle(want) \/ r \in GuardResource
    BY DEF Bundle
  <1>4. ASSUME ~Present(want), NEW r \in Resource PROVE file[r] = Absent
    BY <1>1, <1>2, <1>3, <1>4
  <1>5. \A r \in GuardResource : r \in Resource
    BY ResourceKinds
  <1> QED
    BY <1>0, <1>1, <1>4, <1>5 DEF Listed
LEMMA ExecuteListed ==
    ASSUME UndoInv, WritesWanted, GuardsListed, NEW s \in tx.todo, Execute(s)
    PROVE  GuardsListed'
  <1>0. /\ TypeInv /\ tx \in TxType /\ s \in Step /\ file \in [Resource -> FileValue]
        /\ GuardResource \subseteq Resource \ {StateDir}
    BY ResourceKinds
       DEF UndoInv, PlanInv, ForeignInv, TypeInv, TypeOK, HostTypeOK, TxType
  <1>1. /\ tx.phase = "execute" /\ (Proceed(s) \/ Raise) /\ UNCHANGED <<pre, applied>>
    BY DEF Execute, Check, Write, DaemonReload, Enable, Disable, Start,
       CannotStart, Stop, RemoveFile, RemoveStateDir, Due, Ended, Raises, notStep
  <1>2. tx'.phase \in {"execute", "undo-units"} /\ want' = want
    BY <1>0, <1>1 DEF Proceed, Raise, TxType, want
  <1>3. ASSUME NEW r \in GuardResource, file'[r] # Absent
        PROVE  file[r] # Absent \/ (Present(want) /\ r \in Bundle(want))
    <2>1. CASE Write(s)
      <3>1. s = <<s[1], s[2]>> /\ s[1] \in {"create", "update"} /\ s[2] \in Resource
            /\ file' = [file EXCEPT ![s[2]] = Text(s[2], want.cfg)]
        BY <1>0, <2>1, StepObject DEF Write, FileOp
      <3>2. r = s[2] => ToDo("create", r) \/ ToDo("update", r)
        BY <3>1 DEF ToDo
      <3> QED
        BY <1>0, <1>3, <3>1, <3>2 DEF WritesWanted
    <2>2. CASE RemoveFile(s)
      BY <1>0, <1>3, <2>2 DEF RemoveFile
    <2>3. CASE RemoveStateDir(s)
      BY <1>0, <1>3, <2>3 DEF RemoveStateDir
    <2>4. ASSUME ~Write(s), ~RemoveFile(s), ~RemoveStateDir(s) PROVE UNCHANGED file
      BY <2>4 DEF Execute, Check, DaemonReload, Enable, Disable, Start, CannotStart, Stop
    <2> QED
      BY <1>3, <2>1, <2>2, <2>3, <2>4
  <1>4. tx.phase \in Undoable /\ tx'.phase \in Undoable /\ tx'.phase \notin Ending
    BY <1>1, <1>2 DEF Undoable, Applying, Ending
  <1>5. (/\ Listed(pre.file, applied)
         /\ \A r \in GuardResource : file[r] # Absent =>
               pre.file[r] # Absent \/ (Present(want) /\ r \in Bundle(want)))'
    <2>1. tx.phase # "commit"
      BY <1>1
    <2> QED
      BY <1>1, <1>2, <1>3, <1>4, <2>1 DEF GuardsListed, Listed
  <1> QED
    BY <1>2, <1>4, <1>5 DEF GuardsListed, Ending

LEMMA EndingListed ==
    ASSUME "record" \notin Hazards, PlanInv, GuardsListed,
           FailsEarly \/ Executed \/ Qualify \/ FinalPlan \/ FinalPlanGuard \/ WriteApplied
             \/ RollbackUnits
    PROVE  GuardsListed'
  <1>0. TypeInv /\ tx \in TxType
    BY DEF PlanInv, ForeignInv, TypeInv, TypeOK, TxType
  <1>1. /\ UNCHANGED <<file, pre>> /\ want' = want
        /\ tx.phase \in Undoable /\ tx'.phase \in Undoable
    BY <1>0 DEF FailsEarly, Executed, Qualify, FinalPlan, FinalPlanGuard, WriteApplied,
       RollbackUnits, Move, Raises, Raise, notPhase, notStep, notUndo, hostVars, TxType, want,
       Undoable, Applying
  <1>2. ASSUME tx'.phase \in Ending
        PROVE  \/ FinalPlan /\ PlanValid(want) /\ Removes(want) = {} /\ tx.phase = "final"
               \/ tx.phase \in Ending
    BY <1>0, <1>2 DEF FailsEarly, Executed, Qualify, FinalPlan, FinalPlanGuard, WriteApplied,
       RollbackUnits, Move, Raises, Raise, TxType, Ending
  <1>3. ASSUME tx'.phase \in Ending
        PROVE  /\ Listed(file, want)
               /\ ~Present(want) => \A r \in Resource : file[r] = Absent
    BY <1>2, <1>3, FinalPlanIsComplete DEF GuardsListed
  <1>4. ASSUME tx'.phase = "commit" PROVE applied' = want
    BY <1>0, <1>4 DEF FailsEarly, Executed, Qualify, FinalPlan, FinalPlanGuard, WriteApplied,
       RollbackUnits, Move, Raises, Raise, TxType
  <1>5. tx'.phase \notin {"idle", "planning", "undo-reload"}
    BY <1>1 DEF Undoable, Applying
  <1>6. ASSUME tx'.phase # "commit" PROVE UNCHANGED applied /\ tx.phase # "commit"
    BY <1>0, <1>6 DEF FailsEarly, Executed, Qualify, FinalPlan, FinalPlanGuard, WriteApplied,
       RollbackUnits, Move, Raises, notPhase, notStep, notUndo, hostVars, TxType
  <1> QED
    BY <1>1, <1>3, <1>4, <1>5, <1>6 DEF GuardsListed, Listed

LEMMA OverListed ==
    ASSUME PlanInv, GuardsListed, tx.phase \in {"idle", "planning", "undo-reload"},
           tx'.phase \in {"idle", "planning", "undo-reload"},
           UNCHANGED applied, \A r \in GuardResource : file'[r] = file[r]
    PROVE  GuardsListed'
  BY DEF GuardsListed, Listed, Undoable, Applying, Ending

LEMMA NextListed ==
    ASSUME Hazards \subseteq {"fault", "unknown"}, RemovalInv, [Next]_vars
    PROVE  GuardsListed'
  <1>0. /\ UndoInv /\ PlanInv /\ TypeInv /\ tx \in TxType /\ GuardsListed
        /\ WritesWanted /\ file \in [Resource -> FileValue] /\ guardpc = "off"
        /\ GuardResource \subseteq Resource \ {StateDir, Owner}
    BY ResourceKinds
       DEF RemovalInv, RecoverInv, UndoInv, PlanInv, ForeignInv, TypeInv, TypeOK, HostTypeOK, TxType
  <1>1. CASE \E s \in tx.todo : Execute(s)
    BY <1>0, <1>1, ExecuteListed
  <1>2. CASE FailsEarly \/ Executed \/ Qualify \/ FinalPlan \/ FinalPlanGuard \/ WriteApplied
               \/ RollbackUnits
    BY <1>0, <1>2, EndingListed
  <1>3. CASE Finish
    <2>1. tx'.phase = "idle" /\ UNCHANGED <<file, applied>> /\ Listed(file, applied)
      BY <1>0, <1>3 DEF Finish, NoTx, hostVars, GuardsListed, Ending
    <2> QED
      BY <2>1 DEF GuardsListed, Listed, Undoable, Applying, Ending
  <1>4. CASE RollbackFiles
    <2>1. tx'.phase = "undo-reload" /\ UNCHANGED applied /\ tx.phase = "undo-files"
      BY <1>0, <1>4 DEF RollbackFiles, Move, notUndo, TxType
    <2>2. Listed(pre.file, applied)
      BY <1>0, <2>1 DEF GuardsListed, Undoable
    <2>3. \A r \in GuardResource : file'[r] = pre.file[r]
      BY <1>0, <1>4, FilesAreRestored
    <2> QED
      BY <2>1, <2>2, <2>3 DEF GuardsListed, Listed, Undoable, Applying, Ending
  <1>5. ~RollbackFilesRaises /\ ~FinishRaises /\ ~Kill /\ ~Reboot /\ ~Guard
        /\ ~(\E r \in Resource : Tamper(r))
    BY <1>0, NothingLost DEF RemovalInv, FinishRaises, Raises, Kill, Reboot,
       Guard, GuardBegins, GuardObserves, GuardRestarts, GuardEnds, Tamper
  <1>6. CASE RollbackReload \/ Refuse
    <2>1. /\ tx.phase \in {"idle", "planning", "undo-reload"} /\ tx'.phase = "idle"
          /\ UNCHANGED <<file, applied>>
      BY <1>6 DEF RollbackReload, Refuse, NoTx, hostVars
    <2> QED
      BY <1>0, <2>1, OverListed
  <1>7. CASE \E req \in {"plain", "forced"} : Lock(req)
    <2>1. tx.phase = "idle" /\ tx'.phase = "planning" /\ UNCHANGED <<file, applied>>
      BY <1>7 DEF Lock, Idle, NoTx, hostVars
    <2> QED
      BY <1>0, <2>1, OverListed
  <1>8. CASE RecoverOwner
    <2>1. /\ tx.phase = "planning" /\ UNCHANGED <<tx, applied>>
          /\ file' = [file EXCEPT ![Owner] = Text(Owner, want.cfg)]
      BY <1>8 DEF RecoverOwner
    <2>2. \A r \in GuardResource : file'[r] = file[r]
      BY <1>0, <2>1
    <2> QED
      BY <1>0, <2>1, <2>2, OverListed
  <1>9. CASE Begin
    <2>1. /\ tx.phase = "planning" /\ tx'.phase = "execute" /\ UNCHANGED file
          /\ pre'.file = file /\ UNCHANGED applied
      BY <1>0, <1>9 DEF Begin, notHost, TxType
    <2> QED
      BY <1>0, <2>1 DEF GuardsListed, Listed, Undoable, Applying, Ending
  <1>10. CASE Operator \/ DropUnknown \/ UNCHANGED vars
    <2>1. UNCHANGED <<tx, pre, applied, file>>
      BY <1>10 DEF Operator, Update, Command, Redeclare, notOperator, DropUnknown, vars, hostVars
    <2> QED
      BY <1>0, <2>1 DEF GuardsListed, Listed, want
  <1> QED
    BY <1>1, <1>2, <1>3, <1>4, <1>5, <1>6, <1>7, <1>8, <1>9, <1>10 DEF Next, Worker, Environment

LEMMA NextRemoval ==
    ASSUME Hazards \subseteq {"fault", "unknown"}, RemovalInv, [Next]_vars
    PROVE  RemovalInv'
  <1>1. Hazards \cap {"unclean", "timeout", "tick", "tamper", "record"} = {}
    OBVIOUS
  <1>2. RecoverInv'
    BY <1>1, NextUndo, NextRunning, NextHolds, NextPreMarked, NextMarkKept
       DEF RemovalInv, RecoverInv
  <1>4. WritesWanted'
    BY NextWrites DEF RemovalInv, RecoverInv, UndoInv
  <1>5. EnabledInv'
    BY <1>1, NextEnabled DEF RemovalInv
  <1>6. ContentsInDir'
    BY <1>1, NextContents DEF RemovalInv
  <1> QED
    BY <1>2, <1>4, <1>5, <1>6, NextListed DEF RemovalInv

LEMMA InitRemoval == Init => RemovalInv
  <1>1. Init => ContentsInDir /\ WritesWanted
    BY DEF Init, NoTx, ContentsInDir, WritesWanted, ToDo
  <1>2. Init => GuardsListed
    BY ResourceKinds DEF Init, NoTx, GuardsListed, Listed, Undoable, Applying, Ending
  <1> QED
    BY <1>1, <1>2, InitRecover, InitEnabled DEF RemovalInv

\* A removal that succeeds leaves no file, enablement or process behind, and an
\* empty state directory goes: its final plan finds nothing more to remove, and
\* no guard unit is there that the evidence does not list, because every earlier
\* apply succeeded and listed what it installed or failed and was undone.
\* A worker that dies, or a journal that fails, breaks that chain, see the README.
THEOREM RemovalsAreComplete ==
    ASSUME Hazards \subseteq {"fault", "unknown"}
    PROVE  Spec => RemovedLeavesNothing
  <1>1. Init => RemovalInv
    BY InitRemoval
  <1>2. RemovalInv /\ [Next]_vars => RemovalInv'
    BY NextRemoval
  <1> DEFINE Gone ==
        EndsApplied /\ ~Present(want) =>
            /\ \A r \in Resource : file[r] = Absent
            /\ enabled = {} /\ contents = {}
            /\ \A u \in Service : running[u] = None
  <1>3. RemovalInv /\ [Next]_vars => [Gone]_vars
    <2> SUFFICES ASSUME RemovalInv, EndsApplied, ~Present(want) PROVE Gone
      OBVIOUS
    <2>1. \A r \in Resource : file[r] = Absent
      BY DEF EndsApplied, RemovalInv, GuardsListed, Ending
    <2>2. enabled \subseteq Resource /\ Service \subseteq Resource /\ StateDir \in Resource
      BY ResourceKinds DEF RemovalInv, EnabledInv, PlanInv, ForeignInv, TypeInv, TypeOK, HostTypeOK
    <2>3. enabled = {} /\ contents = {}
      BY <2>1, <2>2 DEF RemovalInv, EnabledInv, EnabledHasFile, ContentsInDir
    <2>4. \A u \in Service : running[u] = None
      BY <2>1, <2>2 DEF RemovalInv, RecoverInv, RunningInv, RunningHasFile
    <2> QED
      BY <2>1, <2>3, <2>4
  <1> QED
    BY <1>1, <1>2, <1>3, PTL DEF Spec, RemovedLeavesNothing
(***************************************************************************)
(* The instance's first apply, while the guard acts.  The guard writes     *)
(* into the state directory, and makes it anew, without a lock and whoever *)
(* is at work; so FailedApplyRecoverable does not hold.  But nothing of    *)
(* the guard runs before a transaction has made the directory and its      *)
(* marker, and if that one fails its journal proves that they are ours.    *)
(***************************************************************************)
MarkerPair == {StateDir, Owner}

\* The next apply is not blocked, and never will be for want of a marker.
Settled == failedFirst \/ applied # None \/ "unknown" \in contents

Quiet == contents = {} /\ guardpc = "off" /\ \A u \in Service : running[u] = None
Untouched == Quiet /\ \A r \in MarkerPair : file[r] = Absent
NothingSaved == ~rb.goneDir /\ ~rb.logs /\ ~rb.discarded /\ rb.text[Owner] = None
PairBooked == \A r \in MarkerPair : file[r] # Absent => r \in rb.created

\* a removal of what was never there
Vain ==
    /\ tx.phase \notin {"idle", "planning"} /\ ~Present(want)
    /\ Untouched /\ NothingSaved
    /\ \A s \in tx.todo :
        s[1] \in {"check", "stop", "disable", "remove", "reload-removed"} /\ s[2] \notin MarkerPair
\* the first apply, before both are there
Making ==
    /\ tx.phase = "execute" /\ Present(want)
    /\ Quiet /\ NothingSaved
    /\ \A r \in MarkerPair : r \in tx.made \/ ToDo("create", r)
    /\ ~ToDo("check", "host") /\ ~ToDo("update", Owner)
    /\ "fault" \in Hazards => PairBooked
\* its rollback, when an operation raised by then
Unmaking ==
    /\ tx.phase \in {"undo-units", "undo-files"} /\ "fault" \in Hazards
    /\ Quiet /\ NothingSaved /\ PairBooked
Made == tx.phase \notin {"idle", "planning"} /\ tx.made = MarkerPair

CommitIsEvident == tx.phase = "commit" => applied # None
FirstInv ==
    /\ CommitIsEvident
    /\ \/ Settled \/ Made \/ Vain \/ Making \/ Unmaking
       \/ tx.phase \in {"idle", "planning", "undo-reload"} /\ Untouched
LEMMA LockPlans == ASSUME NEW req, Lock(req) PROVE tx'.phase = "planning"
  BY DEF Lock, NoTx

LEMMA NextCommitIsEvident ==
    ASSUME PlanInv, CommitIsEvident, [Next]_vars
    PROVE  CommitIsEvident'
  <1>0. TypeInv /\ tx \in TxType
    BY DEF PlanInv, ForeignInv, TypeInv, TypeOK, TxType
  <1>1. CASE \E s \in tx.todo : Execute(s)
    <2> PICK s \in tx.todo : Execute(s)
      BY <1>1
    <2>1. tx.phase = "execute" /\ (Proceed(s) \/ Raise)
      BY DEF Execute, Check, Write, DaemonReload, Enable, Disable, Start,
         CannotStart, Stop, RemoveFile, RemoveStateDir, Due, Ended, Raises
    <2> QED
      BY <1>0, <2>1, AfterProceed, AfterRaise DEF CommitIsEvident
  <1>2. CASE FailsEarly \/ Executed \/ Qualify \/ FinalPlan \/ FinalPlanGuard \/ FinishRaises
             \/ RollbackUnits \/ RollbackFiles \/ RollbackFilesRaises
    <2>1. tx'.phase # "commit"
      BY <1>0, <1>2 DEF FailsEarly, Executed, Qualify, FinalPlan, FinalPlanGuard, FinishRaises,
         RollbackUnits, RollbackFiles, RollbackFilesRaises, Move, Raises, Raise, TxType
    <2> QED
      BY <2>1 DEF CommitIsEvident
  <1>3. CASE WriteApplied
    <2>1. want # None
      BY <1>0, <1>3, NoneIsNoDeclaration DEF WriteApplied, TypeInv, ActiveWant, want, ValidDeclaration
    <2> QED
      BY <1>0, <1>3, <2>1 DEF WriteApplied, Move, Raises, Raise, TxType, CommitIsEvident
  <1>4. CASE tx'.phase \in {"idle", "planning"}
    BY <1>4 DEF CommitIsEvident
  <1>5. CASE Begin
    BY <1>0, <1>5 DEF Begin, TxType, CommitIsEvident
  <1>6. CASE Outside
    BY <1>6 DEF Outside, Operator, Update, Command, Redeclare, notOperator, vars, hostVars,
       RecoverOwner, Guard, GuardBegins, GuardObserves, GuardRestarts, GuardEnds, notGuard,
       Tamper, DropUnknown, CommitIsEvident
  <1>7. CASE Kill \/ Reboot \/ Refuse \/ Finish \/ RollbackReload \/ \E req \in {"plain", "forced"} : Lock(req)
    <2>1. CASE tx' = NoTx
      BY <1>4, <2>1 DEF NoTx
    <2>2. CASE \E req \in {"plain", "forced"} : Lock(req)
      BY <1>4, <2>2, LockPlans
    <2> QED
      BY <1>7, <2>1, <2>2 DEF Kill, Reboot, Refuse, Finish, RollbackReload
  <1> QED
    BY <1>1, <1>2, <1>3, <1>5, <1>6, <1>7 DEF Next, Worker, Environment, Outside

\* What settles an instance stays.
LEMMA SettledStays ==
    ASSUME PlanInv, Settled, [Next]_vars
    PROVE  Settled'
  <1>0. TypeInv
    BY DEF PlanInv, ForeignInv
  <1>1. failedFirst => failedFirst'
    <2>1. CASE \E s \in tx.todo : Execute(s)
      BY <2>1 DEF Execute, Check, Write, DaemonReload, Enable, Disable, Start,
         CannotStart, Stop, RemoveFile, RemoveStateDir, notStep
    <2>2. CASE RollbackReload
      BY <2>2 DEF RollbackReload
    <2> QED
      BY <2>1, <2>2 DEF Next, Worker, Lock, RecoverOwner, Begin, Refuse, FailsEarly, Executed, Qualify, FinalPlan,
         FinalPlanGuard, WriteApplied, Finish, FinishRaises, RollbackUnits, RollbackFiles, RollbackFilesRaises,
         notStep, notPhase, notUndo, Environment, Kill, Reboot, Tamper, DropUnknown, Operator, Update, Command,
         Redeclare, notOperator, Guard, GuardBegins, GuardObserves, GuardRestarts, GuardEnds, notGuard, vars
  <1>2. applied # None => applied' # None
    <2>1. CASE \E s \in tx.todo : Execute(s)
      BY <2>1 DEF Execute, Check, Write, DaemonReload, Enable, Disable, Start,
         CannotStart, Stop, RemoveFile, RemoveStateDir, notStep
    <2>2. CASE WriteApplied
      BY <1>0, <2>2, NoneIsNoDeclaration
         DEF WriteApplied, TypeInv, ActiveWant, want, ValidDeclaration
    <2> QED
      BY <2>1, <2>2 DEF Next, Worker, Lock, RecoverOwner, Begin, Refuse, FailsEarly, Executed, Qualify, FinalPlan,
         FinalPlanGuard, Finish, FinishRaises, RollbackUnits, RollbackFiles, RollbackFilesRaises, RollbackReload,
         notStep, notPhase, notUndo, Environment, Kill, Reboot, Tamper, DropUnknown, Operator, Update, Command,
         Redeclare, notOperator, Guard, GuardBegins, GuardObserves, GuardRestarts, GuardEnds, notGuard, vars
  <1>3. "unknown" \in contents => "unknown" \in contents'
    <2> SUFFICES ASSUME "unknown" \in contents PROVE "unknown" \in contents'
      OBVIOUS
    <2>1. CASE \E s \in tx.todo : Execute(s)
      BY <2>1 DEF Execute, Check, Write, DaemonReload, Enable, Disable, Start,
         CannotStart, Stop, RemoveFile, RemoveStateDir, WithLog
    <2>2. CASE RollbackFiles
      BY <2>2 DEF RollbackFiles
    <2>3. CASE Guard
      BY <2>3 DEF Guard, GuardBegins, GuardObserves, GuardRestarts, GuardEnds, GuardWrites, WithLog
    <2> QED
      BY <2>1, <2>2, <2>3 DEF Next, Worker, Lock, RecoverOwner, Begin, Refuse, FailsEarly, Executed, Qualify,
         FinalPlan, FinalPlanGuard, WriteApplied, Finish, FinishRaises, RollbackUnits, RollbackFilesRaises, RollbackReload,
         notStep, notPhase, notUndo, notHost, hostVars, Environment, Kill, Reboot, Tamper, DropUnknown, Operator, Update, Command,
         Redeclare, notOperator, vars
  <1> QED
    BY <1>1, <1>2, <1>3 DEF Settled
(* Each lemma below is about one part of FirstInv, for an instance that is *)
(* not settled.                                                            *)

\* What happens outside the transaction disturbs nothing as long as no timer
\* runs: somebody may still replace a file, or leave one behind.
LEMMA QuietOutside ==
    ASSUME Quiet, ~Settled, Outside
    PROVE  \/ Settled'
           \/ /\ UNCHANGED <<tx, rb, contents, guardpc, running>>
              /\ \/ UNCHANGED file
                 \/ /\ "tamper" \in Hazards
                    /\ file'[StateDir] = file[StateDir]
                    /\ file[StateDir] = Absent => file'[Owner] = file[Owner]
  <1>1. ~Guard
    BY ResourceKinds DEF Quiet, Guard, GuardBegins, GuardObserves, GuardRestarts, GuardEnds, IsActive, Service, Timer, GuardSvc
  <1>2. ~RecoverOwner
    BY DEF RecoverOwner, Recoverable, Settled
  <1>3. CASE DropUnknown
    BY <1>3 DEF DropUnknown, Settled
  <1>4. CASE Operator \/ UNCHANGED vars
    BY <1>4 DEF Operator, Update, Command, Redeclare, notOperator, vars, hostVars
  <1>5. ASSUME NEW r \in Resource, Tamper(r)
        PROVE  /\ UNCHANGED <<tx, rb, contents, guardpc, running>> /\ "tamper" \in Hazards
               /\ file'[StateDir] = file[StateDir]
               /\ file[StateDir] = Absent => file'[Owner] = file[Owner]
    BY <1>5, ResourceKinds DEF Tamper
  <1> QED
    BY <1>1, <1>2, <1>3, <1>4, <1>5 DEF Outside

LEMMA QuietStops == ASSUME Quiet, NEW S PROVE \A u \in Service : AfterStop(S)[u] = None
  BY DEF Quiet, AfterStop

\* Once a transaction has made both, it fails with the proof of it or ends
\* with the evidence of success.
LEMMA MadeStays ==
    ASSUME Hazards \cap {"kill", "reboot"} = {}, PlanInv, CommitIsEvident, Made, ~Settled, [Next]_vars
    PROVE  Made' \/ Settled'
  <1>0. TypeInv /\ tx \in TxType /\ tx.made = MarkerPair /\ tx.phase \notin {"idle", "planning"}
    BY DEF PlanInv, ForeignInv, TypeInv, TypeOK, TxType, Made
  <1>1. CASE \E s \in tx.todo : Execute(s)
    <2> PICK s \in tx.todo : Execute(s)
      BY <1>1
    <2>1. tx.phase = "execute" /\ (Proceed(s) \/ Raise)
      BY DEF Execute, Check, Write, DaemonReload, Enable, Disable, Start,
         CannotStart, Stop, RemoveFile, RemoveStateDir, Due, Ended, Raises
    <2>2. tx'.phase \in {"execute", "undo-units"}
      BY <1>0, <2>1, AfterProceed, AfterRaise
    <2>3. tx'.made = tx.made \/ \E r \in MarkerPair : tx'.made = tx.made \cup {r}
      BY <1>0, <2>1 DEF Proceed, Raise, TxType, MarkerPair
    <2> QED
      BY <1>0, <2>2, <2>3 DEF Made
  <1>2. CASE FailsEarly \/ Executed \/ Qualify \/ FinalPlan \/ FinalPlanGuard \/ WriteApplied \/ FinishRaises
             \/ RollbackUnits \/ RollbackFiles \/ RollbackFilesRaises
    <2>1. (\E p \in Phase \ {"idle", "planning"} : Move(p)) \/ Raise
      BY <1>2 DEF FailsEarly, Executed, Qualify, FinalPlan, FinalPlanGuard, WriteApplied, FinishRaises,
         RollbackUnits, RollbackFiles, RollbackFilesRaises, Raises, Phase, Move
    <2> QED
      BY <1>0, <2>1 DEF Move, Raise, TxType, Made
  <1>3. CASE RollbackReload
    BY <1>0, <1>3 DEF RollbackReload, Settled, MarkerPair
  <1>4. ~Finish
    BY DEF Finish, CommitIsEvident, Settled
  <1>5. ~(Begin \/ Refuse \/ \E req \in {"plain", "forced"} : Lock(req))
    BY <1>0 DEF Begin, Refuse, Lock, Idle
  <1>6. CASE Outside
    <2>1. tx' = tx
      BY <1>6 DEF Outside, Operator, Update, Command, Redeclare, notOperator, vars, RecoverOwner, Guard,
         GuardBegins, GuardObserves, GuardRestarts, GuardEnds, notGuard, Tamper, DropUnknown
    <2> QED
      BY <1>0, <2>1 DEF Made
  <1>7. ~Kill /\ ~Reboot
    BY DEF Kill, Reboot
  <1> QED
    BY <1>1, <1>2, <1>3, <1>4, <1>5, <1>6, <1>7 DEF Next, Worker, Environment, Outside

\* A transaction begins on an untouched host by making both, or has nothing
\* to remove.
LEMMA UntouchedBegins ==
    ASSUME PlanInv, Untouched, ~Settled, Begin
    PROVE  Vain' \/ Making'
  <1>0. TypeInv /\ tx \in TxType /\ applied = None
    BY DEF PlanInv, ForeignInv, TypeInv, TypeOK, TxType, Settled
  <1>1. /\ tx'.phase = "execute" /\ tx'.todo = PlanSteps(want, tx.force) /\ want' = want
        /\ rb' = NoUndo /\ UNCHANGED <<file, contents, guardpc, running>>
    BY <1>0 DEF Begin, TxType, want, notHost
  <1>2. Untouched' /\ Quiet' /\ NothingSaved' /\ PairBooked'
    BY <1>1, ResourceKinds DEF Untouched, Quiet, NothingSaved, NoUndo, PairBooked
  <1>3. Stale(want) = {}
    BY <1>0 DEF Stale
  <1>4. \A r \in MarkerPair : Observe(r, want) = "absent"
    BY DEF Untouched, Observe
  <1>5. CASE Present(want)
    <2>1. \A r \in MarkerPair : r \in Creates(want) /\ r \notin Updates(want)
      BY <1>4, <1>5, BundleKinds DEF Creates, Updates, MarkerPair
    <2>2. \A r \in MarkerPair : ToDo("create", r)' /\ ~ToDo("update", r)'
      BY <1>1, <1>5, <2>1, PlannedSteps DEF ToDo
    <2>3. ~ToDo("check", "host")'
      BY <1>1, <1>5 DEF ToDo, PlanSteps, PresentSteps, StopPass, On, If
    <2> QED
      BY <1>1, <1>2, <1>5, <2>2, <2>3 DEF Making, MarkerPair, Present
  <1>6. CASE ~Present(want)
    <2>1. \A r \in MarkerPair : r \notin Removes(want) /\ r \notin Stops(want) /\ r \notin Disables(want)
      BY <1>3, <1>4, ResourceKinds DEF Removes, Stops, Disables, BundleUnits, MarkerPair
    <2>2. \A s \in tx'.todo :
            s[1] \in {"check", "stop", "disable", "remove", "reload-removed"} /\ s[2] \notin MarkerPair
      BY <1>1, <1>6, <2>1 DEF PlanSteps, AbsentSteps, On, If, MarkerPair, StateDir, Owner
    <2> QED
      BY <1>1, <1>2, <1>6, <2>2 DEF Vain, Present
  <1> QED
    BY <1>5, <1>6

LEMMA UntouchedStays ==
    ASSUME Hazards \cap {"kill", "reboot"} = {}, PlanInv,
           tx.phase \in {"idle", "planning", "undo-reload"}, Untouched, ~Settled, [Next]_vars
    PROVE  \/ Settled' \/ Vain' \/ Making'
           \/ tx'.phase \in {"idle", "planning", "undo-reload"} /\ Untouched'
  <1>1. CASE Begin
    BY <1>1, UntouchedBegins
  <1>2. CASE Refuse \/ RollbackReload \/ \E req \in {"plain", "forced"} : Lock(req)
    <2>1. tx'.phase \in {"idle", "planning"}
      <3>1. NoTx.phase = "idle"
        BY DEF NoTx
      <3> QED
        BY <1>2, <3>1, LockPlans DEF Refuse, RollbackReload
    <2>2. UNCHANGED <<file, contents, guardpc, running>>
      BY <1>2 DEF Refuse, RollbackReload, Lock, hostVars
    <2> QED
      BY <2>1, <2>2 DEF Untouched, Quiet
  <1>3. CASE Outside
    <2>1. Quiet
      BY DEF Untouched
    <2>2. CASE /\ UNCHANGED <<tx, rb, contents, guardpc, running>>
               /\ file'[StateDir] = file[StateDir]
               /\ file[StateDir] = Absent => file'[Owner] = file[Owner]
      BY <2>2 DEF Untouched, Quiet, MarkerPair
    <2> QED
      BY <1>3, <2>1, <2>2, QuietOutside
  <1>4. ~(\E s \in tx.todo : Execute(s)) /\ ~Kill /\ ~Reboot
    BY DEF Execute, Check, Write, DaemonReload, Enable, Disable, Start,
       CannotStart, Stop, RemoveFile, RemoveStateDir, Due, Kill, Reboot
  <1>5. ~(FailsEarly \/ Executed \/ Qualify \/ FinalPlan \/ FinalPlanGuard \/ WriteApplied \/ Finish
            \/ FinishRaises \/ RollbackUnits \/ RollbackFiles \/ RollbackFilesRaises)
    BY DEF FailsEarly, Executed, Qualify, FinalPlan, FinalPlanGuard, WriteApplied, Finish, FinishRaises,
       RollbackUnits, RollbackFiles, RollbackFilesRaises
  <1> QED
    BY <1>1, <1>2, <1>3, <1>4, <1>5 DEF Next, Worker, Environment, Outside
\* A rollback of which nothing has been started leaves no trace of the two.
LEMMA QuietRollback ==
    ASSUME PlanInv, Quiet, NothingSaved, PairBooked, RollbackFiles
    PROVE  Untouched' /\ tx'.phase = "undo-reload"
  <1>0. TypeInv /\ tx \in TxType /\ file \in [Resource -> FileValue]
    BY DEF PlanInv, ForeignInv, TypeInv, TypeOK, HostTypeOK, TxType
  <1>1. ~\E u \in {Mcp, Tunnel} : IsActive(u)
    BY ResourceKinds DEF Quiet, IsActive
  <1>2. Owner \notin Saved /\ ~DirRestored
    BY DEF NothingSaved, Saved, DirRestored
  <1>3. /\ contents' = {} /\ UNCHANGED <<guardpc, running>>
    BY <1>1 DEF RollbackFiles, Quiet, NothingSaved
  <1>4. file'[Owner] = Absent
    BY <1>2, ResourceKinds DEF RollbackFiles, Quiet, NothingSaved, PairBooked, MarkerPair
  <1>5. file'[StateDir] = Absent
    <2>1. CASE file[StateDir] = Absent
      BY <1>2, <2>1, ResourceKinds DEF RollbackFiles
    <2>2. CASE StateDir \in rb.created
      <3>1. file[Owner] = Absent \/ Owner \in rb.created
        BY DEF PairBooked, MarkerPair
      <3> QED
        BY <1>1, <1>2, <2>2, <3>1, ResourceKinds DEF RollbackFiles, Quiet, NothingSaved
    <2> QED
      BY <2>1, <2>2 DEF PairBooked, MarkerPair
  <1>6. tx'.phase = "undo-reload"
    BY <1>0 DEF RollbackFiles, Move, TxType
  <1> QED
    BY <1>3, <1>4, <1>5, <1>6 DEF Untouched, Quiet, MarkerPair

LEMMA VainStays ==
    ASSUME Hazards \cap {"kill", "reboot"} = {}, PlanInv, CommitIsEvident, Vain, ~Settled, [Next]_vars
    PROVE  \/ Settled' \/ Vain'
           \/ tx'.phase = "undo-reload" /\ Untouched'
           \/ tx'.phase = "idle" /\ Untouched'
  <1>0. /\ TypeInv /\ tx \in TxType /\ tx.phase \notin {"idle", "planning", "commit"}
        /\ rb \in RbType /\ tx.todo \subseteq Step
    BY DEF PlanInv, ForeignInv, TypeInv, TypeOK, TxType, RbType, Vain, CommitIsEvident, Settled
  <1>1. Quiet /\ NothingSaved /\ PairBooked
    BY DEF Vain, Untouched, PairBooked
  <1>2. ASSUME tx'.phase \notin {"idle", "planning"}, tx'.want = tx.want, tx'.todo \subseteq tx.todo,
               UNCHANGED <<contents, guardpc, running>>, \A r \in MarkerPair : file'[r] = file[r],
               NothingSaved'
        PROVE  Vain'
    <2>1. Present(want)' <=> Present(want)
      BY <1>2 DEF Present, want
    <2>2. Untouched'
      BY <1>2 DEF Vain, Untouched, Quiet
    <2> QED
      BY <1>2, <2>1, <2>2 DEF Vain
  <1>3. CASE \E s \in tx.todo : Execute(s)
    <2> PICK s \in tx.todo : Execute(s)
      BY <1>3
    <2>0. /\ s[1] \in {"check", "stop", "disable", "remove", "reload-removed"}
          /\ s[2] \notin MarkerPair /\ s \in Step
      BY <1>0 DEF Vain
    <2>1. tx.phase = "execute" /\ (Proceed(s) \/ Raise)
      BY DEF Execute, Check, Write, DaemonReload, Enable, Disable, Start,
         CannotStart, Stop, RemoveFile, RemoveStateDir, Due, Ended, Raises
    <2>2. tx'.phase \notin {"idle", "planning"} /\ tx'.want = tx.want /\ tx'.todo \subseteq tx.todo
      <3>1. CASE Proceed(s)
        BY <1>0, <2>1, <3>1 DEF Proceed, TxType
      <3>2. CASE Raise
        BY <1>0, <3>2 DEF Raise, TxType
      <3> QED
        BY <2>1, <3>1, <3>2
    <2>3. CASE Stop(s)
      <3>1. running' = running
        <4>1. \A u \in Service : running'[u] = running[u]
          BY <1>1, <2>3, QuietStops DEF Stop, Quiet
        <4> QED
          BY <1>0, <2>3, <4>1 DEF Stop, AfterStop, TypeInv, TypeOK, HostTypeOK
      <3>2. guardpc' = guardpc
        BY <1>1, <2>3 DEF Stop, Quiet
      <3> QED
        BY <1>1, <1>2, <2>2, <2>3, <3>1, <3>2 DEF Stop, NothingSaved
    <2>4. CASE RemoveFile(s)
      <3>1. s[2] \in Resource
        BY <2>0, <2>4, StepObject DEF RemoveFile, FileOp
      <3>2. \A r \in MarkerPair : file'[r] = file[r]
        BY <1>0, <2>0, <2>4 DEF RemoveFile, TypeInv, TypeOK, HostTypeOK
      <3>3. NothingSaved'
        BY <1>0, <1>1, <2>0, <2>4, <3>1 DEF RemoveFile, NothingSaved, RbType, MarkerPair
      <3> QED
        BY <1>2, <2>2, <2>4, <3>2, <3>3 DEF RemoveFile
    <2>5. CASE Check(s) \/ DaemonReload(s) \/ Disable(s)
      BY <1>1, <1>2, <2>2, <2>5 DEF Check, DaemonReload, Disable, NothingSaved
    <2>6. ~(Write(s) \/ Enable(s) \/ Start(s) \/ CannotStart(s) \/ RemoveStateDir(s))
      BY <2>0 DEF Write, Enable, Start, CannotStart, RemoveStateDir, MarkerPair
    <2> QED
      BY <2>3, <2>4, <2>5, <2>6 DEF Execute
  <1>4. CASE FailsEarly \/ Executed \/ Qualify \/ FinalPlan \/ FinalPlanGuard
    <2>1. (\E p \in {"qualify", "final", "final-guard", "evidence"} : Move(p)) \/ Raise
      BY <1>4 DEF FailsEarly, Executed, Qualify, FinalPlan, FinalPlanGuard, Raises, Move
    <2>2. tx'.phase \notin {"idle", "planning"} /\ tx'.want = tx.want /\ tx'.todo \subseteq tx.todo
      BY <1>0, <2>1 DEF Move, Raise, TxType
    <2>3. UNCHANGED <<contents, guardpc, running, file, rb>>
      BY <1>4 DEF FailsEarly, Executed, Qualify, FinalPlan, FinalPlanGuard, notPhase, hostVars
    <2> QED
      BY <1>1, <1>2, <2>2, <2>3 DEF NothingSaved
  <1>5. CASE WriteApplied
    <2>1. want # None
      BY <1>0, NoneIsNoDeclaration DEF TypeInv, ActiveWant, want, ValidDeclaration
    <2>2. CASE applied' = want
      BY <2>1, <2>2 DEF Settled
    <2>3. CASE Raises("fault")
      <3>1. tx'.phase \notin {"idle", "planning"} /\ tx'.want = tx.want /\ tx'.todo \subseteq tx.todo
        BY <1>0, <2>3 DEF Raises, Raise, TxType
      <3> QED
        BY <1>1, <1>2, <1>5, <3>1 DEF WriteApplied, hostVars, NothingSaved
    <2> QED
      BY <1>5, <2>2, <2>3 DEF WriteApplied
  <1>6. CASE RollbackUnits
    <2>1. PICK S : running' = AfterStop(S)
      BY <1>6 DEF RollbackUnits
    <2>2. running' = running
      <3>1. \A u \in Service : running'[u] = running[u]
        BY <1>1, <2>1, QuietStops DEF Quiet
      <3> QED
        BY <1>0, <2>1, <3>1 DEF AfterStop, TypeInv, TypeOK, HostTypeOK
    <2>3. tx'.phase \notin {"idle", "planning"} /\ tx'.want = tx.want /\ tx'.todo = tx.todo
      BY <1>0, <1>6 DEF RollbackUnits, Move, TxType
    <2> QED
      BY <1>1, <1>2, <1>6, <2>2, <2>3 DEF RollbackUnits, NothingSaved
  <1>7. CASE RollbackFiles
    BY <1>1, <1>7, QuietRollback
  <1>8. CASE RollbackFilesRaises
    <2>1. tx'.phase = "undo-reload" /\ UNCHANGED <<guardpc, running>>
      BY <1>0, <1>8 DEF RollbackFilesRaises, Move, TxType
    <2>2. Owner \notin Saved /\ ~rb.logs
      BY <1>1 DEF NothingSaved, Saved
    <2>3. UNCHANGED contents /\ file'[StateDir] = file[StateDir] /\ file'[Owner] = file[Owner]
      BY <1>8, <2>2, ResourceKinds DEF RollbackFilesRaises
    <2> QED
      BY <1>1, <2>1, <2>3 DEF Vain, Untouched, Quiet, MarkerPair
  <1>9. CASE RollbackReload
    <2>1. tx'.phase = "idle" /\ UNCHANGED <<file, contents, guardpc, running>>
      BY <1>9 DEF RollbackReload, NoTx
    <2> QED
      BY <2>1 DEF Vain, Untouched, Quiet
  <1>10. CASE Outside
    <2>1. CASE /\ UNCHANGED <<tx, rb, contents, guardpc, running>>
               /\ file'[StateDir] = file[StateDir]
               /\ file[StateDir] = Absent => file'[Owner] = file[Owner]
      BY <1>1, <1>2, <2>1 DEF Vain, Untouched, NothingSaved, MarkerPair
    <2> QED
      BY <1>1, <1>10, <2>1, QuietOutside
  <1>11. ~(Begin \/ Refuse \/ Finish \/ FinishRaises \/ \E req \in {"plain", "forced"} : Lock(req))
    BY <1>0 DEF Begin, Refuse, Finish, FinishRaises, Lock, Idle
  <1>12. ~Kill /\ ~Reboot
    BY DEF Kill, Reboot
  <1> QED
    BY <1>3, <1>4, <1>5, <1>6, <1>7, <1>8, <1>9, <1>10, <1>11, <1>12 DEF Next, Worker, Environment, Outside
\* Until both are made nothing else is due but stops and writes.
LEMMA DueWhileMaking ==
    ASSUME Making, ~Made, tx.made \subseteq MarkerPair, NEW s \in Step, Due(s)
    PROVE  s[1] \in {"stop", "create", "update"}
  <1>1. PICK r \in MarkerPair : ToDo("create", r)
    BY DEF Making, Made
  <1>2. s = <<s[1], s[2]>> /\ s[1] \in HostOp \cup FileOp \cup UnitOp
        /\ (s[1] = "check" => s[2] = "host")
    BY DEF Step, HostOp, FileOp, UnitOp
  <1>3. OpRank(s[1]) \in 1..12
    BY <1>2, OpRanks DEF HostOp, FileOp, UnitOp
  <1>4. OpRank(s[1]) <= OpRank("create")
    BY <1>1, <1>2, <1>3, DueComesFirst, OpRanks
  <1>5. s[1] \in {"check", "stop", "create", "update"}
    BY <1>2, <1>4, OpRanks DEF HostOp, FileOp, UnitOp
  <1>6. s[1] # "check"
    BY <1>2 DEF Making, ToDo, Due
  <1> QED
    BY <1>5, <1>6

LEMMA MakingStays ==
    ASSUME Hazards \cap {"kill", "reboot"} = {}, "fault" \in Hazards => "tamper" \notin Hazards,
           PlanInv, Making, ~Made, ~Settled, [Next]_vars
    PROVE  Settled' \/ Making' \/ Made' \/ Unmaking'
  <1>0. /\ TypeInv /\ tx \in TxType /\ rb \in RbType /\ tx.todo \subseteq Step
        /\ tx.made \subseteq MarkerPair /\ file \in [Resource -> FileValue]
        /\ running \in [Service -> Process \cup {None}] /\ tx.phase = "execute"
    BY DEF PlanInv, ForeignInv, TypeInv, TypeOK, HostTypeOK, TxType, RbType, Making, MarkerPair
  <1>1. Quiet /\ NothingSaved /\ Present(want)
    BY DEF Making
  <1>2. ASSUME Raise, "fault" \in Hazards, Quiet', NothingSaved', PairBooked' PROVE Unmaking'
    BY <1>0, <1>2, AfterRaise DEF Unmaking
  <1>3. ASSUME NEW s \in tx.todo, Proceed(s), Quiet', NothingSaved', "fault" \in Hazards => PairBooked'
        PROVE  Making'
    <2>1. tx'.want = tx.want /\ tx'.phase = "execute"
      BY <1>0, <1>3 DEF Proceed, TxType
    <2>2. ASSUME NEW r \in MarkerPair PROVE r \in tx'.made \/ ToDo("create", r)'
      <3>1. CASE s = <<"create", r>>
        BY <1>0, <1>3, <3>1 DEF Proceed, TxType, MarkerPair
      <3>2. CASE s # <<"create", r>> /\ ToDo("create", r)
        BY <1>0, <1>3, <3>2, AfterProceed
      <3>3. CASE r \in tx.made
        BY <1>0, <1>3, <3>3 DEF Proceed, TxType
      <3> QED
        BY <3>1, <3>2, <3>3 DEF Making
    <2>3. ~ToDo("check", "host")' /\ ~ToDo("update", Owner)'
      BY <1>0, <1>3, AfterProceed DEF Making
    <2> QED
      BY <1>1, <1>3, <2>1, <2>2, <2>3 DEF Making, Present, want
  <1>4. CASE \E s \in tx.todo : Execute(s)
    <2> PICK s \in tx.todo : Execute(s)
      BY <1>4
    <2>1. s \in Step /\ s[1] \in {"stop", "create", "update"} /\ s = <<s[1], s[2]>>
      <3>1. Due(s)
        BY DEF Execute, Check, Write, DaemonReload, Enable, Disable, Start,
           CannotStart, Stop, RemoveFile, RemoveStateDir
      <3> QED
        BY <1>0, <3>1, DueWhileMaking, StepObject
    <2>2. CASE Stop(s)
      <3>1. Quiet'
        BY <1>1, <2>2, QuietStops DEF Stop, Quiet
      <3>2. NothingSaved' /\ ("fault" \in Hazards => PairBooked')
        BY <1>1, <2>2 DEF Stop, NothingSaved, PairBooked, Making
      <3> QED
        BY <1>2, <1>3, <2>2, <3>1, <3>2 DEF Stop, Ended, Raises
    <2>3. CASE Write(s)
      <3>1. s[2] \in Resource /\ rb' = Booked(s) /\ UNCHANGED <<contents, guardpc, running>>
            /\ file' = [file EXCEPT ![s[2]] = Text(s[2], want.cfg)]
        BY <2>1, <2>3, StepObject DEF Write, FileOp
      <3>2. Quiet'
        BY <1>1, <3>1 DEF Quiet
      <3>3. ~(s[1] = "update" /\ s[2] = Owner)
        BY <2>1 DEF Making, ToDo
      <3>4. /\ rb'.goneDir = rb.goneDir /\ rb'.logs = rb.logs /\ rb'.discarded = rb.discarded
            /\ rb'.text[Owner] = rb.text[Owner]
            /\ \A r \in MarkerPair : r \in rb.created => r \in rb'.created
            /\ file[s[2]] = Absent => s[2] \in rb'.created
        BY <1>0, <3>1, <3>3, ResourceKinds DEF Booked, RbType
      <3>5. NothingSaved'
        BY <1>1, <3>4 DEF NothingSaved
      <3>6. "fault" \in Hazards => PairBooked'
        <4> SUFFICES ASSUME "fault" \in Hazards, NEW r \in MarkerPair, file'[r] # Absent
                     PROVE  r \in rb'.created
          BY DEF PairBooked
        <4>1. file[r] # Absent => r \in rb.created
          BY DEF Making, PairBooked
        <4>2. r = s[2] \/ file'[r] = file[r]
          BY <1>0, <3>1
        <4> QED
          BY <3>4, <4>1, <4>2
      <3> QED
        BY <1>2, <1>3, <2>3, <3>2, <3>5, <3>6 DEF Write, Ended, Raises
    <2>4. ~(Check(s) \/ DaemonReload(s) \/ Enable(s) \/ Disable(s) \/ Start(s) \/ CannotStart(s)
              \/ RemoveFile(s) \/ RemoveStateDir(s))
      BY <2>1 DEF Check, DaemonReload, Enable, Disable, Start, CannotStart, RemoveFile, RemoveStateDir
    <2> QED
      BY <2>2, <2>3, <2>4 DEF Execute
  <1>5. CASE FailsEarly
    <2>1. Raise /\ "fault" \in Hazards /\ UNCHANGED <<file, contents, running, guardpc, rb>>
      BY <1>5 DEF FailsEarly, Raises
    <2>2. Quiet' /\ NothingSaved' /\ PairBooked'
      BY <1>1, <2>1 DEF Quiet, NothingSaved, PairBooked, Making
    <2> QED
      BY <1>2, <2>1, <2>2
  <1>6. ~Executed
    BY <1>0 DEF Executed, Making, Made, ToDo
  <1>7. ~(Begin \/ Refuse \/ Qualify \/ FinalPlan \/ FinalPlanGuard \/ WriteApplied \/ Finish \/ FinishRaises
            \/ RollbackUnits \/ RollbackFiles \/ RollbackFilesRaises \/ RollbackReload
            \/ \E req \in {"plain", "forced"} : Lock(req))
    BY <1>0 DEF Begin, Refuse, Qualify, FinalPlan, FinalPlanGuard, WriteApplied, Finish, FinishRaises,
       RollbackUnits, RollbackFiles, RollbackFilesRaises, RollbackReload, Lock, Idle
  <1>8. CASE Outside
    <2>1. CASE /\ UNCHANGED <<tx, rb, contents, guardpc, running>>
               /\ UNCHANGED file \/ "tamper" \in Hazards
      <3>1. Quiet' /\ NothingSaved' /\ ("fault" \in Hazards => PairBooked')
        BY <1>1, <2>1 DEF Quiet, NothingSaved, PairBooked, Making
      <3> QED
        BY <2>1, <3>1 DEF Making, ToDo, Present, want
    <2> QED
      BY <1>1, <1>8, <2>1, QuietOutside
  <1>9. ~Kill /\ ~Reboot
    BY DEF Kill, Reboot
  <1> QED
    BY <1>4, <1>5, <1>6, <1>7, <1>8, <1>9 DEF Next, Worker, Environment, Outside

LEMMA UnmakingStays ==
    ASSUME Hazards \cap {"kill", "reboot", "unclean", "tamper"} = {},
           PlanInv, Unmaking, ~Settled, [Next]_vars
    PROVE  Settled' \/ Unmaking' \/ (tx'.phase = "undo-reload" /\ Untouched')
  <1>0. /\ TypeInv /\ tx \in TxType /\ tx.phase \in {"undo-units", "undo-files"}
        /\ running \in [Service -> Process \cup {None}]
    BY DEF PlanInv, ForeignInv, TypeInv, TypeOK, HostTypeOK, TxType, Unmaking
  <1>1. Quiet /\ NothingSaved /\ PairBooked /\ "fault" \in Hazards
    BY DEF Unmaking
  <1>2. CASE RollbackUnits
    <2>1. PICK S : running' = AfterStop(S)
      BY <1>2 DEF RollbackUnits
    <2>2. Quiet'
      BY <1>1, <1>2, <2>1, QuietStops DEF RollbackUnits, Quiet
    <2>3. tx'.phase = "undo-files"
      BY <1>0, <1>2 DEF RollbackUnits, Move, TxType
    <2> QED
      BY <1>1, <1>2, <2>2, <2>3 DEF RollbackUnits, NothingSaved, PairBooked, Unmaking
  <1>3. CASE RollbackFiles
    BY <1>1, <1>3, QuietRollback
  <1>4. ~RollbackFilesRaises
    BY <1>1 DEF RollbackFilesRaises, BackupsLost, NothingSaved
  <1>5. CASE Outside
    <2>1. CASE UNCHANGED <<tx, rb, contents, guardpc, running, file>>
      BY <2>1 DEF Unmaking, Quiet, NothingSaved, PairBooked
    <2> QED
      BY <1>1, <1>5, <2>1, QuietOutside
  <1>6. ~(\E s \in tx.todo : Execute(s)) /\ ~Kill /\ ~Reboot
    BY <1>0 DEF Execute, Check, Write, DaemonReload, Enable, Disable, Start,
       CannotStart, Stop, RemoveFile, RemoveStateDir, Due, Kill, Reboot
  <1>7. ~(Begin \/ Refuse \/ FailsEarly \/ Executed \/ Qualify \/ FinalPlan \/ FinalPlanGuard \/ WriteApplied
            \/ Finish \/ FinishRaises \/ RollbackReload \/ \E req \in {"plain", "forced"} : Lock(req))
    BY <1>0 DEF Begin, Refuse, FailsEarly, Executed, Qualify, FinalPlan, FinalPlanGuard, WriteApplied,
       Finish, FinishRaises, RollbackReload, Lock, Idle
  <1> QED
    BY <1>2, <1>3, <1>4, <1>5, <1>6, <1>7 DEF Next, Worker, Environment, Outside

LEMMA InitFirst == Init => FirstInv
  BY ResourceKinds DEF Init, NoTx, FirstInv, CommitIsEvident, Untouched, Quiet, MarkerPair

\* What a failed first apply leaves behind never blocks the next one, though
\* the guard writes into the state directory, undo steps raise and systemctl
\* gives up: unless the worker or the host dies in between, or the apply
\* raises between the directory and its marker and cannot be undone.  It is
\* proved without operations that raise or without files that are replaced.
THEOREM FirstAppliesAreRecoverable ==
    ASSUME Hazards \cap {"kill", "reboot"} = {},
           "fault" \in Hazards => Hazards \cap {"unclean", "tamper"} = {}
    PROVE  Spec => []FirstApplyRecoverable
  <1> DEFINE Inv == PlanInv /\ FirstInv
  <1>1. Init => Inv
    BY InitPlan, InitFirst
  <1>2. Inv /\ [Next]_vars => Inv'
    <2> SUFFICES ASSUME PlanInv, FirstInv, [Next]_vars PROVE Inv'
      OBVIOUS
    <2>1. PlanInv' /\ CommitIsEvident'
      BY NextPlan, NextCommitIsEvident DEF FirstInv
    <2>2. CASE Settled
      BY <2>1, <2>2, SettledStays DEF FirstInv
    <2>3. CASE Made /\ ~Settled
      BY <2>1, <2>3, MadeStays DEF FirstInv
    <2>4. CASE Vain /\ ~Settled
      BY <2>1, <2>4, VainStays DEF FirstInv
    <2>5. CASE Making /\ ~Made /\ ~Settled
      BY <2>1, <2>5, MakingStays DEF FirstInv
    <2>6. CASE Unmaking /\ ~Settled
      BY <2>1, <2>6, UnmakingStays DEF FirstInv, Unmaking
    <2>7. CASE tx.phase \in {"idle", "planning", "undo-reload"} /\ Untouched /\ ~Settled
      BY <2>1, <2>7, UntouchedStays DEF FirstInv
    <2> QED
      BY <2>2, <2>3, <2>4, <2>5, <2>6, <2>7 DEF FirstInv
  <1>3. Inv => FirstApplyRecoverable
    <2> SUFFICES ASSUME PlanInv, FirstInv, Idle, applied = None, "unknown" \notin contents,
                        \A r \in Resource : file[r] # Foreign, FileConflict(desired)
                 PROVE  Recoverable
      BY DEF FirstApplyRecoverable
    <2>1. file[StateDir] # Absent /\ file[Owner] = Absent
      BY BundleKinds, ResourceKinds DEF FileConflict, Observe
    <2>2. contents \subseteq {"runtime"}
      BY DEF PlanInv, ForeignInv, TypeInv, TypeOK, HostTypeOK
    <2>3. failedFirst
      BY <2>1 DEF FirstInv, Settled, Made, Vain, Making, Unmaking, Untouched, MarkerPair, Idle
    <2> QED
      BY <2>1, <2>2, <2>3 DEF Recoverable
  <1> QED
    BY <1>1, <1>2, <1>3, PTL DEF Spec

(***************************************************************************)
(* What a transaction achieves that began with nothing stale: within it    *)
(* everything wanted is on the host already, or a step that makes it so is *)
(* still to come, in an order in which no step spoils another's.  Failures *)
(* change nothing about that: they end the transaction.                    *)
(***************************************************************************)
Installed(d) == IF d # None /\ Present(d) THEN Bundle(d) ELSE {}
Up(d) == IF d # None THEN Wanted(d) ELSE {}
RunsUnit(u, d) == running[u] # None /\ running[u].unit = Text(u, d.cfg)
RunsAs(u, d) == RunsUnit(u, d) /\ (u = Tunnel => running[u].profile = Text(Profile, d.cfg))
UpToDate(u) == Def(u) = file[u]

\* The tunnel was started with its unit and its profile of one configuration.
OneSource ==
    running[Tunnel] # None /\ \E c \in Configs :
        running[Tunnel].unit = Text(Tunnel, c) /\ running[Tunnel].profile = Text(Profile, c)

\* Steps make what is wanted, and take away only what is not.
StepFits(s) ==
    /\ s[1] \in {"create", "update"} => s[2] \in Installed(want)
    /\ s[1] = "enable" => s[2] \in Installed(want) \cap Service
    /\ s[1] \in Launching => s[2] \in Up(want)
    /\ s[1] \in {"stop", "stop-stale"} => s[2] \notin Up(want)
    /\ s[1] \in {"remove", "disable"} => s[2] \notin Installed(want)
    /\ s[1] = "remove" => file[s[2]] \notin {Absent, Foreign}
StepsFit == \A s \in tx.todo : StepFits(s)
FilesDue ==
    \A r \in Installed(want) :
        file[r] = Text(r, want.cfg) \/ ToDo("create", r) \/ ToDo("update", r)
LoadsDue == \A u \in Unit \cap Installed(want) : UpToDate(u) \/ ToDo("reload", "host")
ReloadsFollow ==
    \A u \in Unit :
        /\ ToDo("create", u) \/ ToDo("update", u) => ToDo("reload", "host")
        /\ ToDo("remove", u) => ToDo("reload-removed", "host")
LaunchDue(u) == (running[u] = None /\ ToDo("start", u)) \/ ToDo("restart", u)
RunningDue ==
    \A u \in Up(want) :
        /\ RunsUnit(u, want) \/ LaunchDue(u)
        /\ u = Tunnel => OneSource \/ LaunchDue(u)
Readying == StepsFit /\ FilesDue /\ LoadsDue /\ ReloadsFollow /\ RunningDue

Evident == {"final", "final-guard", "evidence", "commit"}
ReadyInv ==
    /\ tx.phase = "execute" /\ pre.fresh => Readying
    /\ tx.phase = "qualify" /\ pre.fresh => Readying /\ tx.todo = {}
    /\ tx.phase \in Evident /\ pre.fresh => \A u \in Up(want) : RunsAs(u, want)

LEMMA InstalledKinds ==
    ASSUME NEW d
    PROVE  /\ Installed(d) \subseteq Resource
           /\ Installed(d) # {} => d # None /\ Present(d) /\ Installed(d) = Bundle(d)
           /\ Installed(d) # {} =>
                {StateDir, Owner, Profile, Mcp, Tunnel} \subseteq Installed(d)
           /\ Up(d) \subseteq Installed(d) \cap Service
           /\ Up(d) # {} => Mcp \in Up(d) /\ Tunnel \in Up(d) /\ Up(d) = Installed(d) \cap Service
  <1>1. {StateDir, Owner, Profile, Mcp, Tunnel} \subseteq Bundle(d) /\ Bundle(d) \subseteq Resource
    BY ResourceKinds, BundleKinds DEF Bundle
  <1>2. Up(d) # {} => d # None /\ Present(d) /\ Up(d) = Bundle(d) \cap Service
    BY ResourceKinds DEF Up, Wanted, BundleUnits, ActiveWhenRunning
  <1> QED
    BY <1>1, <1>2, ResourceKinds DEF Installed

LEMMA TextFields ==
    ASSUME NEW c, NEW f
    PROVE  /\ f \in McpUnitFields => Text(Mcp, c)[f] = c[f]
           /\ f \in TunnelUnitFields => Text(Tunnel, c)[f] = c[f]
           /\ f \in ProfileFields => Text(Profile, c)[f] = c[f]
  <1>1. Fields(Mcp) = McpUnitFields
    BY DEF Fields, Profile, Mcp, Tunnel
  <1>2. Fields(Tunnel) = TunnelUnitFields
    BY ResourceKinds DEF Fields
  <1>3. Fields(Profile) = ProfileFields
    BY DEF Fields, Profile, Mcp, Tunnel
  <1> QED
    BY <1>1, <1>2, <1>3 DEF Text

LEMMA PlannedHostSteps ==
    ASSUME NEW d, NEW force
    PROVE  /\ <<"check", "host">> \in PlanSteps(d, force) <=> ~Present(d)
           /\ <<"recheck", "host">> \in PlanSteps(d, force) => Present(d)
           /\ <<"reload", "host">> \in PlanSteps(d, force) <=>
                 Present(d) /\ Changed(d) \cap Unit # {}
           /\ Removes(d) \cap Unit # {} => <<"reload-removed", "host">> \in PlanSteps(d, force)
  BY DEF PlanSteps, PresentSteps, AbsentSteps, StopPass, On, If, UnitFileChanged

\* A plan's steps fit what is wanted.
LEMMA PlannedFits ==
    ASSUME want \in ValidDeclaration, applied \in ValidDeclaration \cup {None},
           PlanValid(want), NEW force, NEW s \in PlanSteps(want, force)
    PROVE  StepFits(s)
  <1> DEFINE op == s[1]
             r == s[2]
  <1>0. /\ want # None /\ Up(want) = Wanted(want)
        /\ Installed(want) = IF Present(want) THEN Bundle(want) ELSE {}
        /\ s = <<op, r>> /\ <<op, r>> \in PlanSteps(want, force)
    BY NoneIsNoDeclaration, PlanStepsAreSteps, StepObject DEF ValidDeclaration, Installed, Up
  <1>1. op \in {"create", "update"} => r \in Installed(want)
    BY <1>0, PlannedSteps DEF Creates, Updates
  <1>2. op = "enable" => r \in Installed(want) \cap Service
    <2>1. op = "enable" => Present(want) /\ r \in Enables(want)
      BY <1>0, PlannedSteps
    <2> QED
      BY <1>0, <2>1 DEF Enables, BundleUnits, EnableWhenPresent
  <1>3. op \in Launching => r \in Up(want)
    <2>1. op \in Launching => r \in Starts(want) \/ r \in Restarts(want)
             \/ (Present(want) /\ Running(want) /\ r \in {Mcp, Tunnel})
      BY <1>0, PlannedSteps DEF Launching
    <2>2. Present(want) /\ Running(want) => {Mcp, Tunnel} \subseteq Wanted(want)
      BY BundleKinds, ResourceKinds DEF Wanted, BundleUnits, ActiveWhenRunning
    <2> QED
      BY <1>0, <2>1, <2>2 DEF Starts, Restarts
  <1>4. op \in {"stop", "stop-stale"} => r \notin Up(want)
    <2>1. op \in {"stop", "stop-stale"} => r \in Stops(want)
      BY <1>0, PlannedSteps
    <2>2. Wanted(want) \subseteq Bundle(want) /\ Stale(want) \cap Bundle(want) = {}
      BY BundleKinds DEF Wanted, BundleUnits
    <2> QED
      BY <1>0, <2>1, <2>2 DEF Stops
  <1>5. op \in {"remove", "disable"} => r \notin Installed(want)
    <2>1. op \in {"remove", "disable"} => ~Present(want) \/ r \in Stale(want)
      BY <1>0, PlannedSteps DEF Removes, Disables
    <2> QED
      BY <1>0, <2>1, BundleKinds
  <1>6. op = "remove" => file[r] \notin {Absent, Foreign}
    <2> SUFFICES ASSUME op = "remove" PROVE file[r] \notin {Absent, Foreign}
      OBVIOUS
    <2>1. r \in Removes(want)
      BY <1>0, PlannedSteps
    <2>2. CASE Observe(r, want) \in {"exact", "different"}
      BY <2>2 DEF Observe
    <2>3. CASE r \in Stale(want)
      <3>1. /\ file[r] = Text(r, applied.cfg) /\ applied \in ValidDeclaration /\ r \in Resource
        BY <2>3, BundleKinds, ResourceKinds DEF PlanValid, Conflict, StaleConflict, Stale
      <3> QED
        BY <3>1, DeclarationFields, TextIsFileValue
    <2> QED
      BY <2>1, <2>2, <2>3 DEF Removes
  <1> QED
    BY <1>1, <1>2, <1>3, <1>4, <1>5, <1>6 DEF StepFits

LEMMA BeginReadies ==
    ASSUME TypeInv, Begin, Fresh
    PROVE  Readying'
  <1> DEFINE In(op, r) == <<op, r>> \in PlanSteps(want, tx.force)
  <1>0. /\ want \in ValidDeclaration /\ applied \in ValidDeclaration \cup {None}
        /\ PlanValid(want) /\ tx \in TxType
    BY DEF Begin, TypeInv, TypeOK, ActiveWant, TxType, want
  <1>1. /\ want' = want /\ tx'.todo = PlanSteps(want, tx.force)
        /\ UNCHANGED <<file, cached, running>>
    BY <1>0 DEF Begin, notHost, TxType, want
  <1>2. \A op, r : ToDo(op, r)' <=> In(op, r)
    BY <1>1 DEF ToDo
  <1>3. /\ Installed(want)' = Installed(want) /\ Up(want)' = Up(want)
        /\ \A u : UpToDate(u)' = UpToDate(u)
        /\ \A u : RunsUnit(u, want)' = RunsUnit(u, want)
        /\ OneSource' = OneSource
    BY <1>1 DEF Installed, Up, Bundle, Present, Running, Wanted, BundleUnits, UpToDate, Def,
       RunsUnit, OneSource
  <1>4. /\ Up(want) = Wanted(want) /\ Wanted(want) \subseteq Service \cap Bundle(want)
        /\ Installed(want) = IF Present(want) THEN Bundle(want) ELSE {}
        /\ Up(want) # {} => Present(want)
    BY <1>0, NoneIsNoDeclaration
       DEF ValidDeclaration, Installed, Up, Wanted, ActiveWhenRunning, BundleUnits
  <1>5. StepsFit'
    <2> SUFFICES ASSUME NEW s \in PlanSteps(want, tx.force) PROVE StepFits(s)'
      BY <1>1 DEF StepsFit
    <2>1. StepFits(s)
      BY <1>0, PlannedFits
    <2> QED
      BY <1>1, <1>3, <2>1 DEF StepFits
  <1>6. FilesDue'
    <2> SUFFICES ASSUME NEW r \in Installed(want)
                 PROVE  file[r] = Text(r, want.cfg) \/ In("create", r) \/ In("update", r)
      BY <1>1, <1>2, <1>3 DEF FilesDue
    <2>1. Present(want) /\ r \in Bundle(want)
      BY <1>4
    <2>2. Observe(r, want) # "foreign"
      BY <1>0, <2>1 DEF PlanValid, Conflict, FileConflict
    <2>3. \/ r \in Creates(want) \/ r \in Updates(want) \/ file[r] = Text(r, want.cfg)
      BY <2>1, <2>2 DEF Creates, Updates, Observe
    <2> QED
      BY <2>1, <2>3, PlannedSteps
  <1>7. LoadsDue'
    BY <1>3 DEF LoadsDue, Fresh, UpToDate
  <1>8. ReloadsFollow'
    <2> SUFFICES ASSUME NEW u \in Unit
                 PROVE  /\ In("create", u) \/ In("update", u) => In("reload", "host")
                        /\ In("remove", u) => In("reload-removed", "host")
      BY <1>2 DEF ReloadsFollow
    <2>1. In("create", u) \/ In("update", u) => Present(want) /\ u \in Changed(want)
      BY PlannedSteps DEF Changed
    <2>2. In("remove", u) => u \in Removes(want)
      BY PlannedSteps
    <2> QED
      BY <2>1, <2>2, PlannedHostSteps
  <1>9. RunningDue'
    <2> SUFFICES ASSUME NEW u \in Up(want)
                 PROVE  /\ RunsUnit(u, want) \/ (running[u] = None /\ In("start", u)) \/ In("restart", u)
                        /\ u = Tunnel => \/ OneSource
                                         \/ (running[u] = None /\ In("start", u)) \/ In("restart", u)
      BY <1>1, <1>2, <1>3 DEF RunningDue, LaunchDue
    <2>0. u \in Service /\ u \in Bundle(want) /\ Present(want) /\ u \in Wanted(want)
      BY <1>4
    <2>1. IsActive(u) <=> running[u] # None
      BY <2>0, ResourceKinds DEF IsActive
    <2>2. CASE running[u] = None
      <3>1. u \in Starts(want)
        BY <2>0, <2>1, <2>2 DEF Starts
      <3> QED
        BY <2>0, <2>2, <3>1, PlannedSteps
    <2>3. CASE running[u] # None
      <3>1. running[u].unit = file[u] /\ (u = Tunnel => OneSource)
        BY <2>0, <2>3 DEF Fresh, OneSource
      <3>2. file[u] # Text(u, want.cfg) => u \in Changed(want)
        <4>1. Observe(u, want) # "foreign"
          BY <1>0, <2>0 DEF PlanValid, Conflict, FileConflict
        <4> QED
          BY <2>0, <4>1 DEF Changed, Creates, Updates, Observe
      <3>3. file[u] # Text(u, want.cfg) => In("restart", u)
        BY <2>0, <2>1, <2>3, <3>2, PlannedSteps DEF Restarts
      <3> QED
        BY <2>3, <3>1, <3>3 DEF RunsUnit
    <2> QED
      BY <2>2, <2>3
  <1> QED
    BY <1>5, <1>6, <1>7, <1>8, <1>9 DEF Readying

(***************************************************************************)
(* The steps of a transaction, in their order.                             *)
(***************************************************************************)
\* The checks come before what they check, as everything else does.
LEMMA DueOrder ==
    ASSUME NEW op, NEW r, Due(<<op, r>>)
    PROVE  /\ op \in {"create", "update", "enable", "disable", "stop-stale", "remove"}
                         \cup Launching \cup {"stop", "reload", "reload-removed", "recheck"}
                 => ~ToDo("check", "host")
           /\ op \in {"remove", "reload-removed"} => ~ToDo("recheck", "host")
           /\ op \in {"reload"} \cup Launching => \A q : ~ToDo("create", q) /\ ~ToDo("update", q)
           /\ op \in Launching => ~ToDo("reload", "host")
           /\ op = "reload-removed" => \A q : ~ToDo("remove", q)
  BY DueComesFirst, OpRanks DEF Launching

\* Loading a definition early changes nothing about what is in use.
LEMMA LoadingKeepsDefs ==
    ASSUME NEW S, cached \in [Unit -> FileValue], cached' = Loaded(S), UNCHANGED file, NEW u \in Unit
    PROVE  Def(u)' = Def(u)
  BY DEF Loaded, Def

LEMMA ReloadingUpdates ==
    ASSUME cached' = Reloaded(file), UNCHANGED file, NEW u \in Unit
    PROVE  UpToDate(u)'
  BY DEF Reloaded, UpToDate, Def

\* The context of a step that is done: the transaction goes on.
StepDone(s) ==
    /\ TypeInv /\ Readying /\ want \in ValidDeclaration
    /\ s \in tx.todo /\ Due(s) /\ Proceed(s)

LEMMA StepContext ==
    ASSUME NEW s, StepDone(s)
    PROVE  /\ want' = want
           /\ Installed(want)' = Installed(want) /\ Up(want)' = Up(want)
           /\ Present(want)' = Present(want)
           /\ \A op, r : ToDo(op, r)' <=> ToDo(op, r) /\ s # <<op, r>>
           /\ tx'.todo \subseteq tx.todo
           /\ s \in Step /\ s = <<s[1], s[2]>> /\ ToDo(s[1], s[2]) /\ Due(<<s[1], s[2]>>)
           /\ StepFits(s)
           /\ want # None /\ want.cfg \in Configs
           /\ rb \in RbType /\ file \in [Resource -> FileValue]
  <1>1. tx' = [tx EXCEPT !.todo = tx'.todo, !.made = tx'.made] /\ want' = want
        /\ tx'.todo \subseteq tx.todo
    BY DEF StepDone, Proceed, TypeInv, TypeOK, want
  <1>2. s \in Step /\ s = <<s[1], s[2]>>
    BY StepObject DEF StepDone, TypeInv, TypeOK
  <1>3. ToDo(s[1], s[2]) /\ Due(<<s[1], s[2]>>)
    BY <1>2 DEF StepDone, ToDo
  <1>4. \A op, r : ToDo(op, r)' <=> ToDo(op, r) /\ s # <<op, r>>
    BY AfterProceed DEF StepDone
  <1>5. StepFits(s)
    BY DEF StepDone, Readying, StepsFit
  <1>6. want # None /\ want.cfg \in Configs
    BY NoneIsNoDeclaration, DeclarationFields DEF StepDone, ValidDeclaration
  <1>7. Installed(want)' = Installed(want) /\ Up(want)' = Up(want) /\ Present(want)' = Present(want)
    BY <1>1 DEF Installed, Up, Bundle, Present, Running, Wanted, BundleUnits
  <1>8. rb \in RbType /\ file \in [Resource -> FileValue]
    BY DEF StepDone, TypeInv, TypeOK, HostTypeOK, RbType
  <1> QED
    BY <1>1, <1>2, <1>3, <1>4, <1>5, <1>6, <1>7, <1>8

\* A step that writes no file.
LEMMA FilesStayDue ==
    ASSUME NEW s, StepDone(s), UNCHANGED file,
           s[1] \notin {"create", "update", "remove"}
    PROVE  StepsFit' /\ FilesDue'
  <1>0. /\ want' = want /\ Installed(want)' = Installed(want) /\ Up(want)' = Up(want)
        /\ \A op, r : ToDo(op, r)' <=> ToDo(op, r) /\ s # <<op, r>>
        /\ tx'.todo \subseteq tx.todo
    BY StepContext
  <1>1. StepsFit'
    <2> SUFFICES ASSUME NEW t \in tx'.todo PROVE StepFits(t)'
      BY DEF StepsFit
    <2>1. StepFits(t)
      BY <1>0 DEF StepDone, Readying, StepsFit
    <2> QED
      BY <1>0, <2>1 DEF StepFits
  <1>2. FilesDue'
    <2>1. \A r : s # <<"create", r>> /\ s # <<"update", r>>
      OBVIOUS
    <2>2. FilesDue
      BY DEF StepDone, Readying
    <2> QED
      BY <1>0, <2>1, <2>2 DEF FilesDue
  <1> QED
    BY <1>1, <1>2

\* A step that leaves the files and makes nothing stale keeps the reloads due.
LEMMA LoadsStayDue ==
    ASSUME NEW s, StepDone(s), UNCHANGED file,
           s[1] \notin {"create", "update", "remove", "reload", "reload-removed"},
           \A u \in Unit : UpToDate(u) => UpToDate(u)'
    PROVE  LoadsDue' /\ ReloadsFollow'
  <1>1. \A u : s # <<"create", u>> /\ s # <<"update", u>> /\ s # <<"remove", u>>
                 /\ s # <<"reload", u>> /\ s # <<"reload-removed", u>>
    OBVIOUS
  <1>2. LoadsDue /\ ReloadsFollow
    BY DEF StepDone, Readying
  <1>3. /\ \A op, r : ToDo(op, r)' <=> ToDo(op, r) /\ s # <<op, r>>
        /\ Installed(want)' = Installed(want)
    BY StepContext
  <1>4. LoadsDue'
    BY <1>1, <1>2, <1>3 DEF LoadsDue
  <1>5. ReloadsFollow'
    BY <1>1, <1>2, <1>3 DEF ReloadsFollow
  <1> QED
    BY <1>4, <1>5

\* A step that launches and stops nothing that is wanted.
LEMMA RunningStaysDue ==
    ASSUME NEW s, StepDone(s), \A u \in Up(want) : running'[u] = running[u],
           s[1] \notin Launching
    PROVE  RunningDue'
  <1>1. \A u : s # <<"start", u>> /\ s # <<"restart", u>>
    BY DEF Launching
  <1>2. /\ want' = want /\ Up(want)' = Up(want)
        /\ \A op, r : ToDo(op, r)' <=> ToDo(op, r) /\ s # <<op, r>>
    BY StepContext
  <1>3. RunningDue
    BY DEF StepDone, Readying
  <1>4. \A u \in Up(want) : /\ RunsUnit(u, want)' = RunsUnit(u, want)
                            /\ LaunchDue(u)' = LaunchDue(u)
                            /\ u = Tunnel => OneSource' = OneSource
    BY <1>1, <1>2 DEF RunsUnit, LaunchDue, OneSource
  <1> QED
    BY <1>2, <1>3, <1>4 DEF RunningDue

LEMMA CheckReadies ==
    ASSUME NEW s, StepDone(s), Check(s)
    PROVE  Readying'
  <1>1. s[1] \in {"check", "recheck"} /\ UNCHANGED <<file, cached, running>>
    BY DEF Check
  <1>2. \A u : UpToDate(u)' = UpToDate(u)
    BY <1>1 DEF UpToDate, Def
  <1>3. StepsFit' /\ FilesDue' /\ LoadsDue' /\ ReloadsFollow' /\ RunningDue'
    BY <1>1, <1>2, FilesStayDue, LoadsStayDue, RunningStaysDue DEF Launching
  <1> QED
    BY <1>3 DEF Readying

LEMMA WriteReadies ==
    ASSUME NEW s, StepDone(s), Write(s)
    PROVE  Readying'
  <1> DEFINE r == s[2]
  <1>0. /\ s[1] \in {"create", "update"} /\ UNCHANGED <<cached, running>>
        /\ file' = [file EXCEPT ![r] = Text(r, want.cfg)]
        /\ file \in [Resource -> FileValue] /\ r \in Installed(want) /\ Installed(want) \subseteq Resource
    BY StepContext, InstalledKinds DEF Write, StepDone, TypeInv, TypeOK, HostTypeOK, StepFits
  <1>1. /\ want' = want /\ Installed(want)' = Installed(want) /\ Up(want)' = Up(want)
        /\ \A op, q : ToDo(op, q)' <=> ToDo(op, q) /\ s # <<op, q>>
        /\ tx'.todo \subseteq tx.todo /\ s = <<s[1], r>> /\ ToDo(s[1], r)
    BY <1>0, StepContext
  <1>2. \A q \in Resource : file'[q] = IF q = r THEN Text(r, want.cfg) ELSE file[q]
    BY <1>0
  <1>3. StepsFit'
    <2> SUFFICES ASSUME NEW t \in tx'.todo PROVE StepFits(t)'
      BY DEF StepsFit
    <2>1. StepFits(t)
      BY <1>1 DEF StepDone, Readying, StepsFit
    <2>2. t[1] = "remove" => t[2] # r
      BY <1>0, <2>1 DEF StepFits
    <2>3. t[1] = "remove" => t[2] \in Resource
      <3>1. t \in Step
        BY <1>1 DEF StepDone, TypeInv, TypeOK
      <3> QED
        BY <3>1, StepObject DEF FileOp
    <2> QED
      BY <1>1, <1>2, <2>1, <2>2, <2>3 DEF StepFits
  <1>4. FilesDue'
    <2> SUFFICES ASSUME NEW q \in Installed(want)
                 PROVE  file'[q] = Text(q, want.cfg) \/ ToDo("create", q)' \/ ToDo("update", q)'
      BY <1>1 DEF FilesDue
    <2>1. CASE q = r
      BY <1>0, <1>2, <2>1
    <2>2. CASE q # r
      <3>1. \A op : ToDo(op, q)' <=> ToDo(op, q)
        BY <1>1, <2>2
      <3>2. file'[q] = file[q]
        BY <1>0, <1>2, <2>2
      <3> QED
        BY <3>1, <3>2 DEF StepDone, Readying, FilesDue
    <2> QED
      BY <2>1, <2>2
  <1>5. ReloadsFollow'
    <2>1. ReloadsFollow /\ \A op \in HostOp : s # <<op, "host">>
      BY <1>0 DEF StepDone, Readying, HostOp
    <2> QED
      BY <1>1, <2>1 DEF ReloadsFollow, HostOp
  <1>6. LoadsDue'
    <2> SUFFICES ASSUME NEW u \in Unit \cap Installed(want)
                 PROVE  UpToDate(u)' \/ ToDo("reload", "host")'
      BY <1>1 DEF LoadsDue
    <2>1. ToDo("reload", "host")' <=> ToDo("reload", "host")
      BY <1>0, <1>1
    <2>2. CASE u = r
      BY <1>0, <1>1, <2>1, <2>2 DEF StepDone, Readying, ReloadsFollow
    <2>3. CASE u # r
      <3>1. UpToDate(u)' = UpToDate(u)
        BY <1>0, <1>2, <2>3, ResourceKinds DEF UpToDate, Def
      <3> QED
        BY <2>1, <3>1 DEF StepDone, Readying, LoadsDue
    <2> QED
      BY <2>2, <2>3
  <1>7. RunningDue'
    BY <1>0, RunningStaysDue DEF Launching
  <1> QED
    BY <1>3, <1>4, <1>5, <1>6, <1>7 DEF Readying

LEMMA ReloadReadies ==
    ASSUME NEW s, StepDone(s), DaemonReload(s)
    PROVE  Readying'
  <1>1. /\ s[1] \in {"reload", "reload-removed"} /\ cached' = Reloaded(file)
        /\ UNCHANGED <<file, running>>
    BY DEF DaemonReload
  <1>2. StepsFit' /\ FilesDue' /\ RunningDue'
    BY <1>1, FilesStayDue, RunningStaysDue DEF Launching
  <1>3. LoadsDue'
    BY <1>1, ReloadingUpdates DEF LoadsDue
  <1>4. ReloadsFollow'
    <2> SUFFICES ASSUME NEW u \in Unit
                 PROVE  /\ ToDo("create", u)' \/ ToDo("update", u)' => ToDo("reload", "host")'
                        /\ ToDo("remove", u)' => ToDo("reload-removed", "host")'
      BY DEF ReloadsFollow
    <2>1. \A op, q : ToDo(op, q)' <=> ToDo(op, q) /\ s # <<op, q>>
      BY StepContext
    <2>2. CASE s[1] = "reload"
      <3>1. ~ToDo("create", u) /\ ~ToDo("update", u) /\ s # <<"reload-removed", "host">>
        <4>1. Due(<<"reload", s[2]>>)
          BY <2>2, StepContext
        <4> QED
          BY <2>2, <4>1, DueOrder
      <3>2. ToDo("remove", u) => ToDo("reload-removed", "host")
        BY DEF StepDone, Readying, ReloadsFollow
      <3> QED
        BY <2>1, <3>1, <3>2
    <2>3. CASE s[1] = "reload-removed"
      <3>1. ~ToDo("remove", u) /\ s # <<"reload", "host">>
        <4>1. Due(<<"reload-removed", s[2]>>)
          BY <2>3, StepContext
        <4> QED
          BY <2>3, <4>1, DueOrder
      <3>2. ToDo("create", u) \/ ToDo("update", u) => ToDo("reload", "host")
        BY DEF StepDone, Readying, ReloadsFollow
      <3> QED
        BY <2>1, <3>1, <3>2
    <2> QED
      BY <1>1, <2>2, <2>3
  <1> QED
    BY <1>2, <1>3, <1>4 DEF Readying

LEMMA EnablementReadies ==
    ASSUME NEW s, StepDone(s), Enable(s) \/ Disable(s)
    PROVE  Readying'
  <1>1. s[1] \in {"enable", "disable"} /\ cached' = Reloaded(file) /\ UNCHANGED <<file, running>>
    BY DEF Enable, Disable
  <1>2. StepsFit' /\ FilesDue' /\ LoadsDue' /\ ReloadsFollow' /\ RunningDue'
    BY <1>1, FilesStayDue, LoadsStayDue, RunningStaysDue, ReloadingUpdates DEF Launching
  <1> QED
    BY <1>2 DEF Readying

\* What is launched runs as it is wanted.
LEMMA LaunchesRight ==
    ASSUME NEW s, TypeInv, Readying, s \in tx.todo, Due(s), want \in ValidDeclaration,
           s[1] \in Launching, NEW u \in Up(want)
    PROVE  /\ Def(u) = Text(u, want.cfg) /\ Def(u) # Absent
           /\ Launch(u) # None /\ Launch(u).unit = Text(u, want.cfg)
           /\ u = Tunnel => Launch(u).profile = Text(Profile, want.cfg)
  <1>0. /\ u \in Installed(want) /\ u \in Service /\ u \in Unit /\ u \in Resource
        /\ Profile \in Installed(want) /\ want.cfg \in Configs
    BY InstalledKinds, ResourceKinds, DeclarationFields
  <1>1. Due(<<s[1], s[2]>>)
    BY StepObject DEF TypeInv, TypeOK
  <1>2. (\A q : ~ToDo("create", q) /\ ~ToDo("update", q)) /\ ~ToDo("reload", "host")
    BY <1>1, DueOrder
  <1>3. file[u] = Text(u, want.cfg) /\ file[Profile] = Text(Profile, want.cfg)
    BY <1>0, <1>2 DEF Readying, FilesDue
  <1>4. Def(u) = file[u]
    BY <1>0, <1>2 DEF Readying, LoadsDue, UpToDate
  <1>5. Def(u) # Absent
    BY <1>0, <1>3, <1>4, TextIsFileValue
  <1>6. Launch(u) # None
    BY <1>0, LaunchIsProcess, NoneIsNoProcess DEF TypeInv
  <1> QED
    BY <1>3, <1>4, <1>5, <1>6 DEF Launch

\* What a launch leaves of a wanted unit: it, or what ran before.
LEMMA LaunchedIsRight ==
    ASSUME NEW s, StepDone(s), Start(s), NEW u \in Up(want)
    PROVE  \/ RunsAs(u, want)' /\ (u = Tunnel => OneSource')
           \/ /\ running'[u] = running[u] /\ s # <<"restart", u>>
              /\ s = <<"start", u>> => running[u] # None
  <1>0. /\ s[1] \in Launching /\ running' = Launched(s) /\ want' = want /\ u \in Service
        /\ want.cfg \in Configs /\ s = <<s[1], s[2]>>
    BY StepContext, InstalledKinds DEF Start, Launching
  <1>1. /\ Launch(u) # None /\ Launch(u).unit = Text(u, want.cfg)
        /\ u = Tunnel => Launch(u).profile = Text(Profile, want.cfg)
    BY <1>0, LaunchesRight DEF StepDone
  <1>2. CASE running'[u] = Launch(u)
    BY <1>0, <1>1, <1>2 DEF RunsAs, RunsUnit, OneSource
  <1>3. CASE running'[u] # Launch(u)
    BY <1>0, <1>3 DEF Launched, AfterStart, AfterRestart, Launching
  <1> QED
    BY <1>2, <1>3

LEMMA StartReadies ==
    ASSUME NEW s, StepDone(s), Start(s)
    PROVE  Readying'
  <1>1. /\ s[1] \in Launching /\ cached' = Loaded({v \in Service : running'[v] # None})
        /\ UNCHANGED file /\ cached \in [Unit -> FileValue]
    BY DEF Start, Launching, StepDone, TypeInv, TypeOK, HostTypeOK
  <1>2. \A u \in Unit : UpToDate(u)' = UpToDate(u)
    BY <1>1, LoadingKeepsDefs DEF UpToDate
  <1>3. StepsFit' /\ FilesDue' /\ LoadsDue' /\ ReloadsFollow'
    BY <1>1, <1>2, FilesStayDue, LoadsStayDue DEF Launching
  <1>4. RunningDue'
    <2>0. /\ Up(want)' = Up(want) /\ want' = want
          /\ \A op, r : ToDo(op, r)' <=> ToDo(op, r) /\ s # <<op, r>>
      BY StepContext
    <2> SUFFICES ASSUME NEW u \in Up(want)
                 PROVE  /\ RunsUnit(u, want)' \/ LaunchDue(u)'
                        /\ u = Tunnel => OneSource' \/ LaunchDue(u)'
      BY <2>0 DEF RunningDue
    <2>1. /\ RunsUnit(u, want) \/ LaunchDue(u)
          /\ u = Tunnel => OneSource \/ LaunchDue(u)
      BY DEF StepDone, Readying, RunningDue
    <2>2. CASE RunsAs(u, want)' /\ (u = Tunnel => OneSource')
      BY <2>2 DEF RunsAs
    <2>3. CASE /\ running'[u] = running[u] /\ s # <<"restart", u>>
               /\ s = <<"start", u>> => running[u] # None
      <3>1. RunsUnit(u, want)' = RunsUnit(u, want) /\ (LaunchDue(u) => LaunchDue(u)')
            /\ (u = Tunnel => OneSource' = OneSource)
        BY <2>0, <2>3 DEF RunsUnit, LaunchDue, OneSource
      <3> QED
        BY <2>1, <3>1
    <2> QED
      BY <2>2, <2>3, LaunchedIsRight
  <1> QED
    BY <1>3, <1>4 DEF Readying

LEMMA StopReadies ==
    ASSUME NEW s, StepDone(s), Stop(s)
    PROVE  Readying'
  <1>1. /\ s[1] \in {"stop", "stop-stale"} /\ running' = AfterStop({s[2]})
        /\ UNCHANGED <<file, cached>> /\ s[2] \notin Up(want)
    BY StepContext DEF Stop, StepFits
  <1>2. \A u \in Unit : UpToDate(u)' = UpToDate(u)
    BY <1>1 DEF UpToDate, Def
  <1>3. StepsFit' /\ FilesDue' /\ LoadsDue' /\ ReloadsFollow'
    BY <1>1, <1>2, FilesStayDue, LoadsStayDue
  <1>4. \A u \in Up(want) : running'[u] = running[u]
    BY <1>1, InstalledKinds DEF AfterStop
  <1>5. RunningDue'
    BY <1>1, <1>4, RunningStaysDue DEF Launching
  <1> QED
    BY <1>3, <1>5 DEF Readying

LEMMA RemoveReadies ==
    ASSUME NEW s, StepDone(s), s[1] = "remove", NEW r, r = s[2],
           file' = [file EXCEPT ![r] = Absent], UNCHANGED <<cached, running>>
    PROVE  Readying'
  <1>1. /\ want' = want /\ Installed(want)' = Installed(want) /\ Up(want)' = Up(want)
        /\ \A op, q : ToDo(op, q)' <=> ToDo(op, q) /\ s # <<op, q>>
        /\ tx'.todo \subseteq tx.todo /\ s = <<"remove", r>> /\ ToDo("remove", r)
        /\ r \notin Installed(want) /\ Installed(want) \subseteq Resource
    BY StepContext, InstalledKinds DEF StepFits
  <1>2. \A q \in Resource : file'[q] = IF q = r THEN Absent ELSE file[q]
    BY DEF StepDone, TypeInv, TypeOK, HostTypeOK
  <1>3. StepsFit'
    <2> SUFFICES ASSUME NEW t \in tx'.todo PROVE StepFits(t)'
      BY DEF StepsFit
    <2>1. StepFits(t) /\ t \in Step
      BY <1>1 DEF StepDone, Readying, StepsFit, TypeInv, TypeOK
    <2>2. t[1] = "remove" => t[2] # r /\ t[2] \in Resource
      <3> SUFFICES ASSUME t[1] = "remove" PROVE t[2] # r /\ t[2] \in Resource
        OBVIOUS
      <3>1. t = <<"remove", t[2]>> /\ t[2] \in Resource
        BY <2>1, StepObject DEF FileOp
      <3>2. ToDo("remove", t[2])'
        BY <3>1 DEF ToDo
      <3> QED
        BY <1>1, <3>1, <3>2
    <2> QED
      BY <1>1, <1>2, <2>1, <2>2 DEF StepFits
  <1>4. \A op : op # "remove" => \A q : ToDo(op, q)' <=> ToDo(op, q)
    BY <1>1
  <1>5. \A q \in Installed(want) : file'[q] = file[q]
    BY <1>1, <1>2
  <1>6. FilesDue'
    BY <1>1, <1>4, <1>5 DEF StepDone, Readying, FilesDue
  <1>7. ReloadsFollow'
    <2>1. \A q : ToDo("remove", q)' => ToDo("remove", q)
      BY <1>1
    <2> QED
      BY <1>4, <2>1 DEF StepDone, Readying, ReloadsFollow
  <1>8. LoadsDue'
    <2>1. \A u \in Unit \cap Installed(want) : UpToDate(u)' = UpToDate(u)
      BY <1>5 DEF UpToDate, Def
    <2> QED
      BY <1>1, <1>4, <2>1 DEF StepDone, Readying, LoadsDue
  <1>9. RunningDue'
    BY RunningStaysDue DEF Launching
  <1> QED
    BY <1>3, <1>6, <1>7, <1>8, <1>9 DEF Readying

\* Every step either keeps the rest due or ends the transaction.
LEMMA StepReadies ==
    ASSUME TypeInv, Readying, want \in ValidDeclaration, NEW s \in tx.todo, Execute(s)
    PROVE  (tx.phase = "execute" /\ tx'.phase = "execute" /\ Readying') \/ tx'.phase = "undo-units"
  <1>0. s \in Step /\ Due(s) /\ tx.phase = "execute"
    <2>1. s \in Step /\ Due(s)
      BY DEF Execute, Check, Write, DaemonReload, Enable, Disable, Start,
         CannotStart, Stop, RemoveFile, RemoveStateDir, notStep, TypeInv, TypeOK
    <2> QED
      BY <2>1 DEF Due
  <1>1. Proceed(s) \/ Raise
    BY DEF Execute, Check, Write, DaemonReload, Enable, Disable, Start, CannotStart, Stop,
       RemoveFile, RemoveStateDir, Ended, Raises
  <1>2. CASE Raise
    BY <1>2, AfterRaise
  <1>3. CASE Proceed(s)
    <2>0. tx'.phase = "execute" /\ StepDone(s)
      BY <1>0, <1>3, AfterProceed DEF StepDone
    <2>1. CASE Check(s)
      BY <1>0, <2>0, <2>1, CheckReadies
    <2>2. CASE Write(s)
      BY <1>0, <2>0, <2>2, WriteReadies
    <2>3. CASE DaemonReload(s)
      BY <1>0, <2>0, <2>3, ReloadReadies
    <2>4. CASE Enable(s) \/ Disable(s)
      BY <1>0, <2>0, <2>4, EnablementReadies
    <2>5. CASE Start(s)
      BY <1>0, <2>0, <2>5, StartReadies
    <2>6. ~CannotStart(s)
      <3>1. Raise => tx'.phase = "undo-units"
        BY AfterRaise
      <3> QED
        BY <2>0, <3>1 DEF CannotStart
    <2>7. CASE Stop(s)
      BY <1>0, <2>0, <2>7, StopReadies
    <2>8. CASE RemoveFile(s)
      BY <1>0, <2>0, <2>8, RemoveReadies DEF RemoveFile
    <2>9. CASE RemoveStateDir(s)
      <3>1. Raise => tx'.phase = "undo-units"
        BY AfterRaise
      <3>2. s[1] = "remove" /\ file' = [file EXCEPT ![s[2]] = Absent] /\ UNCHANGED <<cached, running>>
        BY <2>0, <2>9, <3>1 DEF RemoveStateDir
      <3> QED
        BY <1>0, <2>0, <3>2, RemoveReadies
    <2> QED
      BY <1>0, <2>0, <2>1, <2>2, <2>3, <2>4, <2>5, <2>6, <2>7, <2>8, <2>9 DEF Execute
  <1> QED
    BY <1>0, <1>1, <1>2, <1>3

\* A tunnel that has its declared unit and listens where it should has its
\* declared profile: a profile is what the unit tells, and the health host.
LEMMA QualifiedRuns ==
    ASSUME want \in ValidDeclaration, Readying, tx.todo = {}, Qualified, NEW u \in Up(want)
    PROVE  RunsAs(u, want)
  <1>1. ~LaunchDue(u)
    BY DEF LaunchDue, ToDo
  <1>2. RunsUnit(u, want) /\ (u = Tunnel => OneSource)
    BY <1>1 DEF Readying, RunningDue
  <1>3. ASSUME u = Tunnel PROVE running[u].profile = Text(Profile, want.cfg)
    <2>1. PICK c \in Configs : running[Tunnel].unit = Text(Tunnel, c)
                               /\ running[Tunnel].profile = Text(Profile, c)
      BY <1>2, <1>3 DEF OneSource
    <2>2. Text(Tunnel, c) = Text(Tunnel, want.cfg)
      BY <1>2, <1>3, <2>1 DEF RunsUnit
    <2>3. c["mcp"] = want.cfg["mcp"] /\ c["health"] = want.cfg["health"]
      BY <2>2, TextFields DEF TunnelUnitFields
    <2>4. Present(want) /\ Running(want)
      BY NoneIsNoDeclaration DEF Up, Wanted, ValidDeclaration
    <2>5. <<want.cfg["healthHost"], want.cfg["health"]>> \in HealthEndpoint
      BY <2>4 DEF Qualified
    <2>6. want.cfg["healthHost"] = Text(Profile, c)["healthHost"]
      BY <2>1, <2>5 DEF HealthEndpoint
    <2>7. c["healthHost"] = want.cfg["healthHost"]
      BY <2>6, TextFields DEF ProfileFields
    <2>8. Fields(Profile) = ProfileFields
      BY DEF Fields, Profile, Mcp, Tunnel
    <2> QED
      BY <1>3, <2>1, <2>3, <2>7, <2>8 DEF Text, ProfileFields
  <1> QED
    BY <1>2, <1>3 DEF RunsAs

LEMMA ReadyStays ==
    ASSUME UNCHANGED <<file, cached, running, want>>, tx'.todo = tx.todo
    PROVE  /\ Readying => Readying'
           /\ (\A u \in Up(want) : RunsAs(u, want)) => (\A u \in Up(want) : RunsAs(u, want))'
  <1>1. /\ Installed(want)' = Installed(want) /\ Up(want)' = Up(want)
        /\ \A u : UpToDate(u)' = UpToDate(u) /\ RunsAs(u, want)' = RunsAs(u, want)
        /\ \A u : RunsUnit(u, want)' = RunsUnit(u, want) /\ LaunchDue(u)' = LaunchDue(u)
        /\ OneSource' = OneSource
        /\ \A op, r : ToDo(op, r)' = ToDo(op, r)
    BY DEF Installed, Up, Bundle, Present, Running, Wanted, BundleUnits, UpToDate, Def,
       RunsAs, RunsUnit, LaunchDue, OneSource, ToDo
  <1>2. Readying => StepsFit'
    BY <1>1 DEF Readying, StepsFit, StepFits
  <1>3. Readying => FilesDue' /\ LoadsDue' /\ ReloadsFollow' /\ RunningDue'
    BY <1>1 DEF Readying, FilesDue, LoadsDue, ReloadsFollow, RunningDue
  <1> QED
    BY <1>1, <1>2, <1>3 DEF Readying

LEMMA InitReady == Init => ReadyInv
  BY DEF Init, NoTx, ReadyInv, Evident

LEMMA NextReady ==
    ASSUME Hazards \cap {"tick", "tamper"} = {}, guardpc = "off", TypeInv, ReadyInv, [Next]_vars
    PROVE  ReadyInv'
  <1>0. tx \in TxType /\ (tx.phase # "idle" => want \in ValidDeclaration)
    BY DEF TypeInv, TypeOK, ActiveWant, TxType, want
  <1>1. CASE tx'.phase \notin {"execute", "qualify"} \cup Evident
    BY <1>1 DEF ReadyInv
  <1>2. CASE Begin
    <2>1. tx'.phase = "execute" /\ pre'.fresh = Fresh
      BY <1>0, <1>2 DEF Begin, TxType
    <2> QED
      BY <1>2, <2>1, BeginReadies DEF ReadyInv, Evident
  <1>3. CASE \E s \in tx.todo : Execute(s)
    <2> PICK s \in tx.todo : Execute(s)
      BY <1>3
    <2>1. tx.phase = "execute" /\ UNCHANGED pre
      BY DEF Execute, Check, Write, DaemonReload, Enable, Disable, Start,
         CannotStart, Stop, RemoveFile, RemoveStateDir, Due, notStep
    <2>2. CASE pre.fresh
      BY <1>0, <1>1, <2>1, <2>2, StepReadies DEF ReadyInv, Evident
    <2>3. CASE ~pre.fresh
      BY <2>1, <2>3 DEF ReadyInv
    <2> QED
      BY <2>2, <2>3
  <1>4. CASE Executed \/ Qualify \/ FinalPlan \/ FinalPlanGuard \/ WriteApplied
    <2>1. /\ UNCHANGED <<file, cached, running, want, pre>>
          /\ tx'.todo = tx.todo \/ tx'.phase = "undo-units"
      BY <1>0, <1>4 DEF Executed, Qualify, FinalPlan, FinalPlanGuard, WriteApplied, notPhase, hostVars,
         Move, Raises, Raise, TxType, want
    <2>2. CASE Executed
      BY <1>0, <1>1, <2>1, <2>2, ReadyStays DEF Executed, ReadyInv, Evident, TxType
    <2>3. CASE Qualify
      BY <1>0, <1>1, <2>1, <2>3, ReadyStays, QualifiedRuns
         DEF Qualify, Move, Raises, Raise, ReadyInv, Evident, TxType
    <2>4. CASE FinalPlan \/ FinalPlanGuard \/ WriteApplied
      BY <1>0, <1>1, <2>1, <2>4, ReadyStays
         DEF FinalPlan, FinalPlanGuard, WriteApplied, Move, Raises, Raise, ReadyInv, Evident, TxType
    <2> QED
      BY <1>4, <2>2, <2>3, <2>4
  <1>5. CASE Operator \/ DropUnknown \/ UNCHANGED vars
    <2>1. UNCHANGED <<file, cached, running, tx, pre>>
      BY <1>5 DEF Operator, Update, Command, Redeclare, notOperator, DropUnknown, vars, hostVars
    <2>2. UNCHANGED want
      BY <2>1 DEF want
    <2> QED
      BY <2>1, <2>2, ReadyStays DEF ReadyInv
  <1>6. CASE Finish \/ RollbackReload \/ Kill \/ Reboot \/ Refuse \/ FinishRaises \/ FailsEarly
               \/ RollbackUnits \/ RollbackFiles \/ RollbackFilesRaises
    <2>1. CASE Finish \/ RollbackReload \/ Kill \/ Reboot \/ Refuse
      BY <1>1, <2>1 DEF Finish, RollbackReload, Kill, Reboot, Refuse, NoTx, Evident
    <2>2. CASE FinishRaises \/ FailsEarly
      BY <1>0, <1>1, <2>2 DEF FinishRaises, FailsEarly, Raises, Raise, Evident, TxType
    <2>3. CASE RollbackUnits \/ RollbackFiles \/ RollbackFilesRaises
      BY <1>0, <1>1, <2>3
         DEF RollbackUnits, RollbackFiles, RollbackFilesRaises, Move, Evident, TxType
    <2> QED
      BY <1>6, <2>1, <2>2, <2>3
  <1>7. CASE RecoverOwner
    BY <1>0, <1>1, <1>7 DEF RecoverOwner, Evident
  <1>8. CASE \E req \in {"plain", "forced"} : Lock(req)
    BY <1>0, <1>1, <1>8, LockPlans DEF Evident
  <1>9. ~Guard /\ ~(\E r \in Resource : Tamper(r))
    BY DEF Guard, GuardBegins, GuardObserves, GuardRestarts, GuardEnds, Tamper
  <1> QED
    BY <1>2, <1>3, <1>4, <1>5, <1>6, <1>7, <1>8, <1>9 DEF Next, Worker, Environment

\* An apply that succeeds leaves every wanted service running from what the
\* declaration renders, though the plan restarts only what it sees changed:
\* whichever edit it follows, whatever else fails, and wherever workers or
\* the host died before, as long as it began with nothing stale.
THEOREM AppliesRunWhatIsDeclared ==
    ASSUME Hazards \cap {"tick", "tamper"} = {}
    PROVE  Spec => AppliedRunsDeclared
  <1> DEFINE Inv == TypeInv /\ guardpc = "off" /\ ReadyInv
  <1>1. Init => Inv
    BY InitTyped, InitReady DEF Init
  <1>2. Inv /\ [Next]_vars => Inv'
    <2> SUFFICES ASSUME Inv, [Next]_vars PROVE Inv'
      OBVIOUS
    <2>1. guardpc' = "off"
      BY GuardStaysOff
    <2> QED
      BY <2>1, NextTyped, NextReady
  <1> DEFINE Runs ==
        EndsApplied /\ pre.fresh =>
            /\ \A u \in Wanted(want) :
                  running[u] # None /\ running[u].unit = Text(u, want.cfg)
            /\ Tunnel \in Wanted(want) => running[Tunnel].profile = Text(Profile, want.cfg)
  <1>3. Inv => [Runs]_vars
    <2> SUFFICES ASSUME TypeInv, ReadyInv, tx.phase = "commit", pre.fresh PROVE Runs
      BY DEF EndsApplied
    <2>1. \A u \in Up(want) : RunsAs(u, want)
      BY DEF ReadyInv, Evident
    <2>2. Up(want) = Wanted(want)
      BY NoneIsNoDeclaration DEF TypeInv, ActiveWant, want, Up, ValidDeclaration
    <2> QED
      BY <2>1, <2>2 DEF RunsAs, RunsUnit
  <1> QED
    BY <1>1, <1>2, <1>3, PTL DEF Spec, AppliedRunsDeclared

(***************************************************************************)
(* When nothing goes wrong, the host is what the last declaration that was *)
(* applied says, and nothing else: between transactions, and after the one *)
(* that fails, for an edit of the health host alone.  So the next plan     *)
(* finds only what it knows.  Within a transaction, what is not wanted is  *)
(* gone already or still to be taken away.                                 *)
(***************************************************************************)
FilesAs(files, d) ==
    \A r \in Resource :
        IF r \in Installed(d) THEN files[r] = Text(r, d.cfg) ELSE files[r] = Absent

\* The host after an apply, and between transactions: a rollback leaves the
\* guard's timer stopped or disabled that the transaction had added.
Deployed(d) ==
    /\ FilesAs(file, d)
    /\ \A u \in Unit : UpToDate(u)
    /\ enabled = Installed(d) \cap Service
    /\ \A u \in Service : IF u \in Up(d) THEN RunsAs(u, d) ELSE running[u] = None
AsApplied(d) ==
    /\ FilesAs(file, d)
    /\ \A u \in Unit : UpToDate(u)
    /\ enabled \subseteq Installed(d) \cap Service
    /\ Installed(d) \cap Loggers \subseteq enabled
    /\ \A u \in Service :
          IF u \in Up(d) THEN RunsAs(u, d) \/ (u = Timer /\ running[u] = None)
          ELSE running[u] = None

LeftoversDue ==
    /\ \A r \in Resource \ Installed(want) : file[r] = Absent \/ ToDo("remove", r)
    /\ \A u \in Unit \ Installed(want) : UpToDate(u) \/ ToDo("reload-removed", "host")
EnabledDue ==
    \A u \in Unit :
        IF u \in Installed(want) \cap Service THEN u \in enabled \/ ToDo("enable", u)
        ELSE u \in enabled => ToDo("disable", u)
StopsDue == \A u \in Service \ Up(want) : running[u] = None \/ ToDo("stop", u)

\* The checks find what they look for.
ChecksPass ==
    /\ ToDo("check", "host") =>
          \A u \in Unit : ToDo("stop", u) \/ ToDo("disable", u) => ToDo("remove", u)
    /\ ToDo("check", "host") \/ ToDo("recheck", "host") =>
          (ToDo("remove", StateDir) => ToDo("remove", Owner))
    /\ ToDo("remove", StateDir) => ~Present(want)

\* A tunnel that was applied with another health host is not restarted; it
\* and the MCP service then are the ones the transaction found, unbooked.
TunnelKept ==
    Tunnel \in Up(want) =>
        \/ RunsAs(Tunnel, want)
        \/ LaunchDue(Tunnel)
        \/ HostMoved(applied, want) /\ RunsAs(Tunnel, applied)
ServingKept ==
    HostMoved(applied, want) =>
        \A u \in Loggers : /\ running[u] # None /\ u \in enabled
                           /\ u \notin rb.started \cup rb.enabled /\ ~ToDo("enable", u)

Clearing == LeftoversDue /\ EnabledDue /\ StopsDue /\ ChecksPass /\ TunnelKept /\ ServingKept

\* What the transaction started from, and what its rollback comes back to.
Before ==
    /\ FilesAs(pre.file, applied)
    /\ pre.enabled \subseteq Installed(applied) \cap Service
    /\ pre.active \subseteq Up(applied)
Undoing ==
    /\ HostMoved(applied, want) /\ Before
    /\ \A u \in Loggers :
          RunsAs(u, applied) /\ u \in enabled /\ u \notin rb.started \cup rb.enabled
    /\ running[Timer] # None => running[Timer].unit = Text(Timer, applied.cfg)

Undo == {"undo-units", "undo-files", "undo-reload"}
DeployedInv ==
    /\ guardpc = "off" /\ contents \subseteq {"runtime"}
    /\ journal.clean /\ ~rb.discarded /\ pre.fresh
    /\ tx.phase \in {"idle", "planning"} => AsApplied(applied)
    /\ tx.phase \in {"execute", "qualify"} => Clearing /\ Before
    /\ tx.phase \in Evident => Deployed(want)
    /\ tx.phase = "commit" => applied = want
    /\ tx.phase \in Undo => Undoing

(***************************************************************************)
(* What a plan finds on such a host.                                       *)
(***************************************************************************)
\* A declaration's own files are exact, whatever else is wanted of them.
LEMMA ObservesOwn ==
    ASSUME NEW a \in ValidDeclaration \cup {None}, FilesAs(file, a), NEW d, NEW r \in Resource
    PROVE  /\ file[r] # Absent <=> r \in Installed(a)
           /\ Observe(r, d) = IF r \notin Installed(a) THEN "absent"
                              ELSE IF Text(r, a.cfg) = Text(r, d.cfg) THEN "exact" ELSE "different"
  <1>1. CASE r \notin Installed(a)
    BY <1>1 DEF FilesAs, Observe
  <1>2. CASE r \in Installed(a)
    <2>1. a \in ValidDeclaration /\ a.cfg \in Configs
      BY <1>2, DeclarationFields DEF Installed
    <2>2. StateDir \in Installed(a) /\ Owner \in Installed(a) /\ Owner \in Resource
      BY <1>2, InstalledKinds, ResourceKinds
    <2>3. file[r] = Text(r, a.cfg) /\ file[Owner] = Text(Owner, a.cfg)
      BY <1>2, <2>2 DEF FilesAs
    <2>4. file[r] \notin {Absent, Foreign} /\ file[Owner] \notin {Absent, Foreign}
      BY <2>1, <2>2, <2>3, TextIsFileValue
    <2> QED
      BY <1>2, <2>3, <2>4 DEF Observe
  <1> QED
    BY <1>1, <1>2

\* The services that were applied listen where the declaration says.
LEMMA AppliedListens ==
    ASSUME NEW a \in ValidDeclaration \cup {None}, AsApplied(a) \/ Deployed(a)
    PROVE  /\ McpEndpoint = IF Up(a) = {} THEN {} ELSE {a.cfg["mcp"]}
           /\ HealthEndpoint = IF Up(a) = {} THEN {} ELSE {<<a.cfg["healthHost"], a.cfg["health"]>>}
  <1>0. \A u \in Loggers : u \in Service /\ u # Timer
    BY ResourceKinds DEF Loggers
  <1>1. CASE Up(a) = {}
    <2>1. running[Mcp] = None /\ running[Tunnel] = None
      BY <1>0, <1>1 DEF Deployed, AsApplied, Loggers
    <2> QED
      BY <1>1, <2>1 DEF McpEndpoint, HealthEndpoint
  <1>2. CASE Up(a) # {}
    <2>1. Mcp \in Up(a) /\ Tunnel \in Up(a) /\ a.cfg \in Configs
      BY <1>2, InstalledKinds, DeclarationFields DEF Up
    <2>2. RunsAs(Mcp, a) /\ RunsAs(Tunnel, a)
      BY <1>0, <2>1 DEF Deployed, AsApplied, Loggers
    <2>3. running[Mcp].unit = Text(Mcp, a.cfg) /\ running[Tunnel].profile = Text(Profile, a.cfg)
          /\ running[Mcp] # None /\ running[Tunnel] # None
      BY <2>2 DEF RunsAs, RunsUnit
    <2>4. Text(Mcp, a.cfg) \notin {Absent, Foreign} /\ Text(Profile, a.cfg) \notin {Absent, Foreign}
      BY <2>1, TextIsFileValue, ResourceKinds
    <2>5. Text(Mcp, a.cfg)["mcp"] = a.cfg["mcp"]
      BY TextFields DEF McpUnitFields
    <2>6. Text(Profile, a.cfg)["healthHost"] = a.cfg["healthHost"]
          /\ Text(Profile, a.cfg)["health"] = a.cfg["health"]
      BY TextFields DEF ProfileFields
    <2>7. McpEndpoint = {a.cfg["mcp"]}
      BY <2>3, <2>4, <2>5 DEF McpEndpoint
    <2>8. HealthEndpoint = {<<a.cfg["healthHost"], a.cfg["health"]>>}
      BY <2>3, <2>4, <2>6 DEF HealthEndpoint
    <2> QED
      BY <1>2, <2>7, <2>8
  <1> QED
    BY <1>1, <1>2

\* Whatever is declared next is accepted, with the one exception: no file is
\* another's, no guard unit differs from what was applied, no endpoint is
\* served by a unit it is not.
LEMMA OwnIsAccepted ==
    ASSUME applied \in ValidDeclaration \cup {None}, AsApplied(applied),
           NEW d \in ValidDeclaration, ~PortMoved(applied, d)
    PROVE  PlanValid(d)
  <1> DEFINE a == applied
  <1>0. FilesAs(file, a)
    BY DEF AsApplied
  <1>1. ~FileConflict(d)
    BY <1>0, ObservesOwn, BundleKinds DEF FileConflict
  <1>2. ~StaleConflict(d)
    <2> SUFFICES ASSUME NEW r \in Stale(d) PROVE file[r] = Text(r, a.cfg)
      BY DEF StaleConflict
    <2>1. r \in Resource /\ file[r] # Absent
      BY BundleKinds, ResourceKinds
    <2> QED
      BY <1>0, <2>1 DEF FilesAs
  <1>3. Present(d) => ~ListenerConflict(d)
    <2>1. CASE Up(a) = {}
      BY <2>1, AppliedListens DEF ListenerConflict
    <2>2. CASE Up(a) # {}
      <3>1. /\ Mcp \in Installed(a) /\ Tunnel \in Installed(a) /\ a \in ValidDeclaration
            /\ a.cfg \in Configs /\ Serving(a) /\ Mcp \in Resource /\ Tunnel \in Resource
        BY <2>2, InstalledKinds, DeclarationFields, ResourceKinds DEF Up, Wanted, Serving
      <3>2. d.cfg["mcp"] = a.cfg["mcp"] => ServedByOwnMcp(d)
        <4>1. Def(Mcp) = Text(Mcp, a.cfg)
          BY <1>0, <3>1, ResourceKinds DEF AsApplied, FilesAs, UpToDate
        <4>2. Def(Mcp) \notin {Absent, Foreign} /\ Def(Mcp)["mcp"] = a.cfg["mcp"]
          BY <3>1, <4>1, TextIsFileValue, TextFields DEF McpUnitFields
        <4>3. Observe(Mcp, d) \in {"exact", "different"}
          BY <1>0, <3>1, ObservesOwn
        <4> QED
          BY <4>2, <4>3 DEF ServedByOwnMcp
      <3>3. Present(d) /\ SameHealthEndpoint(a, d) => Observe(Tunnel, d) = "exact"
        <4>1. Present(d) /\ SameHealthEndpoint(a, d) => SameUnit(Tunnel, a, d)
          BY <3>1 DEF PortMoved
        <4> QED
          BY <1>0, <3>1, <4>1, ObservesOwn DEF SameUnit
      <3> QED
        BY <2>2, <3>2, <3>3, AppliedListens DEF ListenerConflict, SameHealthEndpoint
    <2> QED
      BY <2>1, <2>2
  <1> QED
    BY <1>1, <1>2, <1>3 DEF PlanValid, Conflict

LEMMA AppliedIsFresh ==
    ASSUME applied \in ValidDeclaration \cup {None}, AsApplied(applied)
    PROVE  Fresh
  <1> DEFINE a == applied
  <1>1. ASSUME NEW u \in Service, running[u] # None
        PROVE  /\ running[u].unit = file[u]
               /\ u = Tunnel => \E c \in Configs :
                    running[Tunnel].unit = Text(Tunnel, c) /\ running[Tunnel].profile = Text(Profile, c)
    <2>1. u \in Up(a) /\ RunsAs(u, a)
      BY <1>1 DEF AsApplied
    <2>2. u \in Installed(a) /\ u \in Resource /\ a.cfg \in Configs
      BY <2>1, InstalledKinds, DeclarationFields DEF Up
    <2>3. file[u] = Text(u, a.cfg)
      BY <2>2 DEF AsApplied, FilesAs
    <2> QED
      BY <2>1, <2>2, <2>3 DEF RunsAs, RunsUnit
  <1>2. Tunnel \in Service
    BY ResourceKinds
  <1> QED
    BY <1>1, <1>2 DEF Fresh, AsApplied, UpToDate

\* On a host that is what is wanted, nothing is left to do, whatever the
\* evidence still says.
LEMMA DeployedIsFinal ==
    ASSUME want \in ValidDeclaration, Deployed(want), guardpc = "off"
    PROVE  /\ PlanValid(want) /\ Changed(want) = {} /\ Removes(want) = {}
           /\ \A S : UnitWork(S) = {}
  <1>0. want # None /\ want.cfg \in Configs /\ FilesAs(file, want)
    BY NoneIsNoDeclaration, DeclarationFields DEF ValidDeclaration, Deployed
  <1>1. \A r \in Resource : Observe(r, want) = IF r \in Installed(want) THEN "exact" ELSE "absent"
    BY <1>0, ObservesOwn
  <1>2. Stale(want) = {}
    <2> SUFFICES ASSUME NEW r \in Stale(want) PROVE FALSE
      OBVIOUS
    <2>1. r \in Resource /\ r \notin Bundle(want) /\ file[r] # Absent
      BY BundleKinds, ResourceKinds
    <2> QED
      BY <1>0, <2>1 DEF FilesAs, Installed
  <1>3. Present(want) => Installed(want) = Bundle(want)
    BY <1>0 DEF Installed
  <1>4. ~Present(want) => Installed(want) = {}
    BY DEF Installed
  <1>5. Changed(want) = {} /\ Removes(want) = {}
    BY <1>1, <1>2, <1>3, <1>4, BundleKinds DEF Changed, Creates, Updates, Removes
  <1>6. PlanValid(want)
    <2>1. ~FileConflict(want) /\ ~StaleConflict(want)
      BY <1>1, <1>2, BundleKinds DEF FileConflict, StaleConflict
    <2>2. Present(want) => ~ListenerConflict(want)
      BY <1>1, <1>3, BundleKinds, ResourceKinds DEF ListenerConflict, ServedByOwnMcp
    <2> QED
      BY <2>1, <2>2 DEF PlanValid, Conflict
  <1>7. \A u \in Service : IsActive(u) <=> u \in Up(want)
    <2> SUFFICES ASSUME NEW u \in Service PROVE IsActive(u) <=> u \in Up(want)
      OBVIOUS
    <2> QED
      BY ResourceKinds DEF IsActive, Deployed, RunsAs, RunsUnit
  <1>8. ~IsActive(GuardSvc) /\ Up(want) = Wanted(want)
    BY <1>0 DEF IsActive, Up
  <1>9. Enables(want) = {} /\ Disables(want) = {}
    <2>1. EnabledUnits = Installed(want) \cap Service
      <3>1. \A u \in Installed(want) : file[u] # Absent
        BY <1>0, InstalledKinds, ObservesOwn
      <3> QED
        BY <3>1 DEF EnabledUnits, Deployed
    <2> QED
      BY <1>2, <1>3, <1>4, <2>1 DEF Enables, Disables, BundleUnits, EnableWhenPresent
  <1>10. Starts(want) = {} /\ Restarts(want) = {} /\ Stops(want) = {}
    <2>1. Wanted(want) \subseteq Service /\ BundleUnits(want) \subseteq Unit
      BY DEF Wanted, BundleUnits, ActiveWhenRunning
    <2> QED
      BY <1>2, <1>5, <1>7, <1>8, <2>1, ResourceKinds DEF Starts, Restarts, Stops
  <1> QED
    BY <1>5, <1>6, <1>9, <1>10 DEF UnitWork

\* The plan takes away what the last declaration had and this one has not.
LEMMA PlannedAway ==
    ASSUME applied \in ValidDeclaration \cup {None}, AsApplied(applied), guardpc = "off",
           NEW d \in ValidDeclaration
    PROVE  /\ Removes(d) = Installed(applied) \ Installed(d)
           /\ Disables(d) = enabled \ Installed(d)
           /\ Stops(d) = {u \in Service \ Up(d) : running[u] # None}
           /\ {u \in Service : running[u] # None} \subseteq Up(applied)
  <1> DEFINE a == applied
  <1>0. /\ d # None
        /\ Installed(d) = IF Present(d) THEN Bundle(d) ELSE {}
        /\ Up(d) = Wanted(d) /\ FilesAs(file, a)
    BY NoneIsNoDeclaration DEF ValidDeclaration, Installed, Up, AsApplied
  <1>1. /\ Installed(a) # {} => a # None /\ Present(a) /\ Installed(a) = Bundle(a)
        /\ Bundle(a) \subseteq Resource /\ Bundle(d) \subseteq Resource
        /\ Resource \ Bundle(d) \subseteq GuardResource /\ Installed(a) \subseteq Resource
    BY InstalledKinds, BundleKinds DEF Installed, Bundle
  <1>2. \A r \in Resource : file[r] # Absent <=> r \in Installed(a)
    BY <1>0, ObservesOwn
  <1>3. Stale(d) = Installed(a) \ Bundle(d)
    <2>1. \A r \in GuardResource : r \in Resource
      BY ResourceKinds
    <2> QED
      BY <1>1, <1>2, <2>1 DEF Stale, Installed
  <1>4. Removes(d) = Installed(a) \ Installed(d)
    <2>1. \A r \in Bundle(d) : Observe(r, d) \in {"exact", "different"} <=> r \in Installed(a)
      BY <1>0, <1>1, ObservesOwn
    <2> QED
      BY <1>0, <1>1, <1>3, <2>1 DEF Removes
  <1>5. EnabledUnits = enabled /\ enabled \subseteq Installed(a) \cap Service
    BY <1>1, <1>2 DEF EnabledUnits, AsApplied
  <1>6. Disables(d) = enabled \ Installed(d)
    BY <1>0, <1>1, <1>3, <1>5, ResourceKinds DEF Disables, BundleUnits
  <1>7. \A u \in Unit : IsActive(u) <=> u \in Service /\ running[u] # None
    BY ResourceKinds DEF IsActive
  <1>8. {u \in Service : running[u] # None} \subseteq Up(a)
    BY DEF AsApplied
  <1>9. Stops(d) = {u \in Service \ Up(d) : running[u] # None}
    <2>1. Up(a) \subseteq Installed(a) \cap Service /\ Up(d) \subseteq Bundle(d) \cap Unit
      BY <1>0, InstalledKinds DEF Wanted, BundleUnits
    <2> QED
      BY <1>0, <1>3, <1>7, <1>8, <2>1, ResourceKinds DEF Stops, BundleUnits
  <1> QED
    BY <1>4, <1>6, <1>8, <1>9

\* A tunnel whose unit is kept has the profile that is wanted, unless its
\* health host is another.
LEMMA SameTunnel ==
    ASSUME NEW a \in ValidDeclaration, NEW d \in ValidDeclaration,
           Up(a) # {}, Up(d) # {}, SameUnit(Tunnel, a, d), SameUnit(Mcp, a, d)
    PROVE  Text(Profile, a.cfg) = Text(Profile, d.cfg) \/ HostMoved(a, d)
  <1>1. Serving(a) /\ Running(d)
    BY NoneIsNoDeclaration DEF Up, Wanted, Serving, ValidDeclaration
  <1>2. a.cfg["mcp"] = d.cfg["mcp"]
    BY TextFields DEF SameUnit, TunnelUnitFields
  <1>3. Fields(Profile) = ProfileFields
    BY DEF Fields, Profile, Mcp, Tunnel
  <1>4. SameHealthEndpoint(a, d) => Text(Profile, a.cfg) = Text(Profile, d.cfg)
    BY <1>2, <1>3 DEF Text, ProfileFields, SameHealthEndpoint
  <1> QED
    BY <1>1, <1>4 DEF HostMoved

LEMMA BeginClears ==
    ASSUME TypeInv, guardpc = "off", AsApplied(applied), Begin
    PROVE  Clearing' /\ Before'
  <1> DEFINE a == applied
             In(op, r) == <<op, r>> \in PlanSteps(want, tx.force)
  <1>0. /\ a \in ValidDeclaration \cup {None} /\ want \in ValidDeclaration
        /\ want # None /\ tx \in TxType /\ FilesAs(file, a)
    BY NoneIsNoDeclaration
       DEF TypeInv, TypeOK, ActiveWant, want, ValidDeclaration, Begin, TxType, AsApplied
  <1>1. /\ want' = want /\ tx'.todo = PlanSteps(want, tx.force) /\ rb' = NoUndo
        /\ UNCHANGED <<file, enabled, cached, running, applied>>
        /\ pre'.file = file /\ pre'.enabled = enabled /\ pre'.active = {u \in Service : IsActive(u)}
    BY <1>0 DEF Begin, notHost, TxType, want
  <1>2. \A op, r : ToDo(op, r)' <=> In(op, r)
    BY <1>1 DEF ToDo
  <1>3. /\ Installed(want)' = Installed(want) /\ Up(want)' = Up(want) /\ Present(want)' = Present(want)
        /\ Installed(applied)' = Installed(a) /\ Up(applied)' = Up(a)
        /\ HostMoved(applied, want)' = HostMoved(a, want)
        /\ \A u : UpToDate(u)' = UpToDate(u)
        /\ \A u : RunsAs(u, want)' = RunsAs(u, want) /\ RunsAs(u, applied)' = RunsAs(u, a)
    BY <1>1 DEF Installed, Up, Bundle, Present, Running, Wanted, BundleUnits, UpToDate, Def,
       RunsAs, RunsUnit, HostMoved, Serving, SameHealthEndpoint, SameUnit
  <1>4. /\ Removes(want) = Installed(a) \ Installed(want)
        /\ Disables(want) = enabled \ Installed(want)
        /\ Stops(want) = {u \in Service \ Up(want) : running[u] # None}
        /\ {u \in Service : running[u] # None} \subseteq Up(a)
    BY <1>0, PlannedAway
  <1>5. /\ Present(want) => Installed(want) = Bundle(want)
        /\ ~Present(want) => Installed(want) = {}
        /\ Up(want) = Wanted(want)
        /\ Up(want) \subseteq Installed(want) \cap Service
        /\ Up(a) \subseteq Installed(a) \cap Service
        /\ enabled \subseteq Installed(a) \cap Service
        /\ Service \subseteq Unit
    BY <1>0, InstalledKinds, ResourceKinds DEF Installed, Up, AsApplied
  <1>6. \A u \in Service : IsActive(u) <=> running[u] # None
    BY ResourceKinds DEF IsActive
  <1>7. LeftoversDue'
    <2>1. \A r \in Resource \ Installed(want) : file[r] = Absent \/ In("remove", r)
      BY <1>0, <1>4, PlannedSteps DEF FilesAs
    <2> QED
      BY <1>1, <1>2, <1>3, <2>1 DEF LeftoversDue, AsApplied
  <1>8. EnabledDue'
    <2> SUFFICES ASSUME NEW u \in Unit
                 PROVE  IF u \in Installed(want) \cap Service THEN u \in enabled \/ In("enable", u)
                        ELSE u \in enabled => In("disable", u)
      BY <1>1, <1>2, <1>3 DEF EnabledDue
    <2>1. CASE u \in Installed(want) \cap Service
      <3>1. Present(want) /\ u \in BundleUnits(want) \cap EnableWhenPresent
        BY <1>5, <2>1 DEF BundleUnits, EnableWhenPresent
      <3>2. u \notin enabled => u \in Enables(want)
        BY <3>1 DEF Enables, EnabledUnits
      <3> QED
        BY <2>1, <3>1, <3>2, PlannedSteps
    <2>2. CASE u \notin Installed(want) \cap Service
      BY <1>4, <1>5, <2>2, PlannedSteps
    <2> QED
      BY <2>1, <2>2
  <1>9. StopsDue'
    BY <1>1, <1>2, <1>3, <1>4, PlannedSteps DEF StopsDue
  <1>10. ChecksPass'
    <2>1. In("check", "host") => Installed(want) = {} /\ ~Present(want)
      BY <1>5, PlannedHostSteps
    <2>2. In("check", "host") =>
             \A u \in Unit : In("stop", u) \/ In("disable", u) => In("remove", u)
      <3>1. \A u \in Unit : In("stop", u) \/ In("disable", u) => u \in Installed(a)
        BY <1>4, <1>5, PlannedSteps
      <3> QED
        BY <1>4, <2>1, <3>1, PlannedSteps
    <2>3. In("remove", StateDir) => ~Present(want) /\ In("remove", Owner)
      <3> SUFFICES ASSUME In("remove", StateDir) PROVE ~Present(want) /\ In("remove", Owner)
        OBVIOUS
      <3>1. StateDir \in Installed(a) /\ StateDir \notin Installed(want)
        BY <1>4, PlannedSteps
      <3>2. ~Present(want) /\ Installed(want) = {}
        BY <1>5, <3>1, BundleKinds
      <3>3. Owner \in Installed(a)
        BY <3>1, InstalledKinds
      <3> QED
        BY <1>4, <3>2, <3>3, PlannedSteps
    <2> QED
      BY <1>2, <1>3, <2>2, <2>3 DEF ChecksPass
  <1>11. TunnelKept'
    <2> SUFFICES ASSUME Tunnel \in Up(want)
                 PROVE  \/ RunsAs(Tunnel, want)
                        \/ HostMoved(a, want) /\ RunsAs(Tunnel, a)
                        \/ running[Tunnel] = None /\ In("start", Tunnel)
                        \/ In("restart", Tunnel)
      BY <1>1, <1>2, <1>3 DEF TunnelKept, LaunchDue
    <2>0. /\ Tunnel \in Wanted(want) /\ Mcp \in Wanted(want) /\ Tunnel \in Service /\ Present(want)
          /\ {Mcp, Tunnel} \subseteq Bundle(want) \cap Resource
      BY <1>5, InstalledKinds, ResourceKinds, BundleKinds DEF Wanted
    <2>1. CASE running[Tunnel] = None
      BY <1>6, <2>0, <2>1, PlannedSteps DEF Starts
    <2>2. CASE running[Tunnel] # None
      <3>1. /\ Tunnel \in Up(a) /\ RunsAs(Tunnel, a) /\ a \in ValidDeclaration
            /\ {Mcp, Tunnel} \subseteq Installed(a)
        BY <1>0, <1>4, <2>0, <2>2, InstalledKinds, ResourceKinds DEF AsApplied, Up
      <3>2. \A u \in {Mcp, Tunnel} : ~SameUnit(u, a, want) => u \in Changed(want)
        BY <1>0, <2>0, <3>1, ObservesOwn DEF SameUnit, Changed, Updates
      <3>3. ~SameUnit(Mcp, a, want) \/ ~SameUnit(Tunnel, a, want) => In("restart", Tunnel)
        BY <1>6, <2>0, <2>2, <3>2, PlannedSteps DEF Restarts
      <3>4. SameUnit(Mcp, a, want) /\ SameUnit(Tunnel, a, want) =>
               Text(Profile, a.cfg) = Text(Profile, want.cfg) \/ HostMoved(a, want)
        BY <1>0, <3>1, SameTunnel
      <3> QED
        BY <3>1, <3>3, <3>4 DEF RunsAs, RunsUnit, SameUnit
    <2> QED
      BY <2>1, <2>2
  <1>12. ServingKept'
    <2> SUFFICES ASSUME HostMoved(a, want), NEW u \in Loggers
                 PROVE  running[u] # None /\ u \in enabled /\ ~In("enable", u)
      BY <1>1, <1>2, <1>3 DEF ServingKept, NoUndo
    <2>1. a # None /\ Running(a) /\ a \in ValidDeclaration
      BY <1>0 DEF HostMoved, Serving
    <2>2. Present(a)
      BY <2>1 DEF ValidDeclaration, Declaration, Present, Running
    <2>3. u \in Up(a) /\ u \in Installed(a) /\ u # Timer /\ u \in Service
      BY <2>1, <2>2, BundleKinds, ResourceKinds
         DEF Up, Wanted, Installed, Loggers, BundleUnits, ActiveWhenRunning
    <2>4. running[u] # None /\ u \in enabled
      BY <2>3 DEF AsApplied, RunsAs, RunsUnit
    <2>5. u \in EnabledUnits
      BY <1>0, <2>3, <2>4, ObservesOwn, ResourceKinds DEF EnabledUnits
    <2> QED
      BY <2>4, <2>5, PlannedSteps DEF Enables
  <1>13. Before'
    BY <1>0, <1>1, <1>3, <1>4, <1>5, <1>6 DEF Before, FilesAs
  <1> QED
    BY <1>7, <1>8, <1>9, <1>10, <1>11, <1>12, <1>13 DEF Clearing

(***************************************************************************)
(* The steps take away what is not wanted, and nothing that serves on.     *)
(***************************************************************************)
ClearDone(s) == StepDone(s) /\ Clearing /\ UNCHANGED applied

LEMMA ClearContext ==
    ASSUME NEW s, ClearDone(s)
    PROVE  /\ LeftoversDue /\ EnabledDue /\ StopsDue /\ ChecksPass /\ TunnelKept /\ ServingKept
           /\ HostMoved(applied, want)' = HostMoved(applied, want)
           /\ \A u : running'[u] = running[u] =>
                 RunsAs(u, want)' = RunsAs(u, want) /\ RunsAs(u, applied)' = RunsAs(u, applied)
           /\ HostMoved(applied, want) => Loggers \subseteq Up(want)
  <1>1. want' = want /\ want \in ValidDeclaration /\ want # None
    BY StepContext DEF ClearDone, StepDone
  <1>2. HostMoved(applied, want) => Present(want) /\ Running(want)
    BY <1>1 DEF HostMoved, ValidDeclaration, Declaration, Present, Running
  <1>3. HostMoved(applied, want) => Loggers \subseteq Up(want)
    BY <1>1, <1>2, BundleKinds, ResourceKinds
       DEF Up, Wanted, Loggers, BundleUnits, ActiveWhenRunning
  <1>4. \A u : running'[u] = running[u] =>
           RunsAs(u, want)' = RunsAs(u, want) /\ RunsAs(u, applied)' = RunsAs(u, applied)
    BY <1>1 DEF ClearDone, RunsAs, RunsUnit
  <1>5. HostMoved(applied, want)' = HostMoved(applied, want)
    BY <1>1 DEF ClearDone, HostMoved, Serving, Running, SameHealthEndpoint, SameUnit
  <1> QED
    BY <1>3, <1>4, <1>5 DEF ClearDone, Clearing

LEMMA LeftoversStay ==
    ASSUME NEW s, ClearDone(s), UNCHANGED file, s[1] \notin {"remove", "reload-removed"},
           \A u \in Unit : UpToDate(u) => UpToDate(u)'
    PROVE  LeftoversDue'
  <1>1. \A r : s # <<"remove", r>> /\ s # <<"reload-removed", r>>
    OBVIOUS
  <1>2. /\ Installed(want)' = Installed(want)
        /\ \A op, r : ToDo(op, r)' <=> ToDo(op, r) /\ s # <<op, r>>
    BY StepContext DEF ClearDone
  <1> QED
    BY <1>1, <1>2, ClearContext DEF LeftoversDue

LEMMA EnablementStays ==
    ASSUME NEW s, ClearDone(s), UNCHANGED enabled, s[1] \notin {"enable", "disable"}
    PROVE  EnabledDue'
  <1>1. \A u : s # <<"enable", u>> /\ s # <<"disable", u>>
    OBVIOUS
  <1>2. /\ Installed(want)' = Installed(want)
        /\ \A op, r : ToDo(op, r)' <=> ToDo(op, r) /\ s # <<op, r>>
    BY StepContext DEF ClearDone
  <1> QED
    BY <1>1, <1>2, ClearContext DEF EnabledDue

LEMMA ProcessesStay ==
    ASSUME NEW s, ClearDone(s), UNCHANGED running, s[1] \notin {"stop"} \cup Launching
    PROVE  StopsDue' /\ TunnelKept'
  <1>1. \A u : s # <<"stop", u>> /\ s # <<"start", u>> /\ s # <<"restart", u>>
    BY DEF Launching
  <1>2. /\ Up(want)' = Up(want)
        /\ \A op, r : ToDo(op, r)' <=> ToDo(op, r) /\ s # <<op, r>>
    BY StepContext DEF ClearDone
  <1>3. \A u : LaunchDue(u)' = LaunchDue(u)
    BY <1>1, <1>2 DEF LaunchDue
  <1> QED
    BY <1>1, <1>2, <1>3, ClearContext DEF StopsDue, TunnelKept

LEMMA ServingStays ==
    ASSUME NEW s, ClearDone(s),
           \A u \in Up(want) : running[u] # None => running'[u] # None,
           Up(want) \cap enabled \subseteq enabled',
           rb'.started \cup rb'.enabled \subseteq
               rb.started \cup rb.enabled \cup (IF ToDo("enable", s[2]) THEN {s[2]} ELSE {})
                   \cup {u \in Service : running[u] = None}
    PROVE  ServingKept'
  <1>1. \A op, r : ToDo(op, r)' => ToDo(op, r)
    BY StepContext DEF ClearDone
  <1> QED
    BY <1>1, ClearContext DEF ServingKept

LEMMA ChecksStayPassed ==
    ASSUME NEW s, ClearDone(s), s[1] # "check" => ~ToDo("check", "host"),
           s[1] = "remove" => ~ToDo("recheck", "host")
    PROVE  ChecksPass'
  <1>1. /\ Present(want)' = Present(want) /\ s = <<s[1], s[2]>>
        /\ \A op, r : ToDo(op, r)' <=> ToDo(op, r) /\ s # <<op, r>>
    BY StepContext DEF ClearDone
  <1>2. CASE s[1] = "remove"
    BY <1>1, <1>2, ClearContext DEF ChecksPass
  <1>3. CASE s[1] = "check"
    BY <1>1, <1>3, ClearContext DEF ChecksPass
  <1>4. CASE s[1] \notin {"remove", "check"}
    BY <1>1, <1>4, ClearContext DEF ChecksPass
  <1> QED
    BY <1>2, <1>3, <1>4

\* No step is done before the check.
LEMMA CheckIsFirst ==
    ASSUME NEW s, ClearDone(s)
    PROVE  /\ s[1] # "check" => ~ToDo("check", "host")
           /\ s[1] = "remove" => ~ToDo("recheck", "host")
  <1>1. Due(<<s[1], s[2]>>) /\ s \in Step
    BY StepContext DEF ClearDone
  <1>2. s[1] \in HostOp \cup FileOp \cup UnitOp
    BY <1>1 DEF Step
  <1> QED
    BY <1>1, <1>2, DueOrder DEF HostOp, FileOp, UnitOp, Launching

LEMMA CheckClears ==
    ASSUME NEW s, ClearDone(s), Check(s)
    PROVE  Clearing'
  <1>1. s[1] \in {"check", "recheck"} /\ UNCHANGED <<file, enabled, cached, running, rb>>
    BY DEF Check
  <1>2. \A u : UpToDate(u)' = UpToDate(u)
    BY <1>1 DEF UpToDate, Def
  <1>3. LeftoversDue' /\ EnabledDue' /\ StopsDue' /\ TunnelKept'
    BY <1>1, <1>2, LeftoversStay, EnablementStays, ProcessesStay DEF Launching
  <1>4. ServingKept' /\ ChecksPass'
    BY <1>1, ServingStays, ChecksStayPassed, CheckIsFirst
  <1> QED
    BY <1>3, <1>4 DEF Clearing

LEMMA WriteClears ==
    ASSUME NEW s, ClearDone(s), Write(s)
    PROVE  Clearing'
  <1> DEFINE r == s[2]
  <1>0. /\ s[1] \in {"create", "update"} /\ UNCHANGED <<enabled, cached, running>>
        /\ rb \in RbType /\ rb' = Booked(s)
        /\ r \in Installed(want) /\ Service \subseteq Unit /\ Unit \subseteq Resource
        /\ \A q \in Resource : q # r => file'[q] = file[q]
    <2>1. StepFits(s) /\ rb \in RbType /\ file \in [Resource -> FileValue]
      BY StepContext DEF ClearDone
    <2> QED
      BY <2>1, ResourceKinds DEF Write, StepFits
  <1>1. /\ Installed(want)' = Installed(want)
        /\ \A op, q : ToDo(op, q)' <=> ToDo(op, q) /\ s # <<op, q>>
    BY StepContext DEF ClearDone
  <1>2. LeftoversDue'
    <2>1. \A u \in Unit \ Installed(want) : UpToDate(u)' = UpToDate(u)
      BY <1>0 DEF UpToDate, Def
    <2>2. \A q : s # <<"remove", q>> /\ s # <<"reload-removed", q>>
      BY <1>0
    <2> QED
      BY <1>0, <1>1, <2>1, <2>2, ClearContext DEF LeftoversDue
  <1>3. EnabledDue' /\ StopsDue' /\ TunnelKept'
    BY <1>0, EnablementStays, ProcessesStay DEF Launching
  <1>4. rb'.started = rb.started /\ rb'.enabled = rb.enabled
    BY <1>0 DEF Booked, RbType
  <1>5. ServingKept' /\ ChecksPass'
    BY <1>0, <1>4, ServingStays, ChecksStayPassed, CheckIsFirst
  <1> QED
    BY <1>2, <1>3, <1>5 DEF Clearing

LEMMA ReloadClears ==
    ASSUME NEW s, ClearDone(s), DaemonReload(s)
    PROVE  Clearing'
  <1>1. /\ s[1] \in {"reload", "reload-removed"} /\ cached' = Reloaded(file)
        /\ UNCHANGED <<file, enabled, running, rb>>
    BY DEF DaemonReload
  <1>2. LeftoversDue'
    <2>1. /\ Installed(want)' = Installed(want)
          /\ \A op, q : ToDo(op, q)' <=> ToDo(op, q) /\ s # <<op, q>>
      BY StepContext DEF ClearDone
    <2>2. \A u \in Unit : UpToDate(u)'
      BY <1>1, ReloadingUpdates
    <2>3. \A q : s # <<"remove", q>>
      BY <1>1
    <2> QED
      BY <1>1, <2>1, <2>2, <2>3, ClearContext DEF LeftoversDue
  <1>3. EnabledDue' /\ StopsDue' /\ TunnelKept'
    BY <1>1, EnablementStays, ProcessesStay DEF Launching
  <1>4. ServingKept' /\ ChecksPass'
    BY <1>1, ServingStays, ChecksStayPassed, CheckIsFirst
  <1> QED
    BY <1>2, <1>3, <1>4 DEF Clearing

LEMMA EnablementClears ==
    ASSUME NEW s, ClearDone(s), Enable(s) \/ Disable(s)
    PROVE  Clearing'
  <1>0. /\ Installed(want)' = Installed(want) /\ Up(want) \subseteq Installed(want)
        /\ \A op, r : ToDo(op, r)' <=> ToDo(op, r) /\ s # <<op, r>>
        /\ StepFits(s) /\ s = <<s[1], s[2]>> /\ ToDo(s[1], s[2]) /\ rb \in RbType
    BY StepContext, InstalledKinds DEF ClearDone
  <1>1. /\ s[1] \in {"enable", "disable"} /\ cached' = Reloaded(file)
        /\ UNCHANGED <<file, running>>
        /\ s[1] = "enable" => enabled' = enabled \cup {s[2]}
        /\ s[1] = "disable" => enabled' = enabled \ {s[2]}
        /\ s[1] = "enable" => rb' = rb \/ rb' = [rb EXCEPT !.enabled = @ \cup {s[2]}]
        /\ s[1] = "disable" => rb' = rb
    BY DEF Enable, Disable
  <1>2. LeftoversDue' /\ StopsDue' /\ TunnelKept'
    BY <1>1, LeftoversStay, ProcessesStay, ReloadingUpdates DEF Launching
  <1>3. EnabledDue'
    <2> SUFFICES ASSUME NEW u \in Unit
                 PROVE  IF u \in Installed(want) \cap Service THEN u \in enabled' \/ ToDo("enable", u)'
                        ELSE u \in enabled' => ToDo("disable", u)'
      BY <1>0 DEF EnabledDue
    <2>1. IF u \in Installed(want) \cap Service THEN u \in enabled \/ ToDo("enable", u)
          ELSE u \in enabled => ToDo("disable", u)
      BY ClearContext DEF EnabledDue
    <2>2. CASE s[1] = "enable"
      BY <1>0, <1>1, <2>1, <2>2 DEF StepFits
    <2>3. CASE s[1] = "disable"
      BY <1>0, <1>1, <2>1, <2>3 DEF StepFits
    <2> QED
      BY <1>1, <2>2, <2>3
  <1>4. ServingKept'
    <2>1. Up(want) \cap enabled \subseteq enabled'
      BY <1>0, <1>1 DEF StepFits
    <2>2. rb'.started \cup rb'.enabled \subseteq
             rb.started \cup rb.enabled \cup (IF ToDo("enable", s[2]) THEN {s[2]} ELSE {})
      BY <1>0, <1>1 DEF RbType
    <2> QED
      BY <1>1, <2>1, <2>2, ServingStays
  <1>5. ChecksPass'
    BY <1>1, ChecksStayPassed, CheckIsFirst
  <1> QED
    BY <1>2, <1>3, <1>4, <1>5 DEF Clearing

LEMMA StartClears ==
    ASSUME NEW s, ClearDone(s), Start(s)
    PROVE  Clearing'
  <1>0. /\ Up(want)' = Up(want) /\ StepFits(s) /\ s = <<s[1], s[2]>>
        /\ \A op, r : ToDo(op, r)' <=> ToDo(op, r) /\ s # <<op, r>>
        /\ rb \in RbType /\ StepDone(s)
    BY StepContext DEF ClearDone
  <1>1. /\ s[1] \in Launching /\ running' = Launched(s) /\ s[2] \in Up(want)
        /\ cached' = Loaded({v \in Service : running'[v] # None})
        /\ UNCHANGED <<file, enabled>> /\ cached \in [Unit -> FileValue]
        /\ rb' = rb \/ rb' = StartBooked(s[2])
    BY <1>0 DEF Start, Launching, StepDone, TypeInv, TypeOK, HostTypeOK, StepFits
  <1>2. \A u \in Unit : UpToDate(u)' = UpToDate(u)
    BY <1>1, LoadingKeepsDefs DEF UpToDate
  <1>3. LeftoversDue' /\ EnabledDue' /\ ChecksPass'
    BY <1>1, <1>2, LeftoversStay, EnablementStays, ChecksStayPassed, CheckIsFirst DEF Launching
  <1>4. \A u \in Service \ Up(want) : running'[u] = running[u]
    BY <1>1, InstalledKinds DEF Launched, AfterStart, AfterRestart
  <1>5. StopsDue'
    BY <1>0, <1>1, <1>4, ClearContext DEF StopsDue, Launching
  <1>6. TunnelKept'
    <2> SUFFICES ASSUME Tunnel \in Up(want), ~RunsAs(Tunnel, want)'
                 PROVE  LaunchDue(Tunnel)' \/ (HostMoved(applied, want) /\ RunsAs(Tunnel, applied))'
      BY <1>0 DEF TunnelKept
    <2>1. /\ running'[Tunnel] = running[Tunnel] /\ s # <<"restart", Tunnel>>
          /\ s = <<"start", Tunnel>> => running[Tunnel] # None
      BY <1>0, LaunchedIsRight
    <2>2. LaunchDue(Tunnel) => LaunchDue(Tunnel)'
      BY <1>0, <2>1 DEF LaunchDue
    <2> QED
      BY <2>1, <2>2, ClearContext DEF TunnelKept
  <1>7. ServingKept'
    <2>1. \A u \in Up(want) : running[u] # None => running'[u] # None
      BY <1>0, LaunchedIsRight DEF RunsAs, RunsUnit
    <2>2. s[2] \in Service /\ s[2] # GuardSvc
      BY <1>1, InstalledKinds, ResourceKinds
    <2>3. rb'.started \cup rb'.enabled \subseteq
             rb.started \cup rb.enabled \cup {u \in Service : running[u] = None}
      BY <1>0, <1>1, <2>2 DEF StartBooked, IsActive, RbType
    <2> QED
      BY <1>1, <2>1, <2>3, ServingStays
  <1> QED
    BY <1>3, <1>5, <1>6, <1>7 DEF Clearing

LEMMA StopClears ==
    ASSUME NEW s, ClearDone(s), Stop(s)
    PROVE  Clearing'
  <1>0. /\ Up(want)' = Up(want) /\ StepFits(s) /\ s = <<s[1], s[2]>>
        /\ \A op, r : ToDo(op, r)' <=> ToDo(op, r) /\ s # <<op, r>>
    BY StepContext DEF ClearDone
  <1>1. /\ s[1] \in {"stop", "stop-stale"} /\ running' = AfterStop({s[2]})
        /\ UNCHANGED <<file, enabled, cached, rb>> /\ s[2] \notin Up(want)
    BY <1>0 DEF Stop, StepFits
  <1>2. \A u \in Unit : UpToDate(u)' = UpToDate(u)
    BY <1>1 DEF UpToDate, Def
  <1>3. LeftoversDue' /\ EnabledDue' /\ ChecksPass'
    BY <1>1, <1>2, LeftoversStay, EnablementStays, ChecksStayPassed, CheckIsFirst
  <1>4. \A u \in Up(want) : running'[u] = running[u]
    BY <1>1, InstalledKinds DEF AfterStop
  <1>5. StopsDue'
    <2>1. \A u \in Service : running'[u] = None \/ (running'[u] = running[u] /\ u # s[2])
      BY <1>1 DEF AfterStop
    <2> QED
      BY <1>0, <2>1, ClearContext DEF StopsDue
  <1>6. TunnelKept'
    <2>1. Tunnel \in Up(want) => LaunchDue(Tunnel)' = LaunchDue(Tunnel)
      BY <1>0, <1>1, <1>4 DEF LaunchDue
    <2> QED
      BY <1>0, <1>4, <2>1, ClearContext DEF TunnelKept
  <1>7. ServingKept'
    BY <1>1, <1>4, ServingStays
  <1> QED
    BY <1>3, <1>5, <1>6, <1>7 DEF Clearing

LEMMA RemoveClears ==
    ASSUME NEW s, ClearDone(s), s[1] = "remove", NEW r, r = s[2],
           file' = [file EXCEPT ![r] = Absent], UNCHANGED <<enabled, cached, running>>,
           rb'.started = rb.started, rb'.enabled = rb.enabled
    PROVE  Clearing'
  <1>1. /\ Installed(want)' = Installed(want)
        /\ \A op, q : ToDo(op, q)' <=> ToDo(op, q) /\ s # <<op, q>>
        /\ s = <<"remove", r>> /\ ToDo("remove", r) /\ r \notin Installed(want)
        /\ Unit \subseteq Resource
    BY StepContext, ResourceKinds DEF ClearDone, StepFits
  <1>2. \A q \in Resource : file'[q] = IF q = r THEN Absent ELSE file[q]
    BY DEF ClearDone, StepDone, TypeInv, TypeOK, HostTypeOK
  <1>3. LeftoversDue'
    <2>1. \A q \in Resource \ Installed(want) : file'[q] = Absent \/ ToDo("remove", q)'
      BY <1>1, <1>2, ClearContext DEF LeftoversDue
    <2>2. ASSUME NEW u \in Unit \ Installed(want)
          PROVE  UpToDate(u)' \/ ToDo("reload-removed", "host")'
      <3>1. CASE u = r
        BY <1>1, <3>1 DEF ClearDone, StepDone, Readying, ReloadsFollow
      <3>2. CASE u # r
        <4>1. UpToDate(u)' = UpToDate(u)
          BY <1>1, <1>2, <3>2 DEF UpToDate, Def
        <4> QED
          BY <1>1, <4>1, ClearContext DEF LeftoversDue
      <3> QED
        BY <3>1, <3>2
    <2> QED
      BY <1>1, <2>1, <2>2 DEF LeftoversDue
  <1>4. EnabledDue' /\ StopsDue' /\ TunnelKept'
    BY EnablementStays, ProcessesStay DEF Launching
  <1>5. ServingKept' /\ ChecksPass'
    BY ServingStays, ChecksStayPassed, CheckIsFirst
  <1> QED
    BY <1>3, <1>4, <1>5 DEF Clearing

(***************************************************************************)
(* When nothing goes wrong, every step of such a transaction succeeds.     *)
(***************************************************************************)
\* The marker is removed before its directory.
LEMMA MarkerGoesFirst ==
    ASSUME Due(<<"remove", StateDir>>)
    PROVE  ~ToDo("remove", Owner)
  <1> SUFFICES ASSUME ToDo("remove", Owner) PROVE FALSE
    OBVIOUS
  <1>1. Rank(<<"remove", StateDir>>) <= Rank(<<"remove", Owner>>)
    BY DEF Due, ToDo
  <1>2. DOMAIN RemovalOrder = 1..7
    BY DEF RemovalOrder
  <1>3. \A i \in 1..7 : (RemovalOrder[i] = Owner <=> i = 1) /\ (RemovalOrder[i] = StateDir <=> i = 7)
    BY DEF RemovalOrder, StateDir, Owner, Profile, Mcp, Tunnel, GuardSvc, Timer
  <1>4. Position(Owner, RemovalOrder) = 1 /\ Position(StateDir, RemovalOrder) = 7
    BY <1>2, <1>3 DEF Position
  <1>5. Rank(<<"remove", StateDir>>) = 117 /\ Rank(<<"remove", Owner>>) = 111
    BY <1>4, OpRanks DEF Rank, ResourceRank
  <1> QED
    BY <1>1, <1>5

\* What the checks look for holds.
LEMMA ChecksSucceed ==
    ASSUME NEW s, s \in tx.todo, s \in Step, s[1] \in {"check", "recheck"}, Readying, ChecksPass,
           contents \subseteq {"runtime"}
    PROVE  OwnershipHolds(s)
  <1>0. s = <<s[1], "host">> /\ ToDo(s[1], "host")
    <2>1. s[2] = "host"
      BY DEF Step, FileOp, UnitOp, HostOp
    <2> QED
      BY <2>1, StepObject DEF ToDo
  <1>1. s[1] = "check" => Destructive("stop") \cup Destructive("disable") \subseteq Removing
    BY <1>0, ResourceKinds DEF ChecksPass, Destructive, Removing, ToDo
  <1>2. ASSUME NEW r \in Removing PROVE Observe(r, want) \in {"exact", "different"}
    <2>1. <<"remove", r>> \in tx.todo /\ ToDo("remove", r)
      BY DEF Removing, ToDo
    <2>2. file[r] \notin {Absent, Foreign}
      BY <2>1 DEF Readying, StepsFit, StepFits
    <2>3. r = StateDir => file[Owner] \notin {Absent, Foreign}
      <3>1. r = StateDir => <<"remove", Owner>> \in tx.todo
        BY <1>0, <2>1 DEF ChecksPass, ToDo
      <3> QED
        BY <3>1 DEF Readying, StepsFit, StepFits
    <2> QED
      BY <2>2, <2>3 DEF Observe
  <1> QED
    BY <1>1, <1>2 DEF OwnershipHolds

LEMMA StepsSucceed ==
    ASSUME Hazards = {}, TypeInv, Readying, Clearing, want \in ValidDeclaration,
           contents \subseteq {"runtime"}, guardpc = "off", NEW s \in tx.todo, Execute(s)
    PROVE  tx'.phase = "execute" /\ Clearing' /\ contents' \subseteq {"runtime"} /\ guardpc' = "off"
  <1>0. /\ s \in Step /\ Due(s) /\ tx.phase = "execute" /\ UNCHANGED applied /\ StepFits(s)
        /\ s = <<s[1], s[2]>> /\ ToDo(s[1], s[2]) /\ rb \in RbType
    <2>1. s \in Step /\ Due(s) /\ UNCHANGED applied /\ rb \in RbType
      BY DEF Execute, Check, Write, DaemonReload, Enable, Disable, Start,
         CannotStart, Stop, RemoveFile, RemoveStateDir, notStep, TypeInv, TypeOK, RbType
    <2>2. s = <<s[1], s[2]>>
      BY <2>1, StepObject
    <2> QED
      BY <2>1, <2>2 DEF Due, Readying, StepsFit, ToDo
  <1>1. ClearDone(s) <=> Proceed(s)
    BY <1>0 DEF StepDone, ClearDone
  <1>2. Ended(s) \/ Raises("timeout") => Proceed(s)
    BY DEF Ended, Raises
  <1>3. Proceed(s) => tx'.phase = "execute"
    BY <1>0, AfterProceed
  <1>4. CASE Check(s)
    <2>1. Proceed(s)
      BY <1>0, <1>4, ChecksSucceed DEF Check, Clearing
    <2> QED
      BY <1>1, <1>3, <1>4, <2>1, CheckClears DEF Check
  <1>5. CASE Write(s)
    BY <1>1, <1>2, <1>3, <1>5, WriteClears DEF Write
  <1>6. CASE DaemonReload(s)
    BY <1>1, <1>2, <1>3, <1>6, ReloadClears DEF DaemonReload
  <1>7. CASE Enable(s) \/ Disable(s)
    <2>1. Proceed(s) /\ UNCHANGED <<contents, guardpc>>
      BY <1>2, <1>7 DEF Enable, Disable
    <2> QED
      BY <1>1, <1>3, <1>7, <2>1, EnablementClears
  <1>8. CASE Start(s)
    <2>1. Proceed(s) /\ contents' \subseteq {"runtime"} /\ UNCHANGED guardpc
      BY <1>2, <1>8 DEF Start, WithLog
    <2> QED
      BY <1>1, <1>3, <1>8, <2>1, StartClears
  <1>9. CASE CannotStart(s)
    <2>1. s[1] \in Launching /\ s[2] \in Up(want) /\ Mcp \in Up(want)
      BY <1>0, <1>9, InstalledKinds DEF CannotStart, Launching, StepFits
    <2>2. Def(s[2]) # Absent /\ Def(Mcp) # Absent
      BY <1>0, <2>1, LaunchesRight
    <2> QED
      BY <1>9, <2>2 DEF CannotStart, Startable
  <1>10. CASE Stop(s)
    BY <1>1, <1>2, <1>3, <1>10, StopClears DEF Stop
  <1>11. CASE RemoveFile(s)
    <2>1. /\ Proceed(s) /\ s[1] = "remove" /\ file' = [file EXCEPT ![s[2]] = Absent]
          /\ UNCHANGED <<enabled, cached, running, guardpc, contents>>
          /\ rb'.started = rb.started /\ rb'.enabled = rb.enabled
      BY <1>0, <1>2, <1>11 DEF RemoveFile, RbType
    <2> QED
      BY <1>1, <1>3, <2>1, RemoveClears
  <1>12. CASE RemoveStateDir(s)
    <2>1. s = <<"remove", StateDir>> /\ StateDir \notin Installed(want)
      BY <1>0, <1>12 DEF RemoveStateDir, StepFits
    <2>2. Owner \notin Installed(want) /\ ~ToDo("remove", Owner)
      BY <1>0, <2>1, InstalledKinds, MarkerGoesFirst
    <2>3. file[Owner] = Absent
      BY <2>2, ResourceKinds DEF Clearing, LeftoversDue
    <2>4. contents' = {} /\ Proceed(s) /\ file' = [file EXCEPT ![StateDir] = Absent]
          /\ UNCHANGED <<enabled, cached, running, guardpc>>
          /\ rb'.started = rb.started /\ rb'.enabled = rb.enabled
      BY <1>0, <1>2, <1>12, <2>3 DEF RemoveStateDir, RbType
    <2> QED
      <3>1. s[1] = "remove" /\ s[2] = StateDir /\ ClearDone(s)
        BY <1>1, <2>1, <2>4
      <3>2. Clearing'
        BY <2>4, <3>1, RemoveClears
      <3> QED
        BY <1>3, <2>4, <3>2
  <1> QED
    BY <1>4, <1>5, <1>6, <1>7, <1>8, <1>9, <1>10, <1>11, <1>12 DEF Execute

\* When no step is left and the services listen where they should, the host
\* is what was wanted.
LEMMA QualifiedIsDeployed ==
    ASSUME TypeInv, Readying, Clearing, want \in ValidDeclaration, tx.todo = {}, Qualified
    PROVE  Deployed(want)
  <1>1. \A op, r : ~ToDo(op, r)
    BY DEF ToDo
  <1>2. enabled \subseteq Unit /\ Service \subseteq Unit
    BY ResourceKinds DEF TypeInv, TypeOK, HostTypeOK
  <1>3. enabled = Installed(want) \cap Service
    BY <1>1, <1>2 DEF Clearing, EnabledDue
  <1>4. \A u \in Unit : UpToDate(u)
    BY <1>1 DEF Clearing, LeftoversDue, Readying, LoadsDue
  <1>5. \A u \in Service : IF u \in Up(want) THEN RunsAs(u, want) ELSE running[u] = None
    BY <1>1, QualifiedRuns DEF Clearing, StopsDue
  <1>6. FilesAs(file, want)
    BY <1>1 DEF Clearing, LeftoversDue, Readying, FilesDue, FilesAs
  <1> QED
    BY <1>3, <1>4, <1>5, <1>6 DEF Deployed

\* When they do not, it was the health host that moved.
LEMMA UnqualifiedIsMoved ==
    ASSUME TypeInv, Readying, Clearing, Before, want \in ValidDeclaration, tx.todo = {}, ~Qualified
    PROVE  Undoing
  <1>1. \A op, r : ~ToDo(op, r)
    BY DEF ToDo
  <1>2. \A u \in Up(want) : ~LaunchDue(u) /\ RunsUnit(u, want)
    BY <1>1 DEF LaunchDue, Readying, RunningDue
  <1>3. \A u \in Service \ Up(want) : running[u] = None
    BY <1>1 DEF Clearing, StopsDue
  <1>4. /\ want.cfg \in Configs /\ want # None /\ Mcp \in Resource /\ Profile \in Resource
        /\ Mcp \in Service /\ Tunnel \in Service /\ Timer \in Service
    BY ResourceKinds, NoneIsNoDeclaration, DeclarationFields DEF ValidDeclaration, Service
  <1>5. Up(want) # {} <=> Present(want) /\ Running(want)
    BY <1>4, BundleKinds, ResourceKinds DEF Up, Wanted, BundleUnits, ActiveWhenRunning
  <1>6. CASE Up(want) = {}
    <2>1. ~IsActive(Mcp) /\ ~IsActive(Tunnel)
      BY <1>3, <1>4, <1>6, ResourceKinds DEF IsActive
    <2> QED
      BY <1>5, <1>6, <2>1 DEF Qualified
  <1>7. CASE Up(want) # {}
    <2>1. Mcp \in Up(want) /\ Tunnel \in Up(want)
      BY <1>7, InstalledKinds
    <2>2. want.cfg["mcp"] \in McpEndpoint
      <3>1. running[Mcp] # None /\ running[Mcp].unit = Text(Mcp, want.cfg)
        BY <1>2, <2>1 DEF RunsUnit
      <3>2. Text(Mcp, want.cfg) \notin {Absent, Foreign} /\ Text(Mcp, want.cfg)["mcp"] = want.cfg["mcp"]
        BY <1>4, TextIsFileValue, TextFields DEF McpUnitFields
      <3> QED
        BY <3>1, <3>2 DEF McpEndpoint
    <2>3. ~RunsAs(Tunnel, want)
      <3> SUFFICES ASSUME RunsAs(Tunnel, want)
                   PROVE  <<want.cfg["healthHost"], want.cfg["health"]>> \in HealthEndpoint
        BY <1>5, <1>7, <2>2 DEF Qualified
      <3>1. running[Tunnel] # None /\ running[Tunnel].profile = Text(Profile, want.cfg)
        BY DEF RunsAs, RunsUnit
      <3>2. /\ Text(Profile, want.cfg) \notin {Absent, Foreign}
            /\ Text(Profile, want.cfg)["healthHost"] = want.cfg["healthHost"]
            /\ Text(Profile, want.cfg)["health"] = want.cfg["health"]
        BY <1>4, TextIsFileValue, TextFields DEF ProfileFields
      <3> QED
        BY <3>1, <3>2 DEF HealthEndpoint
    <2>4. HostMoved(applied, want) /\ RunsAs(Tunnel, applied)
      BY <1>2, <2>1, <2>3 DEF Clearing, TunnelKept
    <2>5. RunsAs(Mcp, applied)
      BY <1>2, <2>1, <2>4, ResourceKinds DEF RunsAs, RunsUnit, HostMoved, SameUnit
    <2>6. running[Timer] # None => running[Timer].unit = Text(Timer, applied.cfg)
      <3>1. Text(Timer, want.cfg) = Text(Timer, applied.cfg)
        <4>1. Fields(Timer) = {}
          BY DEF Fields, Timer, Mcp, Tunnel, Profile
        <4> QED
          BY <4>1 DEF Text
      <3> QED
        BY <1>2, <1>3, <1>4, <3>1 DEF RunsUnit
    <2> QED
      BY <2>4, <2>5, <2>6 DEF Undoing, Clearing, ServingKept, Loggers
  <1> QED
    BY <1>6, <1>7

(***************************************************************************)
(* The invariant.                                                          *)
(***************************************************************************)
LEMMA DeployedStays ==
    ASSUME UNCHANGED <<file, enabled, cached, running>>
    PROVE  /\ UNCHANGED applied /\ AsApplied(applied) => AsApplied(applied)'
           /\ UNCHANGED want /\ Deployed(want) => Deployed(want)'
           /\ UNCHANGED <<applied, want, rb, tx>> /\ Clearing => Clearing'
           /\ UNCHANGED <<applied, pre>> /\ Before => Before'
  <1>1. /\ \A u : UpToDate(u)' = UpToDate(u)
        /\ UNCHANGED want => /\ Installed(want)' = Installed(want) /\ Up(want)' = Up(want)
                             /\ Present(want)' = Present(want)
                             /\ \A u : RunsAs(u, want)' = RunsAs(u, want)
        /\ UNCHANGED applied => /\ Installed(applied)' = Installed(applied)
                                /\ Up(applied)' = Up(applied)
                                /\ \A u : RunsAs(u, applied)' = RunsAs(u, applied)
        /\ UNCHANGED tx => /\ \A op, r : ToDo(op, r)' = ToDo(op, r)
                           /\ \A u : LaunchDue(u)' = LaunchDue(u)
        /\ UNCHANGED <<applied, want>> =>
              HostMoved(applied, want)' = HostMoved(applied, want)
    BY DEF Installed, Up, Bundle, Present, Running, Wanted, BundleUnits, UpToDate, Def,
       RunsAs, RunsUnit, ToDo, LaunchDue, HostMoved, Serving, SameHealthEndpoint, SameUnit
  <1>2. UNCHANGED applied /\ AsApplied(applied) => AsApplied(applied)'
    BY <1>1 DEF AsApplied, FilesAs
  <1>3. UNCHANGED want /\ Deployed(want) => Deployed(want)'
    BY <1>1 DEF Deployed, FilesAs
  <1>4. UNCHANGED <<applied, pre>> /\ Before => Before'
    BY <1>1 DEF Before, FilesAs
  <1>5. ASSUME UNCHANGED <<applied, want, rb, tx>>, Clearing PROVE Clearing'
    <2>1. LeftoversDue' /\ EnabledDue' /\ StopsDue'
      BY <1>1, <1>5 DEF Clearing, LeftoversDue, EnabledDue, StopsDue
    <2>2. ChecksPass' /\ TunnelKept' /\ ServingKept'
      BY <1>1, <1>5 DEF Clearing, ChecksPass, TunnelKept, ServingKept
    <2> QED
      BY <2>1, <2>2 DEF Clearing
  <1> QED
    BY <1>2, <1>3, <1>4, <1>5

LEMMA InitDeployed == Init => DeployedInv
  <1> SUFFICES ASSUME Init PROVE DeployedInv
    OBVIOUS
  <1>1. AsApplied(applied)
    BY UnitsAreResources, ResourceKinds DEF Init, AsApplied, FilesAs, Installed, Up, UpToDate, Def
  <1> QED
    BY <1>1 DEF Init, NoTx, NoUndo, NoPre, DeployedInv, Undo, Evident

\* What a rollback comes back to is what was applied before.
LEMMA UndoneIsApplied ==
    ASSUME Hazards = {}, TypeInv, UndoInv, DeployedInv, RollbackReload
    PROVE  AsApplied(applied)'
  <1> DEFINE a == applied
  <1>0. /\ tx.phase = "undo-reload" /\ Undoing /\ journal.clean
        /\ UNCHANGED <<file, enabled, running, applied>> /\ cached' = Reloaded(file)
    BY DEF RollbackReload, DeployedInv, Undo
  <1>1. /\ a \in ValidDeclaration /\ a # None /\ a.cfg \in Configs
        /\ Installed(a) = Bundle(a) /\ Up(a) = Wanted(a) /\ Loggers \subseteq Up(a)
        /\ StateDir \in Installed(a) /\ Owner \in Installed(a)
    <2>1. a # None /\ Running(a) /\ a \in ValidDeclaration
      BY <1>0 DEF Undoing, HostMoved, Serving, TypeInv, TypeOK
    <2>2. Present(a) /\ a.cfg \in Configs
      BY <2>1, DeclarationFields DEF ValidDeclaration, Declaration, Running, Present
    <2> QED
      BY <2>1, <2>2, BundleKinds, ResourceKinds
         DEF Installed, Up, Wanted, Loggers, BundleUnits, ActiveWhenRunning
  <1>2. FilesAs(file, a)
    <2>1. pre.file[StateDir] # Absent /\ pre.file[Owner] # Absent
      BY <1>0, <1>1, TextIsFileValue, ResourceKinds DEF Undoing, Before, FilesAs
    <2>2. \A r \in Resource : file[r] = pre.file[r]
      BY <1>0, <2>1 DEF UndoInv, Undone
    <2> QED
      BY <1>0, <2>2 DEF Undoing, Before, FilesAs
  <1>3. enabled \subseteq Installed(a) \cap Service /\ \A u \in Service : running[u] # None => u \in Up(a)
    BY <1>0 DEF UndoInv, UnitsKept, Undoing, Before
  <1>4. Installed(a) \cap Loggers \subseteq enabled
    BY <1>0 DEF Undoing
  <1>5. ASSUME NEW u \in Up(a) PROVE RunsAs(u, a) \/ (u = Timer /\ running[u] = None)
    <2>1. u \in Loggers \/ u = Timer
      BY InstalledKinds DEF Service, Loggers
    <2> QED
      BY <1>0, <2>1, ResourceKinds DEF Undoing, RunsAs, RunsUnit
  <1>6. \A u \in Unit : UpToDate(u)'
    BY <1>0 DEF UpToDate, Def, Reloaded
  <1>7. /\ Installed(applied)' = Installed(a) /\ Up(applied)' = Up(a)
        /\ \A u : RunsAs(u, applied)' = RunsAs(u, a)
    BY <1>0 DEF Installed, Up, Bundle, Present, Running, Wanted, BundleUnits, RunsAs, RunsUnit
  <1>8. FilesAs(file, applied)'
    BY <1>0, <1>2, <1>7 DEF FilesAs
  <1>9. \A u \in Service : IF u \in Up(a) THEN RunsAs(u, a) \/ (u = Timer /\ running[u] = None)
                           ELSE running[u] = None
    BY <1>3, <1>5
  <1> QED
    BY <1>0, <1>3, <1>4, <1>6, <1>7, <1>8, <1>9 DEF AsApplied

\* The rollback leaves the services that serve on, and gives the files back.
LEMMA UndoGoesOn ==
    ASSUME Hazards = {}, TypeInv, DeployedInv, RollbackUnits \/ RollbackFiles \/ RollbackFilesRaises
    PROVE  DeployedInv'
  <1>0. /\ tx \in TxType /\ Undoing /\ tx'.phase \in {"undo-files", "undo-reload"} /\ rb \in RbType
        /\ UNCHANGED <<pre, applied, want, contents, guardpc>> \/ RollbackFiles
        /\ UNCHANGED <<pre, applied, want, guardpc>>
    <2>1. tx \in TxType /\ rb \in RbType
      BY DEF TypeInv, TypeOK, TxType, RbType
    <2>2. ~RollbackFilesRaises
      BY DEF RollbackFilesRaises, BackupsLost, DeployedInv
    <2> QED
      BY <2>1, <2>2 DEF RollbackUnits, RollbackFiles, Move, notUndo, TxType, want, DeployedInv, Undo
  <1>1. HostMoved(applied, want)' = HostMoved(applied, want) /\ Before'
    <2>1. HostMoved(applied, want)' = HostMoved(applied, want)
      BY <1>0 DEF HostMoved, Serving, Running, SameHealthEndpoint, SameUnit
    <2>2. Installed(applied)' = Installed(applied) /\ Up(applied)' = Up(applied)
      BY <1>0 DEF Installed, Up, Bundle, Present, Running, Wanted, BundleUnits
    <2> QED
      BY <1>0, <2>1, <2>2 DEF Undoing, Before, FilesAs
  <1>2. CASE RollbackUnits
    <2>1. /\ running' = AfterStop(rb.started) /\ enabled' = enabled \ rb.enabled /\ UNCHANGED rb
          /\ journal'.clean
      <3>1. PICK stuck \in SUBSET (rb.started \cup rb.enabled) :
              /\ stuck # {} => "unclean" \in Hazards
              /\ running' = AfterStop(rb.started \ stuck)
              /\ enabled' = enabled \ (rb.enabled \ stuck)
              /\ journal' = [journal EXCEPT !.clean = IF stuck = {} THEN @ ELSE FALSE]
        BY <1>2 DEF RollbackUnits
      <3>2. stuck = {}
        BY <3>1
      <3>3. journal \in [status : {"none", "running", "failed", "succeeded"}, clean : BOOLEAN]
        BY DEF TypeInv, TypeOK
      <3>4. UNCHANGED rb
        BY <1>2 DEF RollbackUnits
      <3> QED
        BY <3>1, <3>2, <3>3, <3>4 DEF DeployedInv
    <2>2. \A u \in Loggers : running'[u] = running[u] /\ u \in enabled' /\ u \notin rb.started
      BY <1>0, <2>1, ResourceKinds DEF Undoing, AfterStop, Loggers
    <2>3. running'[Timer] = running[Timer] \/ running'[Timer] = None
      BY <2>1 DEF AfterStop, Service
    <2>4. \A u \in Loggers : RunsAs(u, applied)'
      BY <1>0, <2>2 DEF Undoing, RunsAs, RunsUnit
    <2>5. Undoing'
      BY <1>0, <1>1, <2>1, <2>2, <2>3, <2>4 DEF Undoing
    <2>6. UNCHANGED contents
      BY <1>2 DEF RollbackUnits
    <2> QED
      BY <1>0, <2>1, <2>5, <2>6 DEF DeployedInv, Evident, Undo
  <1>3. CASE RollbackFiles
    <2>1. UNCHANGED <<enabled, running, journal>> /\ rb' = NoUndo
      BY <1>3 DEF RollbackFiles
    <2>2. contents' \subseteq {"runtime"}
      BY <1>3 DEF RollbackFiles, DeployedInv
    <2>3. Undoing'
      BY <1>0, <1>1, <2>1 DEF Undoing, RunsAs, RunsUnit, NoUndo
    <2> QED
      BY <1>0, <2>1, <2>2, <2>3 DEF DeployedInv, Evident, Undo, NoUndo
  <1>4. CASE RollbackFilesRaises
    BY <1>4 DEF RollbackFilesRaises, BackupsLost, DeployedInv
  <1> QED
    BY <1>2, <1>3, <1>4


LEMMA NextDeployed ==
    ASSUME Hazards = {}, TypeInv, ReadyInv, UndoInv, DeployedInv, [Next]_vars
    PROVE  DeployedInv'
  <1>0. /\ tx \in TxType /\ tx' \in TxType
        /\ tx.phase # "idle" => want \in ValidDeclaration
        /\ applied \in ValidDeclaration \cup {None}
        /\ guardpc = "off" /\ contents \subseteq {"runtime"} /\ journal.clean
        /\ ~rb.discarded /\ ~rb'.discarded /\ guardpc' = "off" /\ pre.fresh
    <2>1. TypeInv' /\ ~rb'.discarded /\ guardpc' = "off"
      BY NextTyped, BackupsAreKept, GuardStaysOff DEF TypeInv, DeployedInv
    <2> QED
      BY <2>1 DEF TypeInv, TypeOK, ActiveWant, TxType, want, DeployedInv
  <1>1. CASE Operator \/ UNCHANGED vars
    <2>1. UNCHANGED <<file, enabled, cached, running, tx, applied, contents, rb, pre, journal>>
      BY <1>1 DEF Operator, Update, Command, Redeclare, notOperator, vars, hostVars
    <2>2. UNCHANGED want
      BY <2>1 DEF want
    <2>3. Undoing => Undoing'
      BY <2>1, <2>2, DeployedStays DEF Undoing, HostMoved, Serving, Running, SameHealthEndpoint,
         SameUnit, RunsAs, RunsUnit
    <2> QED
      BY <1>0, <2>1, <2>2, <2>3, DeployedStays DEF DeployedInv
  <1>2. CASE (\E req \in {"plain", "forced"} : Lock(req)) \/ Refuse
    <2>1. UNCHANGED <<file, enabled, cached, running, applied, contents, rb, journal>>
          /\ pre' = pre
      BY <1>2 DEF Lock, Refuse, hostVars
    <2>2. tx'.phase \in {"idle", "planning"} /\ tx.phase \in {"idle", "planning"}
      <3>1. CASE Refuse
        BY <3>1 DEF Refuse, NoTx
      <3>2. CASE \E req \in {"plain", "forced"} : Lock(req)
        BY <3>2, LockPlans DEF Lock, Idle
      <3> QED
        BY <1>2, <3>1, <3>2
    <2> QED
      BY <1>0, <2>1, <2>2, DeployedStays DEF DeployedInv, Evident, Undo
  <1>3. CASE RecoverOwner
    <2>1. AsApplied(applied) /\ ~PlanValid(want) /\ Recoverable /\ want \in ValidDeclaration
      BY <1>0, <1>3 DEF RecoverOwner, DeployedInv
    <2>2. applied # None
      BY <1>0, <2>1, OwnIsAccepted DEF PortMoved, Serving
    <2> QED
      BY <2>1, <2>2 DEF Recoverable
  <1>4. CASE Begin
    <2>1. /\ tx'.phase = "execute" /\ tx.phase = "planning"
          /\ UNCHANGED contents /\ journal'.clean /\ pre'.fresh = Fresh
      BY <1>0, <1>4 DEF Begin, TxType, notHost
    <2>2. AsApplied(applied)
      BY <2>1 DEF DeployedInv
    <2>3. Clearing' /\ Before' /\ Fresh
      BY <1>0, <1>4, <2>2, BeginClears, AppliedIsFresh
    <2> QED
      BY <1>0, <2>1, <2>3 DEF DeployedInv, Evident, Undo
  <1>5. CASE \E s \in tx.todo : Execute(s)
    <2> PICK s \in tx.todo : Execute(s)
      BY <1>5
    <2>1. tx.phase = "execute" /\ UNCHANGED <<applied, pre, journal>>
      BY DEF Execute, Check, Write, DaemonReload, Enable, Disable, Start,
         CannotStart, Stop, RemoveFile, RemoveStateDir, Due, notStep
    <2>2. Readying /\ Clearing /\ Before /\ want \in ValidDeclaration
      BY <1>0, <2>1 DEF ReadyInv, DeployedInv
    <2>3. tx'.phase = "execute" /\ Clearing' /\ contents' \subseteq {"runtime"}
      BY <1>0, <2>2, StepsSucceed
    <2>4. Before'
      BY <2>1, <2>2 DEF Before, FilesAs, Installed, Up, Bundle, Present, Running, Wanted, BundleUnits
    <2> QED
      BY <1>0, <2>1, <2>3, <2>4 DEF DeployedInv, Evident, Undo
  <1>6. CASE Executed \/ Qualify
    <2>1. /\ UNCHANGED <<file, enabled, cached, running, contents, applied, rb, journal, pre>>
          /\ tx.phase \in {"execute", "qualify"} /\ tx.todo = {}
      BY <1>0, <1>6 DEF Executed, Qualify, notPhase, hostVars, ReadyInv
    <2>2. Readying /\ Clearing /\ Before /\ want \in ValidDeclaration
      BY <1>0, <2>1 DEF ReadyInv, DeployedInv
    <2>3. want' = want /\ tx'.todo = {}
      BY <1>0, <1>6, <2>1 DEF Executed, Qualify, Move, Raises, Raise, TxType, want
    <2>4. Before'
      BY <2>1, <2>2, DeployedStays
    <2>5. CASE Executed
      <3>1. tx'.phase = "qualify"
        BY <1>0, <2>5 DEF Executed, TxType
      <3>2. Clearing'
        <4>1. \A op, r : ~ToDo(op, r) /\ ~ToDo(op, r)'
          BY <2>1, <2>3 DEF ToDo
        <4>2. /\ Installed(want)' = Installed(want) /\ Up(want)' = Up(want)
              /\ Present(want)' = Present(want)
              /\ \A u : UpToDate(u)' = UpToDate(u)
              /\ \A u : RunsAs(u, want)' = RunsAs(u, want) /\ RunsAs(u, applied)' = RunsAs(u, applied)
              /\ HostMoved(applied, want)' = HostMoved(applied, want)
          BY <2>1, <2>3 DEF Installed, Up, Bundle, Present, Running, Wanted, BundleUnits, UpToDate,
             Def, RunsAs, RunsUnit, HostMoved, Serving, SameHealthEndpoint, SameUnit
        <4>3. LeftoversDue' /\ EnabledDue' /\ StopsDue' /\ ChecksPass'
          BY <2>1, <2>2, <4>1, <4>2 DEF Clearing, LeftoversDue, EnabledDue, StopsDue, ChecksPass
        <4>4. TunnelKept' /\ ServingKept'
          BY <2>1, <2>2, <4>1, <4>2 DEF Clearing, TunnelKept, ServingKept, LaunchDue
        <4> QED
          BY <4>3, <4>4 DEF Clearing
      <3> QED
        BY <1>0, <2>1, <2>4, <3>1, <3>2 DEF DeployedInv, Evident, Undo
    <2>6. CASE Qualify /\ Qualified
      <3>1. tx'.phase = "final"
        BY <1>0, <2>6 DEF Qualify, Move, Raises, TxType
      <3>2. Deployed(want)'
        BY <2>1, <2>2, <2>3, <2>6, QualifiedIsDeployed, DeployedStays
      <3> QED
        BY <1>0, <2>1, <3>1, <3>2 DEF DeployedInv, Evident, Undo
    <2>7. CASE Qualify /\ ~Qualified
      <3>1. tx'.phase = "undo-units"
        BY <1>0, <2>7 DEF Qualify, Raise, TxType
      <3>2. Undoing
        BY <2>1, <2>2, <2>7, UnqualifiedIsMoved
      <3>3. Undoing'
        BY <2>1, <2>3, <2>4, <3>2 DEF Undoing, HostMoved, Serving, Running, SameHealthEndpoint,
           SameUnit, RunsAs, RunsUnit
      <3> QED
        BY <1>0, <2>1, <3>1, <3>3 DEF DeployedInv, Evident, Undo
    <2> QED
      BY <1>6, <2>5, <2>6, <2>7
  <1>7. CASE FinalPlan \/ FinalPlanGuard
    <2>1. /\ UNCHANGED <<file, enabled, cached, running, contents, applied, rb, journal, pre>>
          /\ tx.phase \in {"final", "final-guard"} /\ want \in ValidDeclaration /\ Deployed(want)
      BY <1>0, <1>7 DEF FinalPlan, FinalPlanGuard, notPhase, hostVars, DeployedInv, Evident
    <2>2. tx'.phase \in {"final-guard", "evidence"} /\ want' = want
      BY <1>0, <1>7, <2>1, DeployedIsFinal DEF FinalPlan, FinalPlanGuard, Move, TxType, want
    <2>3. Deployed(want)'
      BY <2>1, <2>2, DeployedStays
    <2> QED
      BY <1>0, <2>1, <2>2, <2>3 DEF DeployedInv, Evident, Undo
  <1>8. CASE WriteApplied
    <2>1. /\ UNCHANGED <<file, enabled, cached, running, contents, want, rb, journal, pre>>
          /\ applied' = want /\ tx'.phase = "commit" /\ tx.phase = "evidence"
      BY <1>0, <1>8 DEF WriteApplied, hostVars, Move, Raises, TxType, want
    <2>2. Deployed(want)'
      BY <2>1, DeployedStays DEF DeployedInv, Evident
    <2> QED
      BY <1>0, <2>1, <2>2 DEF DeployedInv, Evident, Undo
  <1>9. CASE Finish
    <2>1. /\ UNCHANGED <<file, enabled, cached, running, contents, applied>>
          /\ tx'.phase = "idle" /\ tx.phase = "commit" /\ journal'.clean /\ pre'.fresh
      BY <1>9 DEF Finish, hostVars, NoTx, NoPre
    <2>2. AsApplied(applied)
      <3>1. Deployed(applied)
        BY <2>1 DEF DeployedInv, Evident
      <3>2. Loggers \subseteq Service
        BY ResourceKinds DEF Loggers
      <3> QED
        BY <3>1, <3>2 DEF Deployed, AsApplied
    <2>3. AsApplied(applied)'
      BY <2>1, <2>2, DeployedStays
    <2> QED
      BY <1>0, <2>1, <2>3 DEF DeployedInv, Evident, Undo
  <1>10. CASE RollbackUnits \/ RollbackFiles \/ RollbackFilesRaises
    BY <1>10, UndoGoesOn
  <1>11. CASE RollbackReload
    <2>1. /\ AsApplied(applied)' /\ tx'.phase = "idle" /\ UNCHANGED contents /\ pre'.fresh
      BY <1>11, UndoneIsApplied DEF RollbackReload, NoTx, NoPre
    <2>2. journal'.clean
      <3>1. journal \in [status : {"none", "running", "failed", "succeeded"}, clean : BOOLEAN]
        BY DEF TypeInv, TypeOK
      <3> QED
        BY <1>0, <1>11, <3>1 DEF RollbackReload
    <2> QED
      BY <1>0, <2>1, <2>2 DEF DeployedInv, Evident, Undo
  <1>12. ~FailsEarly /\ ~FinishRaises /\ ~Environment /\ ~Guard
    BY <1>0 DEF FailsEarly, FinishRaises, Raises, Environment, Kill, Reboot, Tamper, DropUnknown,
       Guard, GuardBegins, GuardObserves, GuardRestarts, GuardEnds
  <1> QED
    BY <1>1, <1>2, <1>3, <1>4, <1>5, <1>6, <1>7, <1>8, <1>9, <1>10, <1>11, <1>12 DEF Next, Worker

LEMMA DeployedAlways ==
    ASSUME Hazards = {}
    PROVE  Spec => [](TypeInv /\ DeployedInv)
  <1> DEFINE Inv == TypeInv /\ ReadyInv /\ UndoInv /\ DeployedInv
  <1>1. Init => Inv
    BY InitTyped, InitReady, InitUndo, InitDeployed
  <1>2. Inv /\ [Next]_vars => Inv'
    <2> SUFFICES ASSUME Inv, [Next]_vars PROVE Inv'
      OBVIOUS
    <2>1. guardpc = "off"
      BY DEF DeployedInv
    <2> QED
      BY <2>1, NextTyped, NextReady, NextUndo, NextDeployed
  <1> QED
    BY <1>1, <1>2, PTL DEF Spec

\* A host with nothing but this instance's own resources is refused for one
\* edit only, the port of a tunnel that is to keep its health endpoint:
\* otherwise it is what the last applied declaration says, or what its
\* rollback came back to, and a listener of its own is recognised.
THEOREM OwnInstanceIsAccepted ==
    ASSUME Hazards = {}
    PROVE  Spec => []OwnInstanceAccepted
  <1>1. TypeInv /\ DeployedInv => OwnInstanceAccepted
    BY OwnIsAccepted
       DEF TypeInv, TypeOK, ActiveWant, want, DeployedInv, OwnInstanceAccepted
  <1> QED
    BY <1>1, DeployedAlways, PTL

\* When nothing goes wrong, one edit only makes an apply fail, that of the
\* health host without any unit: otherwise every check, start and
\* qualification succeeds and the final plan finds nothing to do, whatever is
\* declared and whoever asks, while workers and updates overlap.
THEOREM AppliesFailForHealthHostOnly ==
    ASSUME Hazards = {}
    PROVE  Spec => []UndoneForHealthHostOnly
  <1>1. DeployedInv => UndoneForHealthHostOnly
    BY DEF DeployedInv, Undo, Undoing, UndoneForHealthHostOnly
  <1> QED
    BY <1>1, DeployedAlways, PTL
=============================================================================
