---------------------------- MODULE RegistryGates ----------------------------
(***************************************************************************)
(* The declarations of an account and everything that may write or apply   *)
(* them: operators' manager processes, one lock and one gate at a time,    *)
(* and the ONE account-level process that holds distribution.lock (an      *)
(* instance upgrade, a rollback, an uninstall, an import).  The journals   *)
(* of the account-level procedures are files; the gates look at them under *)
(* an instance's locks, and the procedures write them under others.        *)
(***************************************************************************)
EXTENDS Naturals

CONSTANTS
    Ids,        \* instance ids, ordered as the code orders them
    Releases,   \* releases of the distribution; a declaration names one
    Clients,    \* concurrent manager processes of operators
    Faults,     \* what may go wrong, see below
    Clean,      \* a host value: nothing deployed
    Mixed,      \* a host value: an apply is under way, or died
    Earlier,    \* evidence of an apply that is not of the pending upgrade
    Legacy,     \* a host value: the predecessor toolkit's files are in place
    None

Life == {"running", "absent"}
Declaration == [rel : Releases, life : Life]
Deployment == Declaration \cup {Clean, Mixed, Legacy}

ASSUME RegistryAssumption ==
    /\ Ids \subseteq Nat \ {0}
    /\ None \notin Releases \cup Ids \cup Deployment \cup {0, Earlier}
    /\ Clean # Mixed /\ Clean # Legacy /\ Mixed # Legacy
    /\ {Clean, Mixed, Legacy, Earlier} \cap Declaration = {}
    /\ Faults \subseteq
        {"kill",        \* an operator's process dies
         "crash",       \* the account-level process dies
         "fail",        \* an operation of the account-level process raises
         "record",      \* an apply raises after it wrote applied.json
         "timeout"}     \* quiescent_instances gives up

VARIABLES
    decl,       \* registry: the declaration of an id, or None
    host,       \* what is deployed for an id: a declaration, or one of the values above
    evidence,   \* applied/<id>.json with the record it names: None, Earlier, or the
                \* declaration that an apply of the pending upgrade committed
    maint,      \* maintenance-transaction.json, or None
    upgrade,    \* instance-upgrade.json, or None
    imports,    \* imports/<id>.json, and at 0 imports/_retirement.json
    current,    \* the current release
    root,       \* the distribution's directory
    acct,       \* the process that holds distribution.lock
    client      \* manager processes of operators

regVars == <<decl, host, evidence, client>>
journals == <<maint, upgrade, imports>>
gateVars == <<regVars, journals, current, root, acct>>

ToolkitRetirement == 0

Declared == {i \in Ids : decl[i] # None}
Deployed(d) == IF d.life = "absent" THEN Clean ELSE d

(***************************************************************************)
(* The account-level process.                                              *)
(***************************************************************************)
NoJob == [job |-> "none", pc |-> "idle", id |-> None, base |-> None]
StartJob(job, pc) == acct' = [NoJob EXCEPT !.job = job, !.pc = pc]
Goto(pc) == acct' = [acct EXCEPT !.pc = pc]
At(job, pc) == acct.job = job /\ acct.pc = pc
LockFree == acct = NoJob
Release == acct' = NoJob
NoJournals == maint = None /\ upgrade = None /\ \A j \in Ids \cup {0} : imports[j] = None

\* The steps a procedure takes inside quiescent_instances.
QuietSteps ==
    {<<"rollback", pc>> : pc \in {"switch", "receipt", "clear"}}
        \cup {<<"uninstall", "rename">>}
        \cup {<<"retire", pc>> : pc \in {"retire-move", "retire-links", "retire-clear"}}
Quiet == <<acct.job, acct.pc>> \in QuietSteps

\* The ids the process changes under import_coordination(exclusive=True).
Importing(i) == acct.job = "import" /\ acct.id = i

(***************************************************************************)
(* Gates.                                                                  *)
(***************************************************************************)
AllowsDuringUpgrade(removing) == maint = None \/ (removing /\ maint.op = "uninstall")
AssertMaintenanceAllows(removing) ==
    /\ upgrade = None
    /\ maint = None \/ (removing /\ maint.op = "uninstall")

ImportUnlocked(i) == ~Importing(i)

\* import_coordination, shared: taken without blocking
ImportCoordination(i) == ~Importing(i) /\ imports[i] = None

WritesOf(i) == {c \in Clients : client[c].pc = "write" /\ client[c].id = i}
AppliesOf(i) == {c \in Clients : client[c].pc = "applying" /\ client[c].id = i}

\* What quiescent_instances waits for, with a deadline.
Quiescent ==
    \A c \in Clients :
        /\ client[c].pc # "write"
        /\ client[c].pc = "applying" => client[c].id \notin Declared

(***************************************************************************)
(* A manager process of an operator: a declaration written ("declare"), or *)
(* HostLifecycleWorker.run's registry update and apply of it ("start" and  *)
(* "remove").                                                              *)
(***************************************************************************)
Op == {"declare", "start", "remove"}
IdleClient == [pc |-> "idle", op |-> None, id |-> None, base |-> None, want |-> None]

Intended(op, i) ==
    IF decl[i] = None THEN [rel |-> current, life |-> "running"]
    ELSE [decl[i] EXCEPT !.life = IF op = "remove" THEN "absent" ELSE "running"]

notClient == <<journals, current, root, acct>>
Refused(c) == client' = [client EXCEPT ![c] = IdleClient]
Step(c, pc) == client' = [client EXCEPT ![c].pc = pc]

\* registry.get, and the declaration the operator makes of it
Begin(c, op, i) ==
    /\ client[c].pc = "idle" /\ root = "present"
    /\ op = "declare" \/ decl[i] # None
    /\ op = "start" => decl[i].life = "running"
    /\ client' = [client EXCEPT ![c] =
            [pc |-> "lock", op |-> op, id |-> i, base |-> decl[i], want |-> Intended(op, i)]]
    /\ UNCHANGED <<decl, host, evidence, notClient>>

\* InstanceRegistry._instance_lock, then _maintenance_guard
LockRegistry(c) ==
    LET i == client[c].id IN
    /\ client[c].pc = "lock"
    /\ \/ ~ImportCoordination(i) /\ Refused(c)
       \/ /\ ImportCoordination(i) /\ ~Quiet /\ WritesOf(i) = {}
          /\ IF AssertMaintenanceAllows(client[c].want.life = "absent")
             THEN Step(c, "write") ELSE Refused(c)
    /\ UNCHANGED <<decl, host, evidence, notClient>>

\* InstanceRegistry.create, .update with expected_current_fingerprint
Write(c) ==
    LET i == client[c].id IN
    /\ client[c].pc = "write"
    /\ IF decl[i] = client[c].base
       THEN /\ decl' = [decl EXCEPT ![i] = client[c].want]
            /\ IF client[c].op \in {"start", "remove"}
               THEN client' = [client EXCEPT ![c].pc = "apply", ![c].base = None, ![c].want = None]
               ELSE Refused(c)
       ELSE UNCHANGED decl /\ Refused(c)
    /\ UNCHANGED <<host, evidence, notClient>>

\* HostApplyService._instance_lock, the gate and the plan's preconditions
MayApply(c, d) ==
    /\ host[client[c].id] # Legacy
    /\ AssertMaintenanceAllows(client[c].op = "remove" /\ d.life = "absent")
    /\ d.life = "running" => root = "present"

LockApply(c) ==
    LET i == client[c].id IN
    /\ client[c].pc = "apply"
    /\ \/ ~ImportCoordination(i) /\ Refused(c) /\ UNCHANGED host
       \/ /\ ImportCoordination(i)
          /\ ~(Quiet /\ i \in Declared) /\ AppliesOf(i) = {}
          /\ IF decl[i] # None /\ MayApply(c, decl[i])
             THEN /\ client' = [client EXCEPT ![c].pc = "applying",
                                              ![c].base = host[i], ![c].want = decl[i]]
                  /\ host' = [host EXCEPT ![i] = IF @ = Deployed(decl[i]) THEN @ ELSE Mixed]
             ELSE Refused(c) /\ UNCHANGED host
    /\ UNCHANGED <<decl, evidence, notClient>>

\* HostApply's transaction, as it promises to end: applied, or undone.
Applied(c) ==
    LET i == client[c].id IN
    /\ client[c].pc = "applying"
    /\ \/ /\ host' = [host EXCEPT ![i] = Deployed(client[c].want)]
          /\ evidence' = [evidence EXCEPT ![i] = Earlier]
       \/ host' = [host EXCEPT ![i] = client[c].base] /\ UNCHANGED evidence
    /\ Refused(c)
    /\ UNCHANGED <<decl, notClient>>

Kill(c) ==
    /\ "kill" \in Faults /\ client[c].pc # "idle"
    /\ Refused(c)
    /\ UNCHANGED <<decl, host, evidence, notClient>>

ClientStep ==
    \E c \in Clients :
        \/ \E op \in Op, i \in Ids : Begin(c, op, i)
        \/ LockRegistry(c) \/ Write(c) \/ LockApply(c) \/ Applied(c) \/ Kill(c)

Job == {"none", "upgrade", "rollback", "uninstall", "import", "restore", "retire"}
JobPc ==
    {"idle", "validate", "row", "update", "mark", "apply", "applying", "complete",
     "switch", "receipt", "clear",
     "backup", "remove", "remove-apply", "remove-save", "rename",
     "entrypoints", "unreceipt", "rmtree",
     "mkdir", "record", "stop", "move", "create", "commit", "finish", "finishing",
     "undo", "undo-stop", "undo-remove", "undo-applied", "undo-declaration", "undo-move",
     "undo-start", "undo-rmdir", "undo-clear",
     "retire", "retire-lock", "retire-move", "retire-links", "retire-clear"}
AcctType == [job : Job, pc : JobPc, id : Ids \cup {None}, base : Deployment \cup {None}]
ClientType ==
    [pc : {"idle", "lock", "write", "apply", "applying"}, op : Op \cup {None},
     id : Ids \cup {None}, base : Deployment \cup {None}, want : Declaration \cup {None}]

GatesTypeOK ==
    /\ decl \in [Ids -> Declaration \cup {None}]
    /\ host \in [Ids -> Deployment]
    /\ evidence \in [Ids -> Declaration \cup {Earlier, None}]
    /\ current \in Releases
    /\ root \in {"present", "quarantined", "gone"}
    /\ acct \in AcctType
    /\ client \in [Clients -> ClientType]
=============================================================================
