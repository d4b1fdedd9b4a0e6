---------------------------- MODULE AccountProofs ----------------------------
(***************************************************************************)
(* What the journals and locks of an account guarantee, for every number   *)
(* of instances, releases and operators' processes, whoever dies between   *)
(* any two steps.  The inductive invariant has one part for each question: *)
(* who may run while what is pending (JobInv, JournalInv), what an         *)
(* operator's process inside a gate relies upon (ClientInv), what is       *)
(* installed (InstallInv), who owns an instance of the predecessor         *)
(* (OwnershipInv, ImportInv), how far an upgrade has come (UpgradeInv).    *)
(***************************************************************************)
EXTENDS Account, WellFoundedInduction, TLAPS

Slots == Ids \cup {ToolkitRetirement}
NoImports == \A j \in Slots : imports[j] = None

(***************************************************************************)
(* The inductive invariant.                                                *)
(***************************************************************************)
\* The account-level process works on what is pending.
JobInv ==
    /\ acct.job = "none" => acct = NoJob
    /\ acct.job = "upgrade" => upgrade # None
    /\ acct.job \in {"rollback", "restore"} => maint # None /\ maint.op = "rollback"
    /\ acct.job = "uninstall" => maint # None /\ maint.op = "uninstall"
    /\ acct.job = "import" =>
        /\ maint = None /\ upgrade = None /\ acct.id \in LegacyIds
        /\ imports[acct.id] = None <=> acct.pc \in {"mkdir", "record"}
        /\ \A j \in Slots \ {acct.id} : imports[j] = None
    /\ acct.job = "retire" =>
        /\ maint = None /\ upgrade = None
        /\ \A i \in Ids : imports[i] = None
        /\ imports[ToolkitRetirement] = None <=> acct.pc = "retire"

\* One procedure is pending at a time, and none but an uninstall when the
\* program is gone.
JournalInv ==
    /\ maint # None => upgrade = None /\ NoImports
    /\ upgrade # None => NoImports
    /\ \A j, k \in Slots : imports[j] # None /\ imports[k] # None => j = k
    /\ \A i \in Ids : imports[i] # None => i \in LegacyIds /\ imports[i].want \in Declaration
    /\ (maint # None /\ maint.op = "rollback") => maint.target \in Releases
    /\ root # "present" =>
        /\ upgrade = None /\ NoImports /\ acct.job \in {"none", "uninstall"}
        /\ maint # None => maint.op = "uninstall"

\* A process of an operator that is inside a gate.
Inside(c) == client[c].pc \in {"write", "applying"}

OneClientInv(c) ==
    /\ client[c].pc # "idle" => client[c].id \in Ids /\ client[c].op \in Op
    /\ client[c].pc \in {"lock", "write", "applying"} => client[c].want \in Declaration
    /\ Inside(c) =>
        /\ upgrade = None /\ ~Quiet
        /\ ~Importing(client[c].id) /\ imports[client[c].id] = None
    /\ client[c].pc = "applying" =>
        /\ decl[client[c].id] # None /\ host[client[c].id] # Legacy
        /\ client[c].base \in Deployment \ {Legacy}
        /\ root # "present" => client[c].base = Clean /\ client[c].want.life = "absent"

ClientInv == \A c \in Clients : OneClientInv(c)

\* Where an uninstall is with the program.
BeforeRename == {"backup", "remove", "remove-apply", "remove-save", "rename"}
AfterRename == {"entrypoints", "unreceipt", "rmtree"}

Installed == root = "present" /\ entry /\ receipt = current
Gone == root = "gone" /\ ~entry /\ receipt = None

InstallInv ==
    /\ maint = None => Installed \/ Gone
    /\ (maint # None /\ maint.op = "rollback") => root = "present" /\ entry
    /\ (maint # None /\ maint.op = "uninstall") =>
        /\ root = "present" => Installed
        /\ root = "gone" => Gone
    /\ (acct.job \in {"rollback", "restore"} /\ acct.pc = "clear") => receipt = current
    /\ acct.job = "uninstall" =>
        /\ acct.pc \in BeforeRename \cup AfterRename \cup {"clear"}
        /\ acct.pc \in BeforeRename => root = "present"
        /\ acct.pc \in AfterRename => root # "present"
        /\ acct.pc \in {"unreceipt", "rmtree"} => ~entry
        /\ acct.pc = "rmtree" => receipt = None
        /\ acct.pc = "clear" => root # "quarantined"
        /\ acct.pc = "rename" => NothingRemains
        /\ acct.pc \in {"remove-apply", "remove-save"} => acct.id \in DOMAIN maint.snap
    /\ root # "present" => \A i \in Ids : host[i] \in {Clean, Legacy}

\* Whose an instance is: its unit file is the predecessor's as long as it
\* has not been moved, and a receipt is final.
OwnershipInv ==
    /\ \A i \in Ids : host[i] = Legacy <=> "unit" \in kept[i]
    /\ \A i \in Ids \ LegacyIds : kept[i] = {} /\ saved[i] = {}
    /\ OriginalsKept
    /\ \A i \in LegacyIds : receipts[i] # None =>
        kept[i] = {} /\ ~up[i] /\ decl[i] # None
    /\ upgrade # None => \A i \in Rows : host[i] # Legacy
    /\ At("upgrade", "applying") => acct.base \in Deployment \ {Legacy}
    /\ (maint # None /\ maint.op = "uninstall") =>
        \A i \in DOMAIN maint.snap : host[i] # Legacy /\ decl[i] # None

\* How far an import has come, forwards and back.
Undone == {"undo-start", "undo-rmdir", "undo-clear"}
UndoPc == {"undo", "undo-stop", "undo-remove", "undo-applied", "undo-declaration", "undo-move"}
              \cup Undone
BeforeReceipt == {"mkdir", "record", "stop", "move", "create", "apply", "applying", "receipt"}
AfterReceipt == {"commit", "finish", "finishing", "clear"}

ImportInv ==
    acct.job = "import" =>
        /\ acct.pc \in UndoPc \cup BeforeReceipt \cup AfterReceipt
        /\ receipts[acct.id] = None <=> acct.pc \in UndoPc \cup BeforeReceipt
        /\ acct.pc \in {"mkdir", "record", "stop"} => kept[acct.id] = Originals /\ up[acct.id]
        /\ acct.pc \in {"mkdir", "record"} => evidence[acct.id] = None
        /\ acct.pc \in {"move", "create", "apply", "applying", "receipt"} => ~up[acct.id]
        /\ acct.pc \in {"create", "apply", "applying", "receipt"} => kept[acct.id] = {}
        /\ acct.pc \in {"apply", "applying", "receipt"} => decl[acct.id] # None
        /\ acct.pc \in {"undo-declaration", "undo-move"} \cup Undone => evidence[acct.id] = None
        /\ acct.pc \in Undone => saved[acct.id] = {}
        /\ acct.pc \in {"undo-rmdir", "undo-clear"} => up[acct.id]

OwnershipSettled == SettledOwnership /\ ToolkitNeeded

\* How far an upgrade has come.
UpgradeInv ==
    /\ upgrade = None => \A i \in Ids : evidence[i] \in {None, Earlier}
    /\ upgrade # None => \A i \in Rows :
        /\ Row(i).phase \in {"applying", "completed"} => decl[i] = Want(i)
        /\ evidence[i] = Want(i) => Row(i).phase \in {"applying", "completed"}
    /\ acct.job = "upgrade" =>
        /\ acct.pc \in {"validate", "row", "update", "mark", "apply", "applying", "complete"}
        /\ acct.pc \notin {"validate", "row"} => acct.id \in Rows
        /\ acct.pc \in {"update", "mark"} => Row(acct.id).phase = "updating"
        /\ acct.pc = "update" => acct.base = decl[acct.id]
        /\ acct.pc \in {"apply", "applying", "complete"} => Row(acct.id).phase = "applying"
        /\ acct.pc \in {"mark", "apply", "applying", "complete"} => decl[acct.id] = Want(acct.id)
        /\ acct.pc \in {"apply", "applying"} => evidence[acct.id] # Want(acct.id)
        /\ acct.pc = "complete" => Converged(acct.id)

AccountInv ==
    /\ TypeOK /\ JobInv /\ JournalInv /\ ClientInv
    /\ InstallInv /\ OwnershipInv /\ ImportInv /\ OwnershipSettled
    /\ JournalTracksDeclarations /\ UpgradeInv
(***************************************************************************)
(* Initially.                                                              *)
(***************************************************************************)
LEMMA Values ==
    /\ None \notin Declaration /\ Earlier \notin Declaration
    /\ Clean \notin Declaration /\ Mixed \notin Declaration /\ Legacy \notin Declaration
    /\ None \notin Deployment /\ None # Earlier
    /\ Clean # Mixed /\ Clean # Legacy /\ Mixed # Legacy
BY RegistryAssumption DEF Deployment

LEMMA NoJobIsJob == NoJob \in AcctType
BY DEF NoJob, AcctType, Job, JobPc

LEMMA AccountInvInit == Init => AccountInv
<1> SUFFICES ASSUME Init PROVE AccountInv
    OBVIOUS
<1> USE RegistryAssumption, MaintAssumption, UpgradeAssumption, ImportAssumption,
        ImportJournalAssumption, AccountAssumption DEF Init, ToolkitRetirement
<1>1. TypeOK
    <2>1. decl \in [Ids -> Declaration \cup {None}]
        BY DEF Declaration, Life
    <2>2. host \in [Ids -> Deployment]
        BY <2>1 DEF Deployment
    <2>3. evidence \in [Ids -> Declaration \cup {Earlier, None}]
        OBVIOUS
    <2>4. acct \in AcctType
        BY NoJobIsJob
    <2>5. client \in [Clients -> ClientType]
        BY DEF IdleClient, ClientType
    <2>6. GatesTypeOK
        BY <2>1, <2>2, <2>3, <2>4, <2>5 DEF GatesTypeOK
    <2> QED
        BY <2>6 DEF TypeOK, UpgradeTypeOK, MaintTypeOK, ImportTypeOK, Originals
<1>2. JobInv /\ JournalInv /\ ImportInv
    BY DEF JobInv, JournalInv, ImportInv, NoImports, Slots, NoJob
<1>3. ClientInv
    BY DEF ClientInv, OneClientInv, Inside, IdleClient
<1>4. InstallInv
    BY DEF InstallInv, Installed, NoJob
<1>5. OwnershipInv
    <2>1. ASSUME NEW i \in Ids
          PROVE  host[i] = Legacy <=> "unit" \in kept[i]
        <3>1. host[i] = IF i \in LegacyIds THEN Legacy ELSE IF decl[i] = None THEN Clean ELSE decl[i]
            OBVIOUS
        <3>2. decl[i] \in Declaration \cup {None}
            BY <1>1 DEF TypeOK, GatesTypeOK
        <3>3. kept[i] = IF i \in LegacyIds THEN {"unit", "config"} ELSE {}
            BY DEF Originals
        <3> QED
            BY ONLY <3>1, <3>2, <3>3, Values
    <2>2. OriginalsKept
        BY DEF OriginalsKept
    <2>3. \A i \in Ids : receipts[i] = None
        OBVIOUS
    <2>4. \A i \in Ids \ LegacyIds : kept[i] = {} /\ saved[i] = {}
        OBVIOUS
    <2>5. maint = None /\ upgrade = None /\ acct.job = "none"
        BY DEF NoJob
    <2> QED
        BY ONLY <2>1, <2>2, <2>3, <2>4, <2>5, ImportAssumption DEF OwnershipInv, At
<1>6. OwnershipSettled
    BY DEF OwnershipSettled, SettledOwnership, ToolkitNeeded, Importing, NoJob
<1>7. JournalTracksDeclarations /\ UpgradeInv
    BY DEF JournalTracksDeclarations, UpgradeInv, NoJob
<1> QED
    BY <1>1, <1>2, <1>3, <1>4, <1>5, <1>6, <1>7 DEF AccountInv
(***************************************************************************)
(* Operators' processes.                                                   *)
(***************************************************************************)
ClientFrame == UNCHANGED <<journals, current, root, acct, maintVars, importVars>>

LEMMA ClientTypes ==
    ASSUME TypeOK, ClientInv, ClientStep, ClientFrame
    PROVE  TypeOK'
<1> USE DEF TypeOK, ClientFrame, journals, maintVars, importVars
<1>1. UpgradeTypeOK' /\ MaintTypeOK' /\ ImportTypeOK'
    BY DEF UpgradeTypeOK, MaintTypeOK, ImportTypeOK
<1> SUFFICES (decl \in [Ids -> Declaration \cup {None}])' /\ (host \in [Ids -> Deployment])'
             /\ (evidence \in [Ids -> Declaration \cup {Earlier, None}])'
             /\ (client \in [Clients -> ClientType])'
    BY <1>1 DEF GatesTypeOK
<1>2. decl \in [Ids -> Declaration \cup {None}] /\ host \in [Ids -> Deployment]
      /\ evidence \in [Ids -> Declaration \cup {Earlier, None}]
      /\ client \in [Clients -> ClientType] /\ current \in Releases
    BY DEF GatesTypeOK
<1>3. IdleClient \in ClientType
    BY DEF IdleClient, ClientType
<1>4. ASSUME NEW d \in Declaration PROVE Deployed(d) \in Deployment
    BY DEF Deployed, Deployment
<1>5. PICK c \in Clients :
            \/ \E op \in Op, i \in Ids : Begin(c, op, i)
            \/ LockRegistry(c) \/ Write(c) \/ LockApply(c) \/ Applied(c) \/ Kill(c)
    BY DEF ClientStep
<1>6. client[c] \in ClientType
    BY <1>2
<1>7. ASSUME NEW op \in Op, NEW i \in Ids, Begin(c, op, i)
      PROVE  (client \in [Clients -> ClientType])'
    <2>1. Intended(op, i) \in Declaration
        BY <1>2, <1>7 DEF Intended, Declaration, Life
    <2>2. [pc |-> "lock", op |-> op, id |-> i, base |-> decl[i], want |-> Intended(op, i)]
            \in ClientType
        BY <1>2, <2>1 DEF ClientType, Deployment
    <2> QED
        BY <1>2, <1>7, <2>2 DEF Begin
<1>8. CASE LockRegistry(c)
    BY <1>2, <1>3, <1>6, <1>8 DEF LockRegistry, Refused, Step, ClientType
<1>9. CASE Write(c)
    BY <1>2, <1>3, <1>6, <1>9 DEF Write, Refused, ClientType, ClientInv, OneClientInv
<1>10. CASE LockApply(c)
    BY <1>2, <1>3, <1>6, <1>10 DEF LockApply, Refused, ClientType, Deployment
<1>11. CASE Applied(c)
    BY <1>2, <1>3, <1>4, <1>6, <1>11 DEF Applied, Refused, ClientInv, OneClientInv
<1>12. CASE Kill(c)
    BY <1>2, <1>3, <1>12 DEF Kill, Refused
<1> QED
    BY <1>2, <1>5, <1>7, <1>8, <1>9, <1>10, <1>11, <1>12
       DEF Begin, LockRegistry, Write, LockApply, Applied, Kill
\* A step of one of them.
StepOf(c) ==
    \/ \E op \in Op, i \in Ids : Begin(c, op, i)
    \/ LockRegistry(c) \/ Write(c) \/ LockApply(c) \/ Applied(c) \/ Kill(c)

\* What the account-level process has pending is left as it is; so are the
\* declarations, the host and the evidence of what a client is not inside of.
LEMMA ClientsKeepClientInv ==
    ASSUME TypeOK, ClientInv, InstallInv, NEW c \in Clients, StepOf(c), ClientFrame,
           NEW d \in Clients
    PROVE  OneClientInv(d)'
<1> USE DEF ClientFrame, journals
<1>1. /\ decl \in [Ids -> Declaration \cup {None}] /\ host \in [Ids -> Deployment]
      /\ client \in [Clients -> ClientType] /\ current \in Releases
    BY DEF TypeOK, GatesTypeOK
<1>2. client[c] \in ClientType /\ client[d] \in ClientType
    BY <1>1
<1>3. OneClientInv(c) /\ OneClientInv(d)
    BY DEF ClientInv
<1>4. Quiet' = Quiet /\ \A i : Importing(i)' = Importing(i)
    BY DEF Quiet, Importing
<1>5. ASSUME UNCHANGED <<decl, host, client[d]>> PROVE OneClientInv(d)'
    BY <1>3, <1>4, <1>5 DEF OneClientInv, Inside
<1>6. ASSUME client[d]'.pc = "idle" PROVE OneClientInv(d)'
    BY <1>6 DEF OneClientInv, Inside
<1>7. ASSUME NEW op \in Op, NEW i \in Ids, Begin(c, op, i) PROVE OneClientInv(d)'
    <2>1. CASE d # c
        BY <1>1, <1>5, <1>7, <2>1 DEF Begin
    <2>2. CASE d = c
        <3>1. Intended(op, i) \in Declaration
            BY <1>1, <1>7 DEF Intended, Declaration, Life
        <3>2. client'[c] = [pc |-> "lock", op |-> op, id |-> i, base |-> decl[i],
                            want |-> Intended(op, i)]
            BY <1>1, <1>7 DEF Begin
        <3> QED
            BY <2>2, <3>1, <3>2 DEF OneClientInv, Inside
    <2> QED
        BY <2>1, <2>2
<1>8. CASE LockRegistry(c)
    <2>1. CASE d # c
        BY <1>1, <1>5, <1>8, <2>1 DEF LockRegistry, Refused, Step
    <2>2. CASE d = c /\ Refused(c)
        BY <1>1, <1>6, <2>2 DEF Refused, IdleClient
    <2>3. CASE d = c /\ ~Refused(c)
        <3>1. ImportCoordination(client[c].id) /\ ~Quiet /\ upgrade = None
              /\ client[c].pc = "lock" /\ Step(c, "write")
            BY <1>8, <2>3 DEF LockRegistry, AssertMaintenanceAllows
        <3>2. /\ client'[c].pc = "write" /\ client'[c].id = client[c].id
              /\ client'[c].op = client[c].op /\ client'[c].want = client[c].want
            BY <1>1, <1>2, <3>1 DEF Step, ClientType
        <3> QED
            BY <1>3, <1>4, <2>3, <3>1, <3>2 DEF OneClientInv, Inside, ImportCoordination
    <2> QED
        BY <2>1, <2>2, <2>3
<1>9. CASE Write(c)
    <2>1. client[c].id \in Ids /\ client[c].want \in Declaration
        BY <1>3, <1>9 DEF Write, OneClientInv
    <2>2. UNCHANGED host /\ \A i \in Ids : decl[i] # None => decl'[i] # None
        BY <1>1, <1>9, <2>1, Values DEF Write
    <2>3. CASE d # c
        BY <1>1, <1>3, <1>4, <1>9, <2>2, <2>3 DEF Write, Refused, OneClientInv, Inside
    <2>4. CASE d = c
        <3>1. CASE Refused(c)
            BY <1>1, <1>6, <2>4, <3>1 DEF Refused, IdleClient
        <3>2. CASE ~Refused(c)
            <4>1. client' = [client EXCEPT ![c].pc = "apply", ![c].base = None, ![c].want = None]
                BY <1>9, <3>2 DEF Write
            <4>2. client'[c].pc = "apply" /\ client'[c].id = client[c].id
                  /\ client'[c].op = client[c].op
                BY <1>1, <1>2, <4>1 DEF ClientType
            <4> QED
                BY <1>3, <1>9, <2>4, <4>2 DEF OneClientInv, Inside, Write
        <3> QED
            BY <3>1, <3>2
    <2> QED
        BY <2>3, <2>4
<1>10. CASE LockApply(c)
    <2>1. client[c].id \in Ids
        BY <1>3, <1>10 DEF LockApply, OneClientInv
    <2>2. UNCHANGED decl /\ \A i \in Ids : host[i] # Legacy => host'[i] # Legacy
        BY <1>1, <1>10, <2>1, Values DEF LockApply
    <2>3. CASE d # c
        BY <1>1, <1>3, <1>4, <1>10, <2>2, <2>3 DEF LockApply, Refused, OneClientInv, Inside
    <2>4. CASE d = c /\ client'[c].pc # "idle"
        <3> DEFINE i == client[c].id
        <3>1. ~Refused(c)
            BY <1>1, <2>4 DEF Refused, IdleClient
        <3>5. /\ ImportCoordination(i) /\ ~(Quiet /\ i \in Declared) /\ MayApply(c, decl[i])
              /\ decl[i] # None /\ client[c].pc = "apply"
              /\ client' = [client EXCEPT ![c].pc = "applying", ![c].base = host[i], ![c].want = decl[i]]
            BY <1>10, <3>1 DEF LockApply
        <3>6. /\ client'[c].pc = "applying" /\ client'[c].base = host[i] /\ client'[c].want = decl[i]
              /\ client'[c].id = i /\ client'[c].op = client[c].op
            BY <1>1, <1>2, <3>5 DEF ClientType
        <3>2. decl[i] \in Declaration /\ host[i] \in Deployment \ {Legacy}
            BY <1>1, <2>1, <3>5 DEF MayApply
        <3>3. root # "present" => host[i] = Clean /\ decl[i].life = "absent"
            BY <2>1, <3>2, <3>5 DEF MayApply, InstallInv, Declaration, Life
        <3>4. upgrade = None /\ ~Quiet /\ ~Importing(i) /\ imports[i] = None
            BY <2>1, <3>5 DEF MayApply, AssertMaintenanceAllows, ImportCoordination, Declared
        <3> QED
            BY <1>3, <1>4, <2>1, <2>2, <2>4, <3>2, <3>3, <3>4, <3>5, <3>6 DEF OneClientInv, Inside
    <2> QED
        BY <1>6, <2>3, <2>4
<1>11. CASE Applied(c)
    <2>1. client[c].id \in Ids /\ client[c].want \in Declaration /\ client[c].base # Legacy
        BY <1>3, <1>11 DEF Applied, OneClientInv
    <2>2. UNCHANGED decl /\ \A i \in Ids : host[i] # Legacy => host'[i] # Legacy
        BY <1>1, <1>11, <2>1, Values DEF Applied, Deployed
    <2>3. CASE d # c
        BY <1>1, <1>3, <1>4, <1>11, <2>2, <2>3 DEF Applied, Refused, OneClientInv, Inside
    <2>4. CASE d = c
        BY <1>1, <1>6, <1>11, <2>4 DEF Applied, Refused, IdleClient
    <2> QED
        BY <2>3, <2>4
<1>12. CASE Kill(c)
    BY <1>1, <1>5, <1>6, <1>12 DEF Kill, Refused, IdleClient
<1> QED
    BY <1>7, <1>8, <1>9, <1>10, <1>11, <1>12 DEF StepOf
\* What they change: nothing of an instance that a procedure has taken.
Free(i) == upgrade = None /\ ~Quiet /\ ~Importing(i) /\ imports[i] = None

ClientEffect(i) ==
    /\ decl'[i] = decl[i] \/ (Free(i) /\ decl'[i] \in Declaration)
    /\ \/ host'[i] = host[i]
       \/ /\ Free(i) /\ host[i] # Legacy /\ host'[i] # Legacy
          /\ root # "present" => host'[i] = Clean
    /\ evidence'[i] = evidence[i] \/ (Free(i) /\ host[i] # Legacy /\ evidence'[i] = Earlier)

LEMMA ClientsHaveEffect ==
    ASSUME TypeOK, ClientInv, InstallInv, NEW c \in Clients, StepOf(c), ClientFrame,
           NEW i \in Ids
    PROVE  ClientEffect(i)
<1>1. /\ decl \in [Ids -> Declaration \cup {None}] /\ host \in [Ids -> Deployment]
      /\ evidence \in [Ids -> Declaration \cup {Earlier, None}]
    BY DEF TypeOK, GatesTypeOK
<1>2. OneClientInv(c)
    BY DEF ClientInv
<1>3. ASSUME UNCHANGED <<decl, host, evidence>> PROVE ClientEffect(i)
    BY <1>3 DEF ClientEffect
<1>4. CASE Write(c)
    BY <1>1, <1>2, <1>4 DEF Write, ClientEffect, OneClientInv, Inside, Free
<1>5. CASE LockApply(c)
    <2>1. client[c].id \in Ids /\ UNCHANGED <<decl, evidence>>
        BY <1>2, <1>5 DEF LockApply, OneClientInv, notClient
    <2>2. CASE i = client[c].id /\ host'[i] # host[i]
        <3>1. /\ ImportCoordination(i) /\ ~(Quiet /\ i \in Declared) /\ MayApply(c, decl[i])
              /\ decl[i] # None
              /\ host'[i] = IF host[i] = Deployed(decl[i]) THEN host[i] ELSE Mixed
            BY <1>1, <1>5, <2>1, <2>2 DEF LockApply
        <3>2. Free(i) /\ host[i] # Legacy
            BY <2>1, <2>2, <3>1
               DEF MayApply, AssertMaintenanceAllows, ImportCoordination, Declared, Free
        <3>3. root = "present"
            BY <1>1, <2>1, <2>2, <3>1, <3>2
               DEF MayApply, InstallInv, Declaration, Life, Deployed
        <3> QED
            BY <2>1, <2>2, <3>1, <3>2, <3>3, Values DEF ClientEffect
    <2> QED
        BY <1>1, <1>5, <2>1, <2>2 DEF LockApply, ClientEffect
<1>6. CASE Applied(c)
    BY <1>1, <1>2, <1>6, Values
       DEF Applied, ClientEffect, OneClientInv, Inside, Free, Deployed, notClient
<1> QED
    BY <1>3, <1>4, <1>5, <1>6 DEF StepOf, Begin, LockRegistry, Kill

LEMMA ClientsKeepInv ==
    ASSUME AccountInv, ClientStep, ClientFrame
    PROVE  AccountInv'
<1> USE DEF ClientFrame, journals, maintVars, importVars
<1>1. PICK c \in Clients : StepOf(c)
    BY DEF ClientStep, StepOf
<1>2. \A i \in Ids : ClientEffect(i)
    BY <1>1, ClientsHaveEffect DEF AccountInv
<1>3. TypeOK' /\ ClientInv'
    BY <1>1, ClientTypes, ClientsKeepClientInv DEF AccountInv, ClientInv
<1>4. JobInv' /\ JournalInv'
    BY DEF AccountInv, JobInv, JournalInv, NoImports
<1>5. InstallInv'
    <2>1. InstallInv
        BY DEF AccountInv
    <2>2. At("uninstall", "rename") => NothingRemains'
        <3> SUFFICES ASSUME At("uninstall", "rename") PROVE NothingRemains'
            OBVIOUS
        <3>1. Quiet /\ NothingRemains
            BY <2>1 DEF Quiet, QuietSteps, At, InstallInv
        <3>2. \A i \in Ids : decl'[i] = decl[i] /\ host'[i] = host[i]
            BY <1>2, <3>1 DEF ClientEffect, Free
        <3> QED
            BY <3>1, <3>2 DEF NothingRemains, Declared
    <2>3. root # "present" => \A i \in Ids : host'[i] \in {Clean, Legacy}
        BY <1>2, <2>1 DEF ClientEffect, InstallInv
    <2> QED
        BY <2>1, <2>2, <2>3 DEF InstallInv, Installed, Gone, At
<1>6. OwnershipInv'
    <2>1. OwnershipInv /\ ImportAssumption
        BY ImportAssumption DEF AccountInv
    <2>2. \A i \in Ids : host'[i] = Legacy <=> host[i] = Legacy
        BY <1>2 DEF ClientEffect
    <2>3. \A i \in Ids : decl[i] # None => decl'[i] # None
        BY <1>2, Values DEF ClientEffect
    <2>4. upgrade # None => Rows \subseteq Ids
        BY DEF AccountInv, JournalTracksDeclarations, Declared
    <2>5. maint # None => DOMAIN maint.snap \subseteq Ids
        BY DEF AccountInv, TypeOK, MaintTypeOK, MaintJournal
    <2> QED
        BY <2>1, <2>2, <2>3, <2>4, <2>5, ImportAssumption DEF OwnershipInv, OriginalsKept, At, Rows
<1>7. ImportInv'
    <2>1. acct.job = "import" => acct.id \in Ids /\ Importing(acct.id)
        BY ImportAssumption DEF AccountInv, JobInv, Importing
    <2>2. acct.job = "import" => decl'[acct.id] = decl[acct.id] /\ evidence'[acct.id] = evidence[acct.id]
        BY <1>2, <2>1 DEF ClientEffect, Free
    <2> QED
        BY <2>2 DEF AccountInv, ImportInv
<1>8. OwnershipSettled'
    BY <1>2, Values, ImportAssumption
       DEF AccountInv, OwnershipSettled, SettledOwnership, ToolkitNeeded, Importing, ClientEffect
<1>9. JournalTracksDeclarations' /\ UpgradeInv'
    <2>1. CASE upgrade = None
        BY <1>2, <2>1 DEF AccountInv, JournalTracksDeclarations, UpgradeInv, JobInv, ClientEffect
    <2>2. CASE upgrade # None
        <3>1. UNCHANGED <<decl, host, evidence>>
            <4>1. \A i \in Ids : decl'[i] = decl[i] /\ host'[i] = host[i] /\ evidence'[i] = evidence[i]
                BY <1>2, <2>2 DEF ClientEffect, Free
            <4> QED
                BY <1>3, <4>1 DEF AccountInv, TypeOK, GatesTypeOK
        <3> QED
            BY <3>1, <2>2
               DEF AccountInv, JournalTracksDeclarations, UpgradeInv, Rows, Row, Want, Candidate,
                   Allowed, PlanReviewed, Converged, Declared
    <2> QED
        BY <2>1, <2>2
<1> QED
    BY <1>3, <1>4, <1>5, <1>6, <1>7, <1>8, <1>9 DEF AccountInv
(***************************************************************************)
(* The upgrade.                                                            *)
(***************************************************************************)
LEMMA LeastExists ==
    ASSUME NEW S \in SUBSET Nat, S # {}
    PROVE  \E m \in S : \A k \in S : m <= k
<1> DEFINE R == {ss \in Nat \X Nat : ss[1] < ss[2]}
<1>1. IsWellFoundedOn(R, Nat)
    BY NatLessThanWellFounded DEF OpToRel
<1>2. \A k, m \in S : <<k, m>> \in R <=> k < m
    OBVIOUS
<1> HIDE DEF R
<1>3. PICK m \in S : \A k \in S : ~(<<k, m>> \in R)
    BY <1>1, WFMin
<1>4. \A k \in S : ~(k < m)
    BY <1>2, <1>3
<1> QED
    BY <1>4

LEMMA UpgradeFacts ==
    ASSUME AccountInv, upgrade # None
    PROVE  /\ upgrade = [rel |-> upgrade.rel, rows |-> upgrade.rows]
           /\ upgrade.rel \in Releases /\ upgrade.rows \in [Rows -> UpgradeRow]
           /\ Rows \subseteq Ids /\ Rows = Declared
           /\ \A i \in Rows : /\ Row(i) \in UpgradeRow /\ Want(i) \in Declaration
                              /\ Want(i).life = Row(i).orig.life
           /\ maint = None /\ NoImports /\ root = "present"
           /\ \A c \in Clients : ~Inside(c)
<1>1. /\ upgrade = [rel |-> upgrade.rel, rows |-> upgrade.rows] /\ upgrade.rel \in Releases
      /\ upgrade.rows \in UNION {[S -> UpgradeRow] : S \in SUBSET Ids}
    BY DEF AccountInv, TypeOK, UpgradeTypeOK, UpgradeJournal
<1>2. Rows \subseteq Ids /\ upgrade.rows \in [Rows -> UpgradeRow]
    BY <1>1 DEF Rows
<1>3. ASSUME NEW i \in Rows
      PROVE  Row(i) \in UpgradeRow /\ Want(i) \in Declaration /\ Want(i).life = Row(i).orig.life
    BY <1>1, <1>2 DEF Row, Want, Candidate, UpgradeRow, Declaration
<1>4. maint = None /\ NoImports /\ root = "present" /\ \A c \in Clients : ~Inside(c)
    BY DEF AccountInv, JournalInv, ClientInv, OneClientInv
<1> QED
    BY <1>1, <1>2, <1>3, <1>4 DEF AccountInv, JournalTracksDeclarations

\* Only the phase of a row is ever changed.
LEMMA PhaseIsSet ==
    ASSUME AccountInv, upgrade # None, NEW i \in Rows,
           NEW phase \in {"pending", "updating", "applying", "completed"}, InPhase(i, phase)
    PROVE  /\ upgrade' \in UpgradeJournal /\ upgrade' # None /\ Rows' = Rows
           /\ \A j \in Rows :
                /\ Row(j)'.phase = IF j = i THEN phase ELSE Row(j).phase
                /\ Row(j)'.orig = Row(j).orig /\ Row(j)'.plan = Row(j).plan
                /\ Want(j)' = Want(j)
<1>1. /\ upgrade = [rel |-> upgrade.rel, rows |-> upgrade.rows] /\ upgrade.rel \in Releases
      /\ upgrade.rows \in [Rows -> UpgradeRow] /\ Rows \subseteq Ids /\ Rows = DOMAIN upgrade.rows
    BY UpgradeFacts DEF Rows
<1>2. upgrade' = [rel |-> upgrade.rel, rows |-> [upgrade.rows EXCEPT ![i].phase = phase]]
    BY <1>1 DEF InPhase
<1>3. [upgrade.rows EXCEPT ![i].phase = phase] \in [Rows -> UpgradeRow]
    BY <1>1 DEF UpgradeRow
<1>4. upgrade' \in UpgradeJournal
    BY <1>1, <1>2, <1>3 DEF UpgradeJournal
<1>5. upgrade'.rows = [upgrade.rows EXCEPT ![i].phase = phase] /\ upgrade'.rel = upgrade.rel
    BY <1>2
<1>6. Rows' = Rows
    BY <1>3, <1>5 DEF Rows
<1>7. ASSUME NEW j \in Rows
      PROVE  /\ Row(j)'.phase = IF j = i THEN phase ELSE Row(j).phase
             /\ Row(j)'.orig = Row(j).orig /\ Row(j)'.plan = Row(j).plan
    BY <1>1, <1>5 DEF Row, UpgradeRow
<1>8. \A j \in Rows : Want(j)' = Want(j)
    BY <1>5, <1>7 DEF Want, Candidate
<1> QED
    BY <1>4, <1>6, <1>7, <1>8, UpgradeAssumption

LEMMA RowIsOpen ==
    ASSUME AccountInv, upgrade # None, Open # {}
    PROVE  Next1 \in Rows /\ Row(Next1).phase # "completed"
<1>1. Open \in SUBSET Nat
    BY UpgradeFacts, RegistryAssumption DEF Open
<1>2. Next1 \in Open
    BY <1>1, LeastExists DEF Next1
<1> QED
    BY <1>2 DEF Open
\* A process that dies between two steps, or gives up, changes nothing else.
LEMMA ReleaseKeepsInv ==
    ASSUME AccountInv, Release,
           UNCHANGED <<regVars, journals, current, root, maintVars, importVars>>
    PROVE  AccountInv'
<1> USE DEF regVars, journals, maintVars, importVars
<1>1. acct' = NoJob /\ acct'.job = "none" /\ acct'.pc = "idle" /\ acct'.id = None
    BY DEF Release, NoJob
<1>2. TypeOK'
    BY <1>1, NoJobIsJob
       DEF AccountInv, TypeOK, GatesTypeOK, UpgradeTypeOK, MaintTypeOK, ImportTypeOK
<1>3. JobInv' /\ JournalInv' /\ ImportInv'
    BY <1>1 DEF AccountInv, JobInv, JournalInv, ImportInv, NoImports
<1>4. ClientInv'
    <2>1. ~Quiet' /\ \A i : ~Importing(i)'
        BY <1>1 DEF Quiet, QuietSteps, Importing
    <2> QED
        BY <2>1 DEF AccountInv, ClientInv, OneClientInv, Inside
<1>5. InstallInv' /\ OwnershipInv'
    BY <1>1 DEF AccountInv, InstallInv, Installed, Gone, OwnershipInv, OriginalsKept, At, Rows
<1>6. OwnershipSettled'
    <2>1. SettledOwnership'
        <3> SUFFICES ASSUME NEW i \in LegacyIds, imports[i] = None
                     PROVE  \/ kept[i] = Originals /\ up[i] /\ receipts[i] = None /\ host[i] = Legacy
                                 /\ evidence[i] = None
                            \/ saved[i] = Originals /\ ~up[i] /\ receipts[i] # None /\ decl[i] # None
            BY DEF SettledOwnership
        <3>1. CASE ~Importing(i)
            BY <3>1 DEF AccountInv, OwnershipSettled, SettledOwnership
        <3>2. CASE Importing(i)
            <4>1. acct.pc \in {"mkdir", "record"} /\ kept[i] = Originals /\ up[i]
                  /\ receipts[i] = None /\ evidence[i] = None
                BY <3>2 DEF AccountInv, JobInv, ImportInv, Importing, BeforeReceipt
            <4>2. host[i] = Legacy
                BY <4>1, ImportAssumption DEF AccountInv, OwnershipInv, Originals
            <4> QED
                BY <4>1, <4>2
        <3> QED
            BY <3>1, <3>2
    <2> QED
        BY <2>1 DEF AccountInv, OwnershipSettled, ToolkitNeeded
<1>7. JournalTracksDeclarations' /\ UpgradeInv'
    BY <1>1
       DEF AccountInv, JournalTracksDeclarations, UpgradeInv, Rows, Row, Want, Candidate,
           Allowed, PlanReviewed, Converged, Declared
<1> QED
    BY <1>2, <1>3, <1>4, <1>5, <1>6, <1>7 DEF AccountInv
UpgradeFrame == UNCHANGED <<notUpgrade, maintVars, importVars>>
Stopped == Release /\ UNCHANGED <<decl, host, evidence, upgrade>>

UpgradeActs ==
    \/ UpgradeApply \/ UpgradeRecover \/ UpgradeAdvances \/ ApplyFails

\* Who may be at work while an upgrade is.
UpgradeAlone ==
    /\ maint = None /\ NoImports /\ root = "present" /\ \A c \in Clients : ~Inside(c)
    /\ acct.job \in {"none", "upgrade"} /\ acct' \in AcctType /\ upgrade' \in UpgradeJournal \cup {None}
    /\ acct' = NoJob \/ (acct'.job = "upgrade" /\ upgrade' # None)

\* What it changes of an instance.
UpgradeEffect(i) ==
    /\ decl'[i] = decl[i] \/ (decl[i] # None /\ decl'[i] \in Declaration)
    /\ host'[i] = host[i] \/ (host[i] # Legacy /\ host'[i] \in Deployment \ {Legacy})
    /\ evidence'[i] = evidence[i] \/ host[i] # Legacy \/ evidence[i] # None
    /\ evidence'[i] \in Declaration \cup {Earlier, None}

\* Facts about the shape of the state that every case below starts from.
LEMMA Shapes ==
    ASSUME AccountInv
    PROVE  /\ decl \in [Ids -> Declaration \cup {None}] /\ host \in [Ids -> Deployment]
           /\ evidence \in [Ids -> Declaration \cup {Earlier, None}] /\ current \in Releases
           /\ client \in [Clients -> ClientType] /\ acct \in AcctType
           /\ imports \in [Slots -> ImportJournal \cup {None}]
           /\ Ids \subseteq Slots /\ ToolkitRetirement \in Slots /\ ToolkitRetirement \notin Ids
           /\ LegacyIds \subseteq Ids
BY RegistryAssumption, ImportAssumption
   DEF AccountInv, TypeOK, GatesTypeOK, ImportTypeOK, Slots, ToolkitRetirement

LEMMA UpgradeStarts ==
    ASSUME AccountInv, UpgradeApply \/ UpgradeRecover, UpgradeFrame
    PROVE  UpgradeAlone /\ acct'.job = "upgrade" /\ acct'.pc = "validate"
           /\ UNCHANGED <<decl, host, evidence>>
<1>1. LockFree /\ Target /\ StartJob("upgrade", "validate") /\ UNCHANGED <<decl, host, evidence>>
    BY DEF UpgradeApply, UpgradeRecover
<1>2. maint = None /\ NoImports /\ root = "present" /\ acct.job = "none"
    BY <1>1 DEF Target, NoImports, Slots, ToolkitRetirement, LockFree, NoJob
<1>3. acct' = [job |-> "upgrade", pc |-> "validate", id |-> None, base |-> None]
    BY <1>1 DEF StartJob, NoJob
<1>4. acct' \in AcctType /\ acct'.job = "upgrade" /\ acct'.pc = "validate"
    BY <1>3 DEF AcctType, Job, JobPc
<1>5. \A c \in Clients : ~Inside(c)
    <2>1. CASE UpgradeApply
        <3>1. Quiescent /\ \A c \in Clients : OneClientInv(c)
            BY <2>1 DEF UpgradeApply, AccountInv, ClientInv
        <3>2. \A c \in Clients : client[c].pc = "applying" => client[c].id \in Declared
            BY <3>1 DEF OneClientInv, Declared
        <3> QED
            BY <3>1, <3>2 DEF Quiescent, Inside
    <2>2. CASE UpgradeRecover
        BY <2>2, UpgradeFacts DEF UpgradeRecover
    <2> QED
        BY <2>1, <2>2
<1>6. upgrade' \in UpgradeJournal /\ upgrade' # None
    <2>1. CASE UpgradeApply
        <3>1. upgrade' = [rel |-> current,
                          rows |-> [i \in Declared |->
                              [orig |-> decl[i], plan |-> host[i], phase |-> "pending"]]]
            BY <2>1 DEF UpgradeApply
        <3>2. [i \in Declared |-> [orig |-> decl[i], plan |-> host[i], phase |-> "pending"]]
                  \in [Declared -> UpgradeRow]
            BY Shapes DEF Declared, UpgradeRow
        <3>3. Declared \in SUBSET Ids
            BY DEF Declared
        <3>4. upgrade' \in UpgradeJournal
            BY <3>1, <3>2, <3>3, Shapes DEF UpgradeJournal
        <3> QED
            BY <3>4, UpgradeAssumption
    <2>2. CASE UpgradeRecover
        BY <2>2 DEF UpgradeRecover, AccountInv, TypeOK, UpgradeTypeOK
    <2> QED
        BY <2>1, <2>2
<1> QED
    BY <1>1, <1>2, <1>4, <1>5, <1>6 DEF UpgradeAlone
\* The fields of the account-level process that an action changes.
LEMMA JobFields ==
    ASSUME acct \in AcctType, NEW pc \in JobPc, NEW id \in Ids \cup {None}
    PROVE  /\ Goto(pc) =>
                /\ acct' \in AcctType /\ acct'.job = acct.job /\ acct'.pc = pc
                /\ acct'.id = acct.id /\ acct'.base = acct.base
           /\ acct' = [acct EXCEPT !.pc = pc, !.id = id] =>
                /\ acct' \in AcctType /\ acct'.job = acct.job /\ acct'.pc = pc
                /\ acct'.id = id /\ acct'.base = acct.base
BY DEF AcctType, Goto

LEMMA JobBase ==
    ASSUME acct \in AcctType, NEW pc \in JobPc, NEW base \in Deployment \cup {None},
           acct' = [acct EXCEPT !.pc = pc, !.base = base]
    PROVE  /\ acct' \in AcctType /\ acct'.job = acct.job /\ acct'.pc = pc
           /\ acct'.id = acct.id /\ acct'.base = base
BY DEF AcctType

LEMMA JobIdBase ==
    ASSUME acct \in AcctType, NEW pc \in JobPc, NEW id \in Ids \cup {None},
           NEW base \in Deployment \cup {None},
           acct' = [acct EXCEPT !.pc = pc, !.id = id, !.base = base]
    PROVE  /\ acct' \in AcctType /\ acct'.job = acct.job /\ acct'.pc = pc
           /\ acct'.id = id /\ acct'.base = base
BY DEF AcctType

\* What is known in the middle of an upgrade.
LEMMA UpgradeAtWork ==
    ASSUME AccountInv, acct.job = "upgrade"
    PROVE  /\ upgrade # None
           /\ acct.pc \notin {"validate", "row"} => acct.id \in Rows /\ acct.id \in Declared
           /\ decl \in [Ids -> Declaration \cup {None}] /\ host \in [Ids -> Deployment]
           /\ evidence \in [Ids -> Declaration \cup {Earlier, None}]
           /\ acct = [job |-> "upgrade", pc |-> acct.pc, id |-> acct.id, base |-> acct.base]
           /\ acct.pc \in JobPc /\ acct.id \in Ids \cup {None} /\ acct.base \in Deployment \cup {None}
           /\ Rows \subseteq Ids /\ Rows = Declared
           /\ \A i \in Rows : /\ Row(i) \in UpgradeRow /\ Want(i) \in Declaration
                              /\ host[i] # Legacy
           /\ upgrade \in UpgradeJournal
<1>1. upgrade # None
    BY DEF AccountInv, JobInv
<1>2. acct.pc \notin {"validate", "row"} => acct.id \in Rows
    BY DEF AccountInv, UpgradeInv
<1>3. acct = [job |-> "upgrade", pc |-> acct.pc, id |-> acct.id, base |-> acct.base]
      /\ acct.pc \in JobPc /\ acct.id \in Ids \cup {None} /\ acct.base \in Deployment \cup {None}
    BY Shapes DEF AcctType
<1>4. \A i \in Rows : host[i] # Legacy
    BY <1>1 DEF AccountInv, OwnershipInv
<1>5. upgrade \in UpgradeJournal
    BY <1>1 DEF AccountInv, TypeOK, UpgradeTypeOK
<1> QED
    BY <1>1, <1>2, <1>3, <1>4, <1>5, UpgradeFacts, Shapes

\* Every case shows this.
UpgradeOutcome ==
    /\ UpgradeAlone /\ \A i \in Ids : UpgradeEffect(i)
    /\ decl' \in [Ids -> Declaration \cup {None}] /\ host' \in [Ids -> Deployment]
    /\ evidence' \in [Ids -> Declaration \cup {Earlier, None}]
    /\ upgrade' # None => \A i \in Rows' : host[i] # Legacy
    /\ At("upgrade", "applying")' => acct'.base \in Deployment \ {Legacy}
    /\ JournalTracksDeclarations' /\ UpgradeInv'

LEMMA UpgradeAloneAtWork ==
    ASSUME AccountInv, acct.job = "upgrade", acct' \in AcctType,
           upgrade' \in UpgradeJournal \cup {None},
           acct' = NoJob \/ (acct'.job = "upgrade" /\ upgrade' # None)
    PROVE  UpgradeAlone
BY UpgradeAtWork, UpgradeFacts DEF UpgradeAlone

\* The journal, the declarations and the host are as they were: what was
\* known of every row still is.
LEMMA UpgradeSteady ==
    ASSUME AccountInv, upgrade # None, UpgradeAlone, UNCHANGED <<decl, host, evidence, upgrade>>,
           acct'.job = "none" \/ (acct'.job = "upgrade" /\ acct'.pc \in {"validate", "row"})
    PROVE  UpgradeOutcome
<1>1. \A i \in Ids : UpgradeEffect(i)
    BY Shapes DEF UpgradeEffect
<1>2. Rows' = Rows /\ \A i : Row(i)' = Row(i) /\ Want(i)' = Want(i)
    BY DEF Rows, Row, Want, Candidate
<1>3. JournalTracksDeclarations'
    BY <1>2
       DEF AccountInv, JournalTracksDeclarations, Allowed, PlanReviewed, Converged, Declared
<1>4. UpgradeInv'
    BY <1>2 DEF AccountInv, UpgradeInv
<1>5. \A i \in Rows' : host[i] # Legacy
    BY <1>2 DEF AccountInv, OwnershipInv
<1> QED
    BY <1>1, <1>3, <1>4, <1>5, Shapes DEF UpgradeOutcome, At

LEMMA UpgradeStartsOutcome ==
    ASSUME AccountInv, UpgradeApply \/ UpgradeRecover, UpgradeFrame
    PROVE  UpgradeOutcome
<1>1. UpgradeAlone /\ acct'.job = "upgrade" /\ acct'.pc = "validate"
      /\ UNCHANGED <<decl, host, evidence>>
    BY UpgradeStarts
<1>2. CASE UpgradeRecover
    BY <1>1, <1>2, UpgradeSteady DEF UpgradeRecover
<1>3. CASE UpgradeApply
    <2>1. /\ upgrade' = [rel |-> current,
                         rows |-> [i \in Declared |->
                             [orig |-> decl[i], plan |-> host[i], phase |-> "pending"]]]
          /\ upgrade = None /\ \A i \in Declared : host[i] # Legacy
        BY <1>3 DEF UpgradeApply
    <2>2. Rows' = Declared /\ Declared \subseteq Ids
        BY <2>1 DEF Rows, Declared
    <2>3. \A i \in Declared : Row(i)' = [orig |-> decl[i], plan |-> host[i], phase |-> "pending"]
        BY <2>1 DEF Row
    <2>4. \A i \in Ids : UpgradeEffect(i)
        BY <1>1, Shapes DEF UpgradeEffect
    <2>5. JournalTracksDeclarations'
        <3>1. Rows' = Declared'
            BY <1>1, <2>2 DEF Declared
        <3>2. ASSUME NEW i \in Rows' PROVE (decl[i] \in Allowed(i) /\ PlanReviewed(i))' /\ Row(i)'.phase # "completed"
            BY <1>1, <2>2, <2>3 DEF Allowed, PlanReviewed
        <3> QED
            BY <3>1, <3>2 DEF JournalTracksDeclarations
    <2>6. UpgradeInv'
        <3>1. ASSUME NEW i \in Declared PROVE evidence'[i] # Want(i)' /\ Row(i)'.phase = "pending"
            <4>1. Row(i)'.orig \in Declaration /\ upgrade'.rel \in Releases
                BY <2>1, <2>3, Shapes DEF Declared
            <4>2. Want(i)' \in Declaration
                BY <4>1 DEF Want, Candidate, Declaration
            <4>3. evidence'[i] \in {None, Earlier}
                BY <1>1, <2>1, <2>2 DEF AccountInv, UpgradeInv
            <4> QED
                BY <2>3, <4>2, <4>3, Values
        <3> QED
            BY ONLY <1>1, <2>2, <3>1
               DEF UpgradeInv, UpgradeAlone, NoJob
    <2> QED
        BY <1>1, <2>1, <2>2, <2>4, <2>5, <2>6, Shapes DEF UpgradeOutcome, At
<1> QED
    BY <1>2, <1>3
\* How the journal stands, apart from what the process at work knows.
RowsInv ==
    upgrade # None => \A i \in Rows :
        /\ Row(i).phase \in {"applying", "completed"} => decl[i] = Want(i)
        /\ evidence[i] = Want(i) => Row(i).phase \in {"applying", "completed"}

\* The phase of one row changes, and nothing else.
LEMMA PhaseOutcome ==
    ASSUME AccountInv, acct.job = "upgrade", NEW i \in Rows,
           NEW phase \in {"updating", "applying", "completed"}, InPhase(i, phase),
           UNCHANGED <<decl, host, evidence>>,
           acct' \in AcctType, acct'.job = "upgrade", acct'.pc # "applying",
           phase = "updating" => evidence[i] # Want(i) /\ decl[i] \in {Row(i).orig, Want(i)},
           phase = "applying" => decl[i] = Want(i),
           phase = "completed" => decl[i] = Want(i) /\ Converged(i),
           RowsInv' => UpgradeInv'
    PROVE  UpgradeOutcome
<1>1. /\ upgrade # None /\ upgrade' \in UpgradeJournal /\ upgrade' # None /\ Rows' = Rows
      /\ \A j \in Rows :
           /\ Row(j)'.phase = IF j = i THEN phase ELSE Row(j).phase
           /\ Row(j)'.orig = Row(j).orig /\ Row(j)'.plan = Row(j).plan
           /\ Want(j)' = Want(j)
    BY UpgradeAtWork, PhaseIsSet
<1>2. UpgradeAlone /\ \A j \in Ids : UpgradeEffect(j)
    BY <1>1, UpgradeAloneAtWork, Shapes DEF UpgradeEffect
<1>3. JournalTracksDeclarations'
    <2>1. Rows' = Declared'
        BY <1>1, UpgradeAtWork DEF Declared
    <2>2. ASSUME NEW j \in Rows
          PROVE  /\ decl'[j] \in Allowed(j)' /\ PlanReviewed(j)'
                 /\ Row(j)'.phase = "completed" => Converged(j)'
        <3>1. decl[j] \in Allowed(j) /\ PlanReviewed(j) /\ (Row(j).phase = "completed" => Converged(j))
            BY <1>1 DEF AccountInv, JournalTracksDeclarations
        <3>2. CASE j = i
            BY <1>1, <3>2 DEF Allowed, PlanReviewed, Converged
        <3>3. CASE j # i
            BY <1>1, <3>1, <3>3 DEF Allowed, PlanReviewed, Converged
        <3> QED
            BY <3>2, <3>3
    <2> QED
        BY <1>1, <2>1, <2>2 DEF JournalTracksDeclarations
<1>4. RowsInv'
    BY <1>1 DEF AccountInv, UpgradeInv, RowsInv
<1>5. \A j \in Rows' : host[j] # Legacy
    BY <1>1 DEF AccountInv, OwnershipInv
<1> QED
    BY <1>2, <1>3, <1>4, <1>5, Shapes DEF UpgradeOutcome, At

\* One instance changes, and nothing of the journal.
LEMMA RowOutcome ==
    ASSUME AccountInv, acct.job = "upgrade", NEW i \in Rows, UNCHANGED upgrade,
           Row(i).phase \in {"updating", "applying"},
           NEW d \in Declaration, d = decl[i] \/ d = Want(i), Row(i).phase = "applying" => d = decl[i],
           decl' = [decl EXCEPT ![i] = d],
           NEW h \in Deployment \ {Legacy}, host' = [host EXCEPT ![i] = h],
           NEW e \in Declaration \cup {Earlier, None}, evidence' = [evidence EXCEPT ![i] = e],
           e = evidence[i] \/ Row(i).phase = "applying",
           acct' = NoJob \/ acct'.job = "upgrade", acct' \in AcctType,
           acct'.pc = "applying" => acct'.base \in Deployment \ {Legacy},
           RowsInv' => UpgradeInv'
    PROVE  UpgradeOutcome
<1>1. /\ upgrade # None /\ upgrade \in UpgradeJournal /\ Rows = Declared /\ Rows \subseteq Ids
      /\ decl \in [Ids -> Declaration \cup {None}] /\ host \in [Ids -> Deployment]
      /\ evidence \in [Ids -> Declaration \cup {Earlier, None}] /\ \A j \in Rows : host[j] # Legacy
    BY UpgradeAtWork
<1>2. Rows' = Rows /\ \A j : Row(j)' = Row(j) /\ Want(j)' = Want(j)
    BY DEF Rows, Row, Want, Candidate
<1>3. UpgradeAlone
    BY <1>1, UpgradeAloneAtWork
<1>4. /\ \A j \in Ids \ {i} : decl'[j] = decl[j] /\ host'[j] = host[j] /\ evidence'[j] = evidence[j]
      /\ decl'[i] = d /\ host'[i] = h /\ evidence'[i] = e
    BY <1>1
<1>5. decl[i] # None /\ d # None
    BY <1>1, Values DEF Declared
<1>6. \A j \in Ids : UpgradeEffect(j)
    BY <1>1, <1>4, <1>5 DEF UpgradeEffect
<1>7. JournalTracksDeclarations'
    <2>1. Rows' = Declared'
        BY <1>1, <1>2, <1>4, <1>5 DEF Declared
    <2>2. ASSUME NEW j \in Rows
          PROVE  /\ decl'[j] \in Allowed(j)' /\ PlanReviewed(j)'
                 /\ Row(j)'.phase = "completed" => Converged(j)'
        <3>1. decl[j] \in Allowed(j) /\ PlanReviewed(j) /\ (Row(j).phase = "completed" => Converged(j))
            BY <1>1 DEF AccountInv, JournalTracksDeclarations
        <3>2. Allowed(j)' = Allowed(j)
            BY <1>2 DEF Allowed
        <3>3. CASE j = i
            BY <1>1, <1>2, <1>4, <3>1, <3>2, <3>3 DEF Allowed, PlanReviewed
        <3>4. CASE j # i
            BY <1>1, <1>2, <1>4, <3>1, <3>2, <3>4 DEF PlanReviewed, Converged
        <3> QED
            BY <3>3, <3>4
    <2> QED
        BY <1>2, <2>1, <2>2 DEF JournalTracksDeclarations
<1>8. RowsInv'
    <2> SUFFICES ASSUME NEW j \in Rows
                 PROVE  /\ Row(j).phase \in {"applying", "completed"} => decl'[j] = Want(j)
                        /\ evidence'[j] = Want(j) => Row(j).phase \in {"applying", "completed"}
        BY <1>2 DEF RowsInv
    <2>1. /\ Row(j).phase \in {"applying", "completed"} => decl[j] = Want(j)
          /\ evidence[j] = Want(j) => Row(j).phase \in {"applying", "completed"}
        BY <1>1 DEF AccountInv, UpgradeInv
    <2> QED
        BY <1>1, <1>4, <2>1
<1>9. decl' \in [Ids -> Declaration \cup {None}] /\ host' \in [Ids -> Deployment]
      /\ evidence' \in [Ids -> Declaration \cup {Earlier, None}]
    BY <1>1
<1> QED
    BY <1>1, <1>2, <1>3, <1>6, <1>7, <1>8, <1>9 DEF UpgradeOutcome, At
LEMMA UpgradeWorks ==
    ASSUME AccountInv, UpgradeAdvances \/ ApplyFails, UpgradeFrame, ~Stopped
    PROVE  UpgradeOutcome
<1> DEFINE i == acct.id
<1>1. acct.job = "upgrade"
    BY DEF UpgradeAdvances, Validate, RowCommitted, RowReview, RowUpdate, RowMark, RowApply,
           RowApplied, RowComplete, UpgradeFinished, ApplyFails, At
<1>2. /\ upgrade # None
      /\ acct.pc \notin {"validate", "row"} => i \in Rows
      /\ decl \in [Ids -> Declaration \cup {None}] /\ host \in [Ids -> Deployment]
      /\ evidence \in [Ids -> Declaration \cup {Earlier, None}]
      /\ acct = [job |-> "upgrade", pc |-> acct.pc, id |-> i, base |-> acct.base]
      /\ acct.pc \in JobPc /\ i \in Ids \cup {None} /\ acct.base \in Deployment \cup {None}
      /\ Rows \subseteq Ids /\ Rows = Declared
      /\ \A j \in Rows : Row(j) \in UpgradeRow /\ Want(j) \in Declaration /\ host[j] # Legacy
    BY <1>1, UpgradeAtWork
<1>3. UpgradeInv /\ JournalTracksDeclarations
    BY DEF AccountInv
<1>4. ASSUME NEW pc \in JobPc, Goto(pc)
      PROVE  acct' = [job |-> "upgrade", pc |-> pc, id |-> i, base |-> acct.base] /\ acct' \in AcctType
    BY <1>2, <1>4 DEF Goto, AcctType, Job
<1>5. CASE Validate
    <2>1. Goto("row") /\ UNCHANGED <<decl, host, evidence, upgrade>>
        BY <1>5 DEF Validate, Stop, Stopped
    <2>2. acct' \in AcctType /\ acct'.job = "upgrade" /\ acct'.pc = "row"
        BY <1>4, <2>1 DEF JobPc
    <2>3. upgrade' = upgrade /\ upgrade \in UpgradeJournal
        BY <1>1, <2>1, UpgradeAtWork
    <2>4. UpgradeAlone
        BY <1>1, <1>2, <2>2, <2>3, UpgradeAloneAtWork
    <2> QED
        BY <1>2, <2>1, <2>2, <2>4, UpgradeSteady
<1>6. CASE RowCommitted
    <2> DEFINE k == Next1
    <2>1. /\ k \in Rows /\ Row(k).phase = "applying" /\ Converged(k) /\ InPhase(k, "completed")
          /\ UNCHANGED <<decl, host, evidence, acct>> /\ acct.pc = "row"
        BY <1>2, <1>6, RowIsOpen DEF RowCommitted, Stop, Stopped, At
    <2>2. decl[k] = Want(k)
        BY <1>2, <1>3, <2>1 DEF UpgradeInv
    <2>3. RowsInv' => UpgradeInv'
        BY <1>2, <2>1, PhaseIsSet, <1>1 DEF RowsInv, UpgradeInv
    <2> QED
        BY <1>1, <2>1, <2>2, <2>3, Shapes, PhaseOutcome
<1>7. CASE RowReview
    <2> DEFINE k == Next1
    <2>1. /\ k \in Rows /\ Row(k).phase # "completed" /\ InPhase(k, "updating")
          /\ ~(Row(k).phase = "applying" /\ Committed(k)) /\ decl[k] \in {Row(k).orig, Want(k)}
          /\ acct' = [acct EXCEPT !.pc = "update", !.id = k, !.base = decl[k]]
          /\ UNCHANGED <<decl, host, evidence>>
        BY <1>2, <1>7, RowIsOpen DEF RowReview, Stop, Stopped
    <2>2. evidence[k] # Want(k)
        BY <1>2, <1>3, <2>1 DEF UpgradeInv, Committed
    <2>3. /\ acct'.job = "upgrade" /\ acct'.pc = "update" /\ acct'.id = k /\ acct'.base = decl[k]
          /\ acct' \in AcctType
        <3>1. decl[k] \in Deployment \cup {None} /\ k \in Ids \cup {None} /\ "update" \in JobPc
            BY <1>2, <2>1 DEF Declared, Deployment, JobPc
        <3> QED
            BY <1>1, <2>1, <3>1, Shapes, JobIdBase
    <2>5. acct' \in AcctType
        BY <1>2, <2>1, <2>3 DEF AcctType, Job, JobPc, Deployment
    <2>4. RowsInv' => UpgradeInv'
        BY <1>1, <1>2, <2>1, <2>3, PhaseIsSet DEF RowsInv, UpgradeInv
    <2> QED
        BY <1>1, <2>1, <2>2, <2>3, <2>4, <2>5, PhaseOutcome
<1>8. CASE RowMark
    <2>1. /\ acct.pc = "mark" /\ i \in Rows /\ InPhase(i, "applying")
          /\ Goto(IF Want(i).life = "running" THEN "apply" ELSE "complete")
          /\ UNCHANGED <<decl, host, evidence>>
        BY <1>2, <1>8 DEF RowMark, At
    <2>2. decl[i] = Want(i) /\ Row(i).phase = "updating"
        BY <1>1, <1>3, <2>1 DEF UpgradeInv
    <2>3. evidence[i] # Want(i)
        BY <1>2, <1>3, <2>1, <2>2 DEF UpgradeInv
    <2>4. /\ acct'.job = "upgrade" /\ acct'.id = i /\ acct' \in AcctType
          /\ acct'.pc = IF Want(i).life = "running" THEN "apply" ELSE "complete"
        BY <1>4, <2>1 DEF JobPc
    <2>5. Want(i).life # "running" => Converged(i)'
        <3>1. Row(i)'.orig = Row(i).orig /\ Want(i).life = Row(i).orig.life
            BY <1>2, <2>1, <2>4, PhaseIsSet, UpgradeFacts
        <3> QED
            BY <3>1 DEF Converged
    <2>6. /\ Rows' = Rows /\ Row(i)'.phase = "applying" /\ Want(i)' = Want(i) /\ upgrade' # None
        BY <1>2, <2>1, <2>4, PhaseIsSet
    <2>7. RowsInv' => UpgradeInv'
        BY <2>1, <2>2, <2>3, <2>4, <2>5, <2>6 DEF RowsInv, UpgradeInv
    <2> QED
        BY <1>1, <2>1, <2>2, <2>4, <2>7, PhaseOutcome
<1>9. CASE RowComplete
    <2>1. /\ acct.pc = "complete" /\ i \in Rows /\ InPhase(i, "completed")
          /\ acct' = [acct EXCEPT !.pc = "row", !.id = None]
          /\ UNCHANGED <<decl, host, evidence>>
        BY <1>2, <1>9 DEF RowComplete, At
    <2>2. decl[i] = Want(i) /\ Converged(i)
        BY <1>1, <1>3, <2>1 DEF UpgradeInv
    <2>3. acct'.job = "upgrade" /\ acct'.pc = "row" /\ acct' \in AcctType
        BY <1>1, <2>1, Shapes, JobFields DEF JobPc
    <2>4. RowsInv' => UpgradeInv'
        BY <1>2, <2>1, <2>3, PhaseIsSet DEF RowsInv, UpgradeInv
    <2> QED
        BY <1>1, <2>1, <2>2, <2>3, <2>4, PhaseOutcome
<1>10. ASSUME i \in Rows
       PROVE  /\ i \in Ids /\ decl[i] \in Declaration /\ host[i] \in Deployment \ {Legacy}
              /\ evidence[i] \in Declaration \cup {Earlier, None}
              /\ decl = [decl EXCEPT ![i] = decl[i]] /\ host = [host EXCEPT ![i] = host[i]]
              /\ evidence = [evidence EXCEPT ![i] = evidence[i]]
    BY <1>2, <1>10 DEF Declared
<1>11. CASE RowUpdate
    <2>1. /\ acct.pc = "update" /\ i \in Rows /\ decl' = [decl EXCEPT ![i] = Want(i)]
          /\ acct' = [acct EXCEPT !.pc = "mark", !.base = None]
          /\ host' = host /\ evidence' = evidence /\ upgrade' = upgrade
        BY <1>2, <1>11 DEF RowUpdate, At, Stop, Stopped
    <2>2. Row(i).phase = "updating" /\ Want(i) \in Declaration
        BY <1>1, <1>2, <1>3, <2>1 DEF UpgradeInv
    <2>3. acct' \in AcctType /\ acct'.job = "upgrade" /\ acct'.pc = "mark" /\ acct'.id = i
        <3>1. "mark" \in JobPc /\ None \in Deployment \cup {None}
            BY DEF JobPc
        <3> QED
            BY <1>1, <2>1, <3>1, Shapes, JobBase
    <2>4. decl'[i] = Want(i) /\ upgrade # None /\ Rows' = Rows /\ Row(i)' = Row(i) /\ Want(i)' = Want(i)
        BY <1>2, <1>10, <2>1, <2>3 DEF Rows, Row, Want, Candidate
    <2>5. RowsInv' => UpgradeInv'
        BY <2>1, <2>2, <2>3, <2>4 DEF RowsInv, UpgradeInv
    <2> QED
        BY <1>1, <1>10, <2>1, <2>2, <2>3, <2>5, RowOutcome
<1>12. ASSUME acct.pc \in {"apply", "applying"}, UNCHANGED <<decl, upgrade>>
       PROVE  /\ i \in Rows /\ Row(i).phase = "applying" /\ decl[i] = Want(i)
              /\ evidence[i] # Want(i) /\ Want(i) \in Declaration
              /\ acct'.id = i => Rows' = Rows /\ Row(i)' = Row(i) /\ Want(i)' = Want(i)
              /\ decl' = [decl EXCEPT ![i] = decl[i]]
    BY <1>1, <1>2, <1>3, <1>10, <1>12 DEF UpgradeInv, Rows, Row, Want, Candidate
<1>13. CASE RowApply
    <2>1. /\ acct.pc = "apply" /\ host' = [host EXCEPT ![i] = Mixed]
          /\ acct' = [acct EXCEPT !.pc = "applying", !.base = host[i]]
          /\ decl' = decl /\ evidence' = evidence /\ upgrade' = upgrade
        BY <1>13 DEF RowApply, At
    <2>2. Mixed \in Deployment \ {Legacy}
        BY Values DEF Deployment
    <2>3. acct' \in AcctType /\ acct'.job = "upgrade" /\ acct'.pc = "applying" /\ acct'.id = i
          /\ acct'.base = host[i]
        <3>1. host[i] \in Deployment \cup {None} /\ "applying" \in JobPc
            BY <1>10, <1>12, <2>1 DEF JobPc
        <3> QED
            BY <1>1, <2>1, <3>1, Shapes, JobBase
    <2>4. RowsInv' => UpgradeInv'
        BY <1>2, <1>12, <2>1, <2>3 DEF RowsInv, UpgradeInv
    <2> QED
        BY <1>1, <1>10, <1>12, <2>1, <2>2, <2>3, <2>4, RowOutcome
<1>14. CASE RowApplied
    <2>1. /\ acct.pc = "applying" /\ host' = [host EXCEPT ![i] = Want(i)]
          /\ evidence' = [evidence EXCEPT ![i] = Want(i)]
          /\ acct' = [acct EXCEPT !.pc = "complete", !.base = None]
          /\ decl' = decl /\ upgrade' = upgrade
        BY <1>14 DEF RowApplied, At
    <2>2. Want(i) \in Deployment \ {Legacy}
        BY <1>12, <2>1, Values DEF Deployment
    <2>3. acct' \in AcctType /\ acct'.job = "upgrade" /\ acct'.pc = "complete" /\ acct'.id = i
        <3>1. "complete" \in JobPc /\ None \in Deployment \cup {None}
            BY DEF JobPc
        <3> QED
            BY <1>1, <2>1, <3>1, Shapes, JobBase
    <2>4. host'[i] = Want(i)
        BY <1>2, <1>10, <1>12, <2>1
    <2>5. RowsInv' => UpgradeInv'
        BY <1>2, <1>12, <2>1, <2>3, <2>4 DEF RowsInv, UpgradeInv, Converged
    <2> QED
        BY <1>1, <1>10, <1>12, <2>1, <2>2, <2>3, <2>5, RowOutcome
<1>15. CASE ApplyFails
    <2>1. /\ acct.pc = "applying" /\ host' = [host EXCEPT ![i] = acct.base]
          /\ evidence' = evidence \/ evidence' = [evidence EXCEPT ![i] = Want(i)]
          /\ acct' = NoJob /\ decl' = decl /\ upgrade' = upgrade
        BY <1>15 DEF ApplyFails, At, Release
    <2>2. acct.base \in Deployment \ {Legacy}
        BY <1>1, <2>1 DEF AccountInv, OwnershipInv, At
    <2>3. acct' \in AcctType /\ acct'.job = "none" /\ acct'.pc = "idle"
        BY <2>1, NoJobIsJob DEF NoJob
    <2>4. RowsInv' => UpgradeInv'
        BY <1>2, <2>1, <2>3 DEF RowsInv, UpgradeInv
    <2> QED
        BY <1>1, <1>10, <1>12, <2>1, <2>2, <2>3, <2>4, RowOutcome
<1>16. CASE UpgradeFinished
    <2>1. /\ Open = {} /\ \A j \in Ids : decl[j] = IF j \in Rows THEN Want(j) ELSE None
          /\ upgrade' = None /\ acct' = NoJob /\ decl' = decl /\ host' = host
          /\ evidence' = [j \in Ids |-> IF evidence[j] = None THEN None ELSE Earlier]
        BY <1>16 DEF UpgradeFinished, Stop, Stopped, Release
    <2>2. acct' \in AcctType /\ acct'.job = "none" /\ acct'.pc = "idle"
        BY <2>1, NoJobIsJob DEF NoJob
    <2>3. UpgradeAlone
        BY <1>1, <2>1, <2>2, UpgradeAloneAtWork
    <2>4. \A j \in Ids : UpgradeEffect(j)
        BY <1>2, <2>1 DEF UpgradeEffect
    <2>5. UpgradeInv' /\ JournalTracksDeclarations'
        BY <2>1, <2>2 DEF UpgradeInv, JournalTracksDeclarations
    <2> QED
        BY <1>2, <2>1, <2>2, <2>3, <2>4, <2>5 DEF UpgradeOutcome, At
<1> QED
    BY <1>5, <1>6, <1>7, <1>8, <1>9, <1>11, <1>13, <1>14, <1>15, <1>16 DEF UpgradeAdvances
\* What an upgrade leaves true of everything else.
LEMMA UpgradeKeepsInv ==
    ASSUME AccountInv, UpgradeStep, UpgradeFrame
    PROVE  AccountInv'
<1> USE DEF UpgradeFrame, notUpgrade, maintVars, importVars
<1>1. CASE Stopped \/ UpgradeFails
    <2>1. Release /\ UNCHANGED <<regVars, journals, current, root, maintVars, importVars>>
        BY <1>1 DEF Stopped, UpgradeFails, Stop, regVars, journals
    <2> QED
        BY <2>1, ReleaseKeepsInv
<1>2. CASE UpgradeOutcome
    <2> USE <1>2
    <2>1. /\ maint = None /\ NoImports /\ root = "present" /\ \A c \in Clients : ~Inside(c)
          /\ acct.job \in {"none", "upgrade"} /\ acct' \in AcctType
          /\ upgrade' \in UpgradeJournal \cup {None}
          /\ acct' = NoJob \/ (acct'.job = "upgrade" /\ upgrade' # None)
        BY DEF UpgradeOutcome, UpgradeAlone
    <2>2. \A i \in Ids : UpgradeEffect(i)
        BY DEF UpgradeOutcome
    <2>3. TypeOK'
        <3>1. GatesTypeOK'
            BY <2>1, Shapes DEF UpgradeOutcome, AccountInv, TypeOK, GatesTypeOK
        <3>2. MaintTypeOK' /\ ImportTypeOK'
            BY DEF AccountInv, TypeOK, MaintTypeOK, ImportTypeOK
        <3> QED
            BY <2>1, <3>1, <3>2 DEF TypeOK, UpgradeTypeOK
    <2>4. acct'.job \in {"none", "upgrade"} /\ acct.job \notin {"import"}
          /\ \A i : ~Importing(i) /\ ~Importing(i)'
        BY <2>1 DEF NoJob, Importing
    <2>5. JobInv' /\ JournalInv' /\ ImportInv'
        <3>1. JobInv'
            BY <2>1, <2>4 DEF JobInv, NoJob
        <3>2. JournalInv'
            BY <2>1 DEF AccountInv, JournalInv, NoImports, Slots
        <3> QED
            BY <2>4, <3>1, <3>2 DEF ImportInv
    <2>6. ClientInv'
        BY <2>1 DEF AccountInv, ClientInv, OneClientInv, Inside
    <2>7. InstallInv'
        BY <2>1, <2>4 DEF AccountInv, InstallInv, Installed, Gone
    <2>8. OwnershipInv'
        <3>1. \A i \in Ids : host'[i] = Legacy <=> host[i] = Legacy
            BY <2>2 DEF UpgradeEffect
        <3>2. \A i \in LegacyIds : decl[i] # None => decl'[i] # None
            BY <2>2, Values, Shapes DEF UpgradeEffect
        <3>3. upgrade' # None => \A i \in Rows' : host'[i] # Legacy
            <4>1. upgrade' # None => Rows' \subseteq Ids /\ \A i \in Rows' : host[i] # Legacy
                BY DEF UpgradeOutcome, JournalTracksDeclarations, Declared
            <4> QED
                BY <3>1, <4>1
        <3> QED
            BY <2>1, <3>1, <3>2, <3>3
               DEF AccountInv, OwnershipInv, OriginalsKept, UpgradeOutcome
    <2>9. OwnershipSettled'
        <3>1. ASSUME NEW i \in LegacyIds, host[i] = Legacy, evidence[i] = None
              PROVE  host'[i] = Legacy /\ evidence'[i] = None
            BY <2>2, <3>1, Shapes DEF UpgradeEffect
        <3>2. \A i \in LegacyIds : decl[i] # None => decl'[i] # None
            BY <2>2, Values, Shapes DEF UpgradeEffect
        <3> QED
            BY <2>4, <3>1, <3>2 DEF AccountInv, OwnershipSettled, SettledOwnership, ToolkitNeeded
    <2> QED
        BY <2>3, <2>5, <2>6, <2>7, <2>8, <2>9 DEF AccountInv, UpgradeOutcome
<1> QED
    BY <1>1, <1>2, UpgradeStartsOutcome, UpgradeWorks DEF UpgradeStep
(***************************************************************************)
(* Maintenance of the distribution.                                        *)
(***************************************************************************)
MaintJobs == {"none", "rollback", "restore", "uninstall"}

MaintAlone ==
    /\ upgrade = None /\ NoImports
    /\ acct.job \in MaintJobs /\ acct' \in AcctType /\ acct'.job \in MaintJobs

\* What maintenance changes of an instance.
MaintEffect(i) ==
    /\ decl'[i] = decl[i] \/ (decl[i] # None /\ decl'[i] \in Declaration)
    /\ host'[i] = host[i] \/ (host[i] # Legacy /\ host'[i] = Clean)
    /\ evidence'[i] = evidence[i] \/ (host[i] # Legacy /\ evidence'[i] = Earlier)

LEMMA MaintFacts ==
    ASSUME AccountInv, maint # None
    PROVE  /\ maint \in MaintJournal /\ maint.done \subseteq DOMAIN maint.snap
           /\ DOMAIN maint.snap \subseteq Ids
           /\ upgrade = None /\ NoImports
           /\ maint = [op |-> maint.op, phase |-> maint.phase, previous |-> maint.previous,
                       target |-> maint.target, snap |-> maint.snap, done |-> maint.done]
<1>1. maint \in MaintJournal /\ maint.done \subseteq DOMAIN maint.snap
    BY DEF AccountInv, TypeOK, MaintTypeOK
<1>2. DOMAIN maint.snap \subseteq Ids
    BY <1>1 DEF MaintJournal
<1> QED
    BY <1>1, <1>2 DEF AccountInv, JournalInv, MaintJournal

LEMMA NoJournalsPending ==
    ASSUME NoJournals
    PROVE  maint = None /\ upgrade = None /\ NoImports
BY DEF NoJournals, NoImports, Slots, ToolkitRetirement

LEMMA NextIsToRemove ==
    ASSUME AccountInv, maint # None, ToRemove # {}
    PROVE  NextRemoved \in DOMAIN maint.snap /\ NextRemoved \in Ids
<1>1. ToRemove \in SUBSET Nat
    BY MaintFacts, RegistryAssumption DEF ToRemove
<1>2. NextRemoved \in ToRemove
    BY <1>1, LeastExists DEF NextRemoved
<1> QED
    BY <1>2, MaintFacts DEF ToRemove

LEMMA QuiescentMeansNoneInside ==
    ASSUME AccountInv, Quiescent
    PROVE  \A c \in Clients : ~Inside(c)
<1>1. \A c \in Clients : client[c].pc = "applying" => client[c].id \in Declared
    BY DEF AccountInv, ClientInv, OneClientInv, Declared
<1> QED
    BY <1>1 DEF Quiescent, Inside

\* An uninstall works on what its journal reviewed.
LEMMA UninstallAtWork ==
    ASSUME AccountInv, acct.job = "uninstall"
    PROVE  /\ maint # None /\ maint.op = "uninstall"
           /\ acct.pc \in {"remove-apply", "remove-save"} => acct.id \in DOMAIN maint.snap
           /\ \A i \in DOMAIN maint.snap : i \in Ids /\ host[i] # Legacy /\ decl[i] \in Declaration
<1>1. maint # None /\ maint.op = "uninstall"
    BY DEF AccountInv, JobInv
<1>2. acct.pc \in {"remove-apply", "remove-save"} => acct.id \in DOMAIN maint.snap
    BY DEF AccountInv, InstallInv
<1>3. \A i \in DOMAIN maint.snap : i \in Ids /\ host[i] # Legacy /\ decl[i] # None
    BY <1>1, MaintFacts DEF AccountInv, OwnershipInv
<1> QED
    BY <1>1, <1>2, <1>3, Shapes

\* A new job is a job.
LEMMA MaintJobTypes ==
    ASSUME acct \in AcctType,
           \/ \E pc \in JobPc : Goto(pc) /\ acct.job \in MaintJobs
           \/ \E pc \in JobPc, job \in MaintJobs : acct' = [NoJob EXCEPT !.job = job, !.pc = pc]
           \/ \E pc \in JobPc, id \in Ids \cup {None} :
                acct' = [acct EXCEPT !.pc = pc, !.id = id] /\ acct.job \in MaintJobs
           \/ Release
    PROVE  acct' \in AcctType /\ acct'.job \in MaintJobs
<1>1. CASE \E pc \in JobPc : Goto(pc) /\ acct.job \in MaintJobs
    BY <1>1, JobFields
<1>2. ASSUME NEW pc \in JobPc, NEW job \in MaintJobs, acct' = [NoJob EXCEPT !.job = job, !.pc = pc]
      PROVE  acct' \in AcctType /\ acct'.job \in MaintJobs
    <2>1. acct' = [job |-> job, pc |-> pc, id |-> None, base |-> None]
        BY <1>2 DEF NoJob
    <2> QED
        BY <2>1 DEF AcctType, MaintJobs, Job
<1>3. CASE \E pc \in JobPc, id \in Ids \cup {None} :
                acct' = [acct EXCEPT !.pc = pc, !.id = id] /\ acct.job \in MaintJobs
    BY <1>3, JobFields
<1>4. CASE Release
    BY <1>4, NoJobIsJob DEF Release, NoJob, MaintJobs
<1> QED
    BY <1>1, <1>2, <1>3, <1>4

LEMMA MaintIsAlone ==
    ASSUME AccountInv, MaintStep
    PROVE  MaintAlone
<1>1. acct \in AcctType /\ (acct.job \in MaintJobs \ {"none"} => maint # None)
    BY Shapes DEF AccountInv, JobInv, MaintJobs
<1>2. maint # None => upgrade = None /\ NoImports
    BY MaintFacts
<1>3. CASE \E r \in Releases : RollbackApply(r)
    BY <1>1, <1>3, NoJournalsPending, MaintJobTypes
       DEF RollbackApply, Previewed, StandaloneSettled, LockFree, StartJob, MaintAlone, NoJob, MaintJobs, JobPc
<1>4. CASE \E r \in Releases : Install(r)
    BY <1>1, <1>4, NoJournalsPending DEF Install, LockFree, MaintAlone, NoJob, MaintJobs
<1>5. CASE UninstallApply
    BY <1>1, <1>5, NoJournalsPending, MaintJobTypes
       DEF UninstallApply, Previewed, StandaloneSettled, LockFree, StartJob, MaintAlone, NoJob, MaintJobs, JobPc
<1>6. CASE MaintRecover
    <2>1. RecoveryAt \in JobPc
        BY DEF RecoveryAt, CleanupAt, JobPc
    <2> QED
        BY <1>1, <1>2, <1>6, <2>1, MaintJobTypes DEF MaintRecover, LockFree, MaintAlone, NoJob, MaintJobs
<1>7. CASE MaintFails
    BY <1>1, <1>2, <1>7, MaintJobTypes DEF MaintFails, MaintAlone, MaintJobs
<1>8. CASE MaintAdvances
    <2>1. acct.job \in MaintJobs \ {"none"}
        BY <1>8
           DEF MaintAdvances, Switch, WriteReceipt, ClearJournal, Backup, RemoveUpdate, RemoveApply,
               RemoveSave, Ready, Rename, RemoveEntrypoints, RemoveReceipt, RemoveTree, At, MaintJobs
    <2>2. acct' \in AcctType /\ acct'.job \in MaintJobs
        <3>1. CASE RemoveUpdate
            BY <1>1, <2>1, <3>1, NextIsToRemove, MaintJobTypes DEF RemoveUpdate, JobPc
        <3>2. CASE RemoveSave
            BY <1>1, <2>1, <3>2, MaintJobTypes DEF RemoveSave, JobPc
        <3>3. CASE \E pc \in JobPc : Goto(pc)
            BY <1>1, <2>1, <3>3, MaintJobTypes
        <3>4. CASE Release
            BY <1>1, <3>4, MaintJobTypes
        <3> QED
            BY <1>8, <3>1, <3>2, <3>3, <3>4
               DEF MaintAdvances, Switch, WriteReceipt, ClearJournal, Backup, RemoveApply,
                   Ready, Rename, RemoveEntrypoints, RemoveReceipt, RemoveTree, JobPc
    <2> QED
        BY <1>1, <1>2, <2>1, <2>2 DEF MaintAlone
<1> QED
    BY <1>3, <1>4, <1>5, <1>6, <1>7, <1>8 DEF MaintStep
LEMMA MaintHasEffect ==
    ASSUME AccountInv, MaintStep, NEW i \in Ids
    PROVE  MaintEffect(i)
<1>1. /\ decl \in [Ids -> Declaration \cup {None}] /\ host \in [Ids -> Deployment]
      /\ evidence \in [Ids -> Declaration \cup {Earlier, None}]
    BY Shapes
<1>2. CASE RemoveUpdate
    <2> DEFINE k == NextRemoved
    <2>1. k \in Ids /\ decl[k] \in Declaration
        BY <1>2, NextIsToRemove, UninstallAtWork DEF RemoveUpdate, At
    <2>2. decl' = [decl EXCEPT ![k] = [@ EXCEPT !.life = "absent"]] /\ UNCHANGED <<host, evidence>>
        BY <1>2 DEF RemoveUpdate, notMaint
    <2>3. [decl[k] EXCEPT !.life = "absent"] \in Declaration
        BY <2>1 DEF Declaration, Life
    <2> QED
        BY <1>1, <2>1, <2>2, <2>3, Values DEF MaintEffect
<1>3. CASE RemoveApply
    <2>1. acct.id \in Ids /\ host[acct.id] # Legacy
        BY <1>3, UninstallAtWork DEF RemoveApply, At
    <2> QED
        BY <1>1, <1>3, <2>1 DEF RemoveApply, MaintEffect
<1>4. CASE UNCHANGED <<decl, host, evidence>>
    BY <1>4 DEF MaintEffect
<1> QED
    BY <1>2, <1>3, <1>4
       DEF MaintStep, RollbackApply, Install, UninstallApply, MaintRecover, MaintFails,
           MaintAdvances, Switch, WriteReceipt, ClearJournal, Backup,
           RemoveSave, Ready, Rename, RemoveEntrypoints, RemoveReceipt, RemoveTree, notMaint

LEMMA MaintRegistryTypes ==
    ASSUME AccountInv, MaintStep
    PROVE  /\ decl' \in [Ids -> Declaration \cup {None}] /\ host' \in [Ids -> Deployment]
           /\ evidence' \in [Ids -> Declaration \cup {Earlier, None}]
           /\ UNCHANGED <<client, upgrade, imports>>
<1>1. /\ decl \in [Ids -> Declaration \cup {None}] /\ host \in [Ids -> Deployment]
      /\ evidence \in [Ids -> Declaration \cup {Earlier, None}]
    BY Shapes
<1>2. CASE RemoveUpdate
    <2> DEFINE k == NextRemoved
    <2>1. k \in Ids /\ decl[k] \in Declaration
        BY <1>2, NextIsToRemove, UninstallAtWork DEF RemoveUpdate, At
    <2>2. decl' = [decl EXCEPT ![k] = [@ EXCEPT !.life = "absent"]]
          /\ UNCHANGED <<host, evidence, client, upgrade, imports>>
        BY <1>2 DEF RemoveUpdate, notMaint
    <2>3. [decl[k] EXCEPT !.life = "absent"] \in Declaration
        BY <2>1 DEF Declaration, Life
    <2> QED
        BY <1>1, <2>1, <2>2, <2>3
<1>3. CASE RemoveApply
    BY <1>1, <1>3 DEF RemoveApply, Deployment
<1>4. CASE UNCHANGED <<decl, host, evidence, client, upgrade, imports>>
    BY <1>1, <1>4
<1> QED
    BY <1>2, <1>3, <1>4
       DEF MaintStep, RollbackApply, Install, UninstallApply, MaintRecover, MaintFails,
           MaintAdvances, Switch, WriteReceipt, ClearJournal, Backup,
           RemoveSave, Ready, Rename, RemoveEntrypoints, RemoveReceipt, RemoveTree, notMaint

\* The journal: written when nothing is pending, and only its progress after.
MaintJournalStep ==
    \/ UNCHANGED maint
    \/ /\ UninstallApply \/ \E r \in Releases : RollbackApply(r)
       /\ maint = None /\ NoJournals /\ root = "present"
       /\ maint' \in MaintJournal /\ maint'.done = {} /\ DOMAIN maint'.snap = Declared
       /\ maint'.op = "rollback" => maint'.target \in Releases
    \/ ClearJournal /\ maint # None /\ maint' = None
    \/ /\ maint # None
       /\ maint' \in MaintJournal /\ maint'.done \subseteq DOMAIN maint'.snap
       /\ maint'.op = maint.op /\ maint'.target = maint.target /\ maint'.snap = maint.snap

LEMMA NewJournals ==
    ASSUME AccountInv, UninstallApply \/ \E r \in Releases : RollbackApply(r)
    PROVE  /\ maint = None /\ NoJournals /\ root = "present"
           /\ maint' \in MaintJournal /\ maint'.done = {} /\ DOMAIN maint'.snap = Declared
           /\ maint'.op = "rollback" => maint'.target \in Releases
           /\ maint' # None /\ maint'.op = IF UninstallApply THEN "uninstall" ELSE "rollback"
<1>1. Snapshot \in [Declared -> Declaration] /\ Declared \in SUBSET Ids
    BY Shapes DEF Snapshot, Declared
<1>2. CASE UninstallApply
    <2>1. maint' = [op |-> "uninstall", phase |-> "prepared", previous |-> current,
                    target |-> None, snap |-> Snapshot, done |-> {}]
          /\ NoJournals /\ root = "present"
        BY <1>2 DEF UninstallApply, Save, Previewed, StandaloneSettled
    <2>2. maint' \in MaintJournal
        BY <1>1, <2>1, Shapes DEF MaintJournal
    <2> QED
        BY <1>1, <1>2, <2>1, <2>2, NoJournalsPending, MaintAssumption
<1>3. CASE ~UninstallApply
    <2>1. PICK r \in Releases : RollbackApply(r)
        BY <1>3
    <2>2. maint' = [op |-> "rollback", phase |-> "prepared", previous |-> current,
                    target |-> r, snap |-> Snapshot, done |-> {}]
          /\ NoJournals /\ root = "present"
        BY <2>1 DEF RollbackApply, Save, Previewed, StandaloneSettled
    <2>3. maint' \in MaintJournal
        BY <1>1, <2>2, Shapes DEF MaintJournal
    <2> QED
        BY <1>1, <1>3, <2>2, <2>3, NoJournalsPending, MaintAssumption
<1> QED
    BY <1>2, <1>3

LEMMA MaintJournals ==
    ASSUME AccountInv, MaintStep
    PROVE  MaintJournalStep
<1>1. CASE UninstallApply \/ \E r \in Releases : RollbackApply(r)
    BY <1>1, NewJournals DEF MaintJournalStep
<1>2. CASE ClearJournal
    <2>1. maint # None
        BY <1>2 DEF ClearJournal, AccountInv, JobInv
    <2> QED
        BY <1>2, <2>1 DEF ClearJournal, Save, MaintJournalStep
<1>3. CASE RemoveSave
    <2>1. /\ maint # None /\ maint \in MaintJournal /\ maint.done \subseteq DOMAIN maint.snap
          /\ acct.id \in DOMAIN maint.snap /\ DOMAIN maint.snap \subseteq Ids
        BY <1>3, UninstallAtWork, MaintFacts DEF RemoveSave, At
    <2>2. maint' = [maint EXCEPT !.done = @ \cup {acct.id}, !.phase = "removing-instances"]
        BY <1>3 DEF RemoveSave, Save
    <2>3. /\ maint'.op = maint.op /\ maint'.target = maint.target /\ maint'.snap = maint.snap
          /\ maint'.previous = maint.previous /\ maint'.done = maint.done \cup {acct.id}
        BY <2>1, <2>2 DEF MaintJournal
    <2>4. maint' \in MaintJournal
        BY <2>1, <2>2 DEF MaintJournal
    <2> QED
        BY <2>1, <2>3, <2>4 DEF MaintJournalStep
<1>4. CASE Ready /\ ~UNCHANGED maint
    <2>1. maint # None /\ maint \in MaintJournal /\ maint.done \subseteq DOMAIN maint.snap
        BY <1>4, UninstallAtWork, MaintFacts DEF Ready, At
    <2>2. maint' = [maint EXCEPT !.phase = "ready-to-quarantine"]
        BY <1>4 DEF Ready, Save
    <2>3. /\ maint'.op = maint.op /\ maint'.target = maint.target /\ maint'.snap = maint.snap
          /\ maint'.previous = maint.previous /\ maint'.done = maint.done
        BY <2>1, <2>2 DEF MaintJournal
    <2>4. maint' \in MaintJournal
        BY <2>1, <2>2 DEF MaintJournal
    <2> QED
        BY <2>1, <2>3, <2>4 DEF MaintJournalStep
<1>5. CASE UNCHANGED maint
    BY <1>5 DEF MaintJournalStep
<1> QED
    BY <1>1, <1>2, <1>3, <1>4, <1>5
       DEF MaintStep, Install, MaintRecover, MaintFails,
           MaintAdvances, Switch, WriteReceipt, Backup, RemoveUpdate, RemoveApply,
           Rename, RemoveEntrypoints, RemoveReceipt, RemoveTree
LEMMA MaintTypes ==
    ASSUME AccountInv, MaintStep, UNCHANGED importVars
    PROVE  TypeOK'
<1>1. /\ decl' \in [Ids -> Declaration \cup {None}] /\ host' \in [Ids -> Deployment]
      /\ evidence' \in [Ids -> Declaration \cup {Earlier, None}]
      /\ UNCHANGED <<client, upgrade, imports>> /\ acct' \in AcctType
    BY MaintRegistryTypes, MaintIsAlone DEF MaintAlone
<1>2. (maint \in MaintJournal \cup {None})' /\ (maint # None => maint.done \subseteq DOMAIN maint.snap)'
    BY MaintJournals DEF MaintJournalStep, AccountInv, TypeOK, MaintTypeOK
<1>3. /\ current \in Releases /\ root \in {"present", "quarantined", "gone"}
      /\ entry \in BOOLEAN /\ receipt \in Releases \cup {None} /\ client \in [Clients -> ClientType]
    BY DEF AccountInv, TypeOK, GatesTypeOK, MaintTypeOK
<1>4. (current \in Releases /\ root \in {"present", "quarantined", "gone"}
      /\ entry \in BOOLEAN /\ receipt \in Releases \cup {None})'
    <2>1. CASE Switch
        <3>1. maint # None /\ maint.op = "rollback"
            BY <2>1 DEF Switch, At, AccountInv, JobInv
        <3>2. maint.target \in Releases
            BY <3>1 DEF AccountInv, JournalInv
        <3> QED
            BY <1>3, <2>1, <3>2 DEF Switch, maintVars
    <2>2. CASE UNCHANGED programFiles
        BY <1>3, <2>2 DEF programFiles
    <2> QED
        BY <1>3, <2>1, <2>2
           DEF MaintStep, RollbackApply, Install, UninstallApply, MaintRecover, MaintFails,
               MaintAdvances, WriteReceipt, ClearJournal, Backup, RemoveUpdate, RemoveApply,
               RemoveSave, Ready, Rename, RemoveEntrypoints, RemoveReceipt, RemoveTree, maintVars
<1> QED
    BY <1>1, <1>2, <1>3, <1>4
       DEF AccountInv, TypeOK, GatesTypeOK, UpgradeTypeOK, MaintTypeOK, ImportTypeOK, importVars

\* The program goes and comes back in these steps only.
LEMMA RootSteps ==
    ASSUME AccountInv, MaintStep, UNCHANGED importVars
    PROVE  \/ UNCHANGED root
           \/ Rename \/ RemoveTree
           \/ root' = "present"
BY DEF MaintStep, RollbackApply, Install, UninstallApply, MaintRecover, MaintFails, programFiles,
       MaintAdvances, Switch, WriteReceipt, ClearJournal, Backup, RemoveUpdate, RemoveApply,
       RemoveSave, Ready, RemoveEntrypoints, RemoveReceipt

LEMMA MaintKeepsJournals ==
    ASSUME AccountInv, MaintStep, UNCHANGED importVars
    PROVE  JobInv' /\ JournalInv'
<1>1. UNCHANGED <<client, upgrade, imports>> /\ upgrade = None /\ NoImports
      /\ acct'.job \in MaintJobs /\ acct.job \in MaintJobs
    BY MaintRegistryTypes, MaintIsAlone DEF MaintAlone
<1>2. MaintJournalStep
    BY MaintJournals
<1>3. JobInv'
    <2>1. JobInv
        BY DEF AccountInv
    <2>2. CASE UninstallApply \/ \E r \in Releases : RollbackApply(r)
        <3>1. acct'.job = IF UninstallApply THEN "uninstall" ELSE "rollback"
            BY <2>2 DEF RollbackApply, UninstallApply, StartJob, NoJob
        <3> QED
            BY <2>2, <3>1, NewJournals DEF JobInv
    <2>3. CASE \E r \in Releases : Install(r)
        BY <1>1, <2>1, <2>3 DEF Install, JobInv, LockFree, NoJob
    <2>4. CASE MaintRecover
        <3>1. maint.op \in {"rollback", "uninstall"}
            BY <2>4, MaintFacts DEF MaintRecover, MaintJournal
        <3>2. /\ acct'.job = IF maint.op = "uninstall" THEN "uninstall" ELSE "restore"
              /\ maint' = maint /\ maint # None
            BY <2>4 DEF MaintRecover, NoJob
        <3> QED
            BY <3>1, <3>2 DEF JobInv
    <2>5. CASE Release
        BY <2>5 DEF Release, JobInv, NoJob
    <2>6. CASE MaintAdvances /\ ~Release
        <3>1. maint # None /\ maint' # None /\ maint'.op = maint.op
            BY <1>2, <2>1, <2>6, MaintAssumption
               DEF MaintAdvances, Switch, WriteReceipt, ClearJournal, Backup, RemoveUpdate, RemoveApply,
                   RemoveSave, Ready, Rename, RemoveEntrypoints, RemoveReceipt, RemoveTree, At,
                   JobInv, MaintJournalStep, Save
        <3>2. acct'.job = acct.job /\ acct.job # "none"
            BY <1>1, <2>6, Shapes
               DEF MaintAdvances, Switch, WriteReceipt, ClearJournal, Backup, RemoveUpdate, RemoveApply,
                   RemoveSave, Ready, Rename, RemoveEntrypoints, RemoveReceipt, RemoveTree, At, Goto,
                   AcctType
        <3> QED
            BY <1>1, <2>1, <3>1, <3>2 DEF JobInv, MaintJobs
    <2> QED
        BY <2>2, <2>3, <2>4, <2>5, <2>6 DEF MaintStep, MaintFails
<1>4. JournalInv'
    <2>1. (maint' # None /\ maint'.op = "rollback") => maint'.target \in Releases
        BY <1>2 DEF MaintJournalStep, AccountInv, JournalInv
    <2>2. root' # "present" => /\ acct'.job \in {"none", "uninstall"}
                               /\ maint' # None => maint'.op = "uninstall"
        <3>1. CASE root = "present" /\ root' # "present"
            <4>1. Rename \/ RemoveTree
                BY <3>1, RootSteps
            <4>2. maint # None /\ maint.op = "uninstall" /\ maint' = maint /\ acct.job = "uninstall"
                BY <4>1 DEF Rename, RemoveTree, At, AccountInv, JobInv
            <4>3. acct'.job = "uninstall"
                BY <4>1, <4>2, Shapes DEF Rename, RemoveTree, Goto, AcctType
            <4> QED
                BY <4>2, <4>3
        <3>2. CASE root # "present" /\ root' # "present"
            <4>1. acct.job \in {"none", "uninstall"} /\ (maint # None => maint.op = "uninstall")
                BY <3>2 DEF AccountInv, JournalInv
            <4>2. maint' # None => maint'.op = "uninstall"
                BY <1>2, <3>2, <4>1 DEF MaintJournalStep
            <4>3. JobInv'
                BY <1>3
            <4>4. acct'.job \in {"rollback", "restore"} => maint' # None /\ maint'.op = "rollback"
                BY <4>3 DEF JobInv
            <4> QED
                BY <1>1, <4>2, <4>4 DEF MaintJobs
        <3> QED
            BY <3>1, <3>2
    <2> QED
        BY <1>1, <2>1, <2>2 DEF AccountInv, JournalInv, NoImports
<1> QED
    BY <1>3, <1>4
LEMMA MaintKeepsClientInv ==
    ASSUME AccountInv, MaintStep, UNCHANGED importVars
    PROVE  ClientInv'
<1> SUFFICES ASSUME NEW c \in Clients PROVE OneClientInv(c)'
    BY DEF ClientInv
<1>1. UNCHANGED <<client, upgrade, imports>> /\ acct'.job \in MaintJobs
    BY MaintRegistryTypes, MaintIsAlone DEF MaintAlone
<1>2. OneClientInv(c)
    BY DEF AccountInv, ClientInv
<1>3. CASE ~Inside(c)
    BY <1>1, <1>2, <1>3 DEF OneClientInv, Inside
<1>4. CASE Inside(c)
    <2> DEFINE i == client[c].id
    <2>1. i \in Ids /\ ~Quiet /\ upgrade = None /\ imports[i] = None
        BY <1>2, <1>4 DEF OneClientInv, Inside
    <2>2. ~Importing(i)'
        BY <1>1 DEF Importing, MaintJobs
    <2>3. decl[i] # None => decl'[i] # None
        BY <2>1, MaintHasEffect, Values DEF MaintEffect
    <2>4. host[i] # Legacy => host'[i] # Legacy
        BY <2>1, MaintHasEffect, Values DEF MaintEffect
    <2>5. root # "present" \/ root' = "present"
        BY <2>1, RootSteps DEF Rename, RemoveTree, At, Quiet, QuietSteps, AccountInv, InstallInv,
                               AfterRename
    <2>6. ~Quiet'
        <3>1. ~Quiescent
            BY <1>4, QuiescentMeansNoneInside
        <3>2. CASE Release
            BY <3>2 DEF Release, NoJob, Quiet, QuietSteps
        <3>3. CASE MaintAdvances /\ ~Release
            BY <2>1, <3>1, <3>3, Shapes
               DEF MaintAdvances, Switch, WriteReceipt, ClearJournal, Backup, RemoveUpdate, RemoveApply,
                   RemoveSave, Ready, Rename, RemoveEntrypoints, RemoveReceipt, RemoveTree, At,
                   Goto, AcctType, Quiet, QuietSteps
        <3>4. CASE MaintRecover
            BY <3>4 DEF MaintRecover, NoJob, RecoveryAt, CleanupAt, Quiet, QuietSteps
        <3>5. CASE UninstallApply
            BY <3>5 DEF UninstallApply, StartJob, NoJob, Quiet, QuietSteps
        <3>6. CASE \E r \in Releases : Install(r)
            BY <2>1, <3>6 DEF Install, Quiet
        <3> QED
            BY <3>1, <3>2, <3>3, <3>4, <3>5, <3>6 DEF MaintStep, MaintFails, RollbackApply
    <2> QED
        BY <1>1, <1>2, <1>4, <2>1, <2>2, <2>3, <2>4, <2>5, <2>6 DEF OneClientInv, Inside
<1> QED
    BY <1>3, <1>4

LEMMA MaintKeepsOwnership ==
    ASSUME AccountInv, MaintStep, UNCHANGED importVars
    PROVE  /\ OwnershipInv' /\ ImportInv' /\ OwnershipSettled'
           /\ JournalTracksDeclarations' /\ UpgradeInv'
<1>1. UNCHANGED <<client, upgrade, imports>> /\ acct'.job \in MaintJobs /\ acct.job \in MaintJobs
      /\ upgrade = None /\ NoImports /\ UNCHANGED <<kept, saved, up, receipts, toolkit>>
    BY MaintRegistryTypes, MaintIsAlone DEF MaintAlone, importVars
<1>2. \A i \in Ids : MaintEffect(i)
    BY MaintHasEffect
<1>3. \A i \in Ids : host'[i] = Legacy <=> host[i] = Legacy
    BY <1>2, Values DEF MaintEffect
<1>4. \A i \in Ids : decl[i] # None => decl'[i] # None
    BY <1>2, Values DEF MaintEffect
<1>5. OwnershipInv'
    <2>1. (maint' # None /\ maint'.op = "uninstall") =>
              \A i \in DOMAIN maint'.snap : i \in Ids /\ host[i] # Legacy /\ decl[i] # None
        <3>1. CASE UninstallApply
            <4>1. DOMAIN maint'.snap = Declared /\ \A i \in Declared : host[i] # Legacy
                BY <3>1, NewJournals DEF UninstallApply, Declared
            <4> QED
                BY <4>1 DEF Declared
        <3>2. CASE \E r \in Releases : RollbackApply(r)
            <4>1. CASE UninstallApply
                BY <3>1, <4>1
            <4>2. CASE ~UninstallApply
                BY <3>2, <4>2, NewJournals
            <4> QED
                BY <4>1, <4>2
        <3>3. CASE maint # None /\ (maint' = maint \/ maint' = None
                      \/ (maint'.op = maint.op /\ maint'.snap = maint.snap))
            <4>1. maint.op = "uninstall" => \A i \in DOMAIN maint.snap : host[i] # Legacy /\ decl[i] # None
                BY <3>3 DEF AccountInv, OwnershipInv
            <4> QED
                BY <3>3, <4>1, MaintFacts
        <3>4. CASE maint = None /\ maint' = None
            BY <3>4
        <3>5. MaintJournalStep
            BY MaintJournals
        <3> QED
            BY <3>1, <3>2, <3>3, <3>4, <3>5 DEF MaintJournalStep
    <2> QED
        BY <1>1, <1>3, <1>4, <2>1, Shapes
           DEF AccountInv, OwnershipInv, OriginalsKept, At, MaintJobs
<1>6. ImportInv'
    BY <1>1 DEF ImportInv, MaintJobs
<1>7. OwnershipSettled'
    <2>1. \A i \in Ids : host[i] = Legacy => evidence'[i] = evidence[i]
        BY <1>2 DEF MaintEffect
    <2> QED
        BY <1>1, <1>3, <1>4, <2>1, Shapes
           DEF AccountInv, OwnershipSettled, SettledOwnership, ToolkitNeeded, Importing, MaintJobs
<1>8. JournalTracksDeclarations' /\ UpgradeInv'
    <2>1. \A i \in Ids : evidence'[i] \in {None, Earlier}
        BY <1>1, <1>2 DEF MaintEffect, AccountInv, UpgradeInv
    <2> QED
        BY <1>1, <2>1 DEF JournalTracksDeclarations, UpgradeInv, MaintJobs
<1> QED
    BY <1>5, <1>6, <1>7, <1>8
LEMMA MaintKeepsInstallation ==
    ASSUME AccountInv, MaintStep, UNCHANGED importVars
    PROVE  InstallInv'
<1>1. InstallInv /\ root \in {"present", "quarantined", "gone"} /\ acct \in AcctType
    BY Shapes DEF AccountInv, TypeOK, GatesTypeOK
<1>2. acct.job \in MaintJobs /\ acct'.job \in MaintJobs
      /\ (acct.job \in {"rollback", "restore"} => maint # None /\ maint.op = "rollback")
      /\ (acct.job = "uninstall" => maint # None /\ maint.op = "uninstall")
      /\ (maint # None => maint.op \in {"rollback", "uninstall"})
    BY MaintIsAlone, MaintFacts DEF MaintAlone, AccountInv, JobInv, MaintJournal
<1>3. root # "present" => \A i \in Ids : host'[i] \in {Clean, Legacy}
    BY MaintHasEffect DEF MaintEffect, AccountInv, InstallInv
<1>4. CASE UninstallApply \/ \E r \in Releases : RollbackApply(r)
    <2>1. /\ maint = None /\ root = "present" /\ maint' # None
          /\ maint'.op = IF UninstallApply THEN "uninstall" ELSE "rollback"
        BY <1>4, NewJournals
    <2>2. UNCHANGED programFiles
          /\ \/ acct'.job = "uninstall" /\ acct'.pc = "backup"
             \/ acct'.job = "rollback" /\ acct'.pc = "switch"
        BY <1>4 DEF UninstallApply, RollbackApply, StartJob, NoJob
    <2> QED
        BY <1>1, <2>1, <2>2 DEF InstallInv, Installed, Gone, programFiles, BeforeRename, AfterRename
<1>5. CASE \E r \in Releases : Install(r)
    BY <1>5, NoJournalsPending DEF Install, LockFree, NoJob, InstallInv, Installed
<1>6. CASE MaintFails \/ ((Backup \/ RemoveApply \/ Ready \/ RemoveEntrypoints) /\ Release)
    <2>1. acct'.job = "none" /\ acct'.pc = "idle"
        BY <1>6 DEF MaintFails, Release, NoJob
    <2>2. UNCHANGED <<maint, current, receipt, root, entry>>
        BY <1>1, <1>6, <2>1
           DEF MaintFails, Backup, RemoveApply, Ready, RemoveEntrypoints, Goto, AcctType, programFiles
    <2> QED
        BY <1>1, <1>3, <2>1, <2>2 DEF InstallInv, Installed, Gone
<1>7. CASE MaintRecover
    <2>1. /\ maint # None /\ UNCHANGED maint /\ UNCHANGED programFiles
          /\ acct'.job = IF maint.op = "uninstall" THEN "uninstall" ELSE "restore"
          /\ acct'.pc = RecoveryAt
        BY <1>7 DEF MaintRecover, NoJob
    <2> QED
        BY <1>1, <1>2, <1>3, <2>1
           DEF InstallInv, Installed, Gone, programFiles, RecoveryAt, CleanupAt, BeforeRename, AfterRename
<1>8. CASE Switch \/ WriteReceipt
    <2>1. /\ maint # None /\ UNCHANGED maint /\ maint.op = "rollback" /\ UNCHANGED <<root, entry>>
          /\ acct'.job \in {"rollback", "restore"} /\ acct'.pc \in {"receipt", "clear"}
          /\ acct'.pc = "clear" => receipt' = current'
        BY <1>1, <1>2, <1>8 DEF Switch, WriteReceipt, At, Goto, AcctType, maintVars
    <2> QED
        BY <1>1, <1>3, <2>1 DEF InstallInv
<1>9. CASE ClearJournal
    <2>1. maint' = None /\ UNCHANGED programFiles /\ acct'.job = "none" /\ acct'.pc = "idle" /\ acct.pc = "clear"
        BY <1>9 DEF ClearJournal, Save, Release, NoJob
    <2>2. Installed \/ Gone
        BY <1>1, <1>2, <1>9, <2>1 DEF ClearJournal, InstallInv, Installed, Gone
    <2> QED
        BY <1>3, <2>1, <2>2 DEF InstallInv, Installed, Gone, programFiles
<1>10. CASE RemoveUpdate \/ RemoveSave \/ ((Backup \/ RemoveApply \/ Ready) /\ ~Release)
    <2>1. /\ acct.job = "uninstall" /\ acct.pc \in BeforeRename \ {"rename"} /\ UNCHANGED programFiles
          /\ acct'.job = "uninstall" /\ acct'.pc \in BeforeRename
        BY <1>1, <1>10
           DEF RemoveUpdate, RemoveSave, Backup, RemoveApply, Ready, At, Goto, AcctType, BeforeRename
    <2>2. maint' # None /\ maint'.op = maint.op /\ maint'.snap = maint.snap
        BY <1>2, <2>1, MaintJournals, MaintAssumption DEF MaintJournalStep, ClearJournal, BeforeRename
    <2>3. acct'.pc \in {"remove-apply", "remove-save"} => acct'.id \in DOMAIN maint.snap
        BY <1>1, <1>10, <2>1, UninstallAtWork, NextIsToRemove
           DEF RemoveUpdate, RemoveSave, Backup, RemoveApply, Ready, At, Goto, AcctType
    <2>4. acct'.pc = "rename" => NothingRemains'
        <3>1. acct'.pc = "rename" => Ready /\ NothingRemains /\ UNCHANGED <<decl, host>>
            BY <1>1, <1>10, <2>1
               DEF RemoveUpdate, RemoveSave, Backup, RemoveApply, Ready, At, Goto, AcctType
        <3> QED
            BY <3>1 DEF NothingRemains, Declared
    <2> QED
        BY <1>1, <1>2, <2>1, <2>2, <2>3, <2>4 DEF InstallInv, programFiles, Installed, AfterRename, BeforeRename
<1>11. CASE Rename
    <2>1. /\ acct.job = "uninstall" /\ acct.pc = "rename" /\ root' = "quarantined"
          /\ acct'.job = "uninstall" /\ acct'.pc = "entrypoints"
          /\ UNCHANGED <<host, maint, current, entry, receipt>>
        BY <1>1, <1>11 DEF Rename, At, Goto, AcctType, maintVars
    <2>2. \A i \in Ids : host[i] \in {Clean, Legacy}
        BY <1>1, <2>1 DEF InstallInv, NothingRemains
    <2> QED
        BY <1>2, <2>1, <2>2 DEF InstallInv, AfterRename, BeforeRename
<1>12. CASE (RemoveEntrypoints /\ ~Release) \/ RemoveReceipt \/ RemoveTree
    <2>1. /\ acct.job = "uninstall" /\ acct'.job = "uninstall" /\ UNCHANGED <<host, maint, current>>
          /\ \/ /\ acct.pc = "entrypoints" /\ acct'.pc = "unreceipt" /\ entry' = FALSE
                /\ root # "present" /\ UNCHANGED <<root, receipt>>
             \/ acct.pc = "unreceipt" /\ acct'.pc = "rmtree" /\ receipt' = None /\ UNCHANGED <<root, entry>>
             \/ acct.pc = "rmtree" /\ acct'.pc = "clear" /\ root' = "gone" /\ UNCHANGED <<entry, receipt>>
        BY <1>1, <1>12 DEF RemoveEntrypoints, RemoveReceipt, RemoveTree, At, Goto, AcctType, maintVars
    <2> QED
        BY <1>1, <1>2, <2>1 DEF InstallInv, Installed, Gone, AfterRename, BeforeRename
<1> QED
    BY <1>4, <1>5, <1>6, <1>7, <1>8, <1>9, <1>10, <1>11, <1>12 DEF MaintStep, MaintAdvances
LEMMA MaintKeepsInv ==
    ASSUME AccountInv, MaintStep, UNCHANGED importVars
    PROVE  AccountInv'
BY MaintTypes, MaintKeepsJournals, MaintKeepsClientInv, MaintKeepsInstallation, MaintKeepsOwnership
   DEF AccountInv
(***************************************************************************)
(* Imports.                                                                *)
(***************************************************************************)
ImportJobs == {"none", "import", "retire"}
ImportFrame == UNCHANGED <<notImport, maintVars>>

\* A step of an import or a retirement that is under way.
ImportWorks == (ImportAdvances \/ ImportFails) /\ ~Release

LEMMA ImportFacts ==
    ASSUME AccountInv, acct.job = "import"
    PROVE  /\ maint = None /\ upgrade = None /\ root = "present"
           /\ acct.id \in LegacyIds /\ acct.id \in Ids /\ acct.id \in Slots /\ acct.id # ToolkitRetirement
           /\ imports[acct.id] = None <=> acct.pc \in {"mkdir", "record"}
           /\ imports[acct.id] # None =>
                imports[acct.id] \in ImportJournal /\ imports[acct.id].want \in Declaration
           /\ \A j \in Slots \ {acct.id} : imports[j] = None
           /\ \A c \in Clients : Inside(c) => client[c].id # acct.id
           /\ OriginalsKept
           /\ receipts[acct.id] = None <=> acct.pc \in UndoPc \cup BeforeReceipt
           /\ receipts[acct.id] # None => kept[acct.id] = {} /\ ~up[acct.id] /\ decl[acct.id] \in Declaration
           /\ host[acct.id] = Legacy <=> "unit" \in kept[acct.id]
<1>1. maint = None /\ upgrade = None /\ acct.id \in LegacyIds /\ root = "present"
    BY DEF AccountInv, JobInv, JournalInv
<1>2. acct.id \in Ids /\ acct.id \in Slots /\ acct.id # ToolkitRetirement
    BY <1>1, Shapes
<1>3. /\ imports[acct.id] = None <=> acct.pc \in {"mkdir", "record"}
      /\ \A j \in Slots \ {acct.id} : imports[j] = None
    BY DEF AccountInv, JobInv
<1>4. imports[acct.id] # None =>
          imports[acct.id] \in ImportJournal /\ imports[acct.id].want \in Declaration
    BY <1>2, Shapes DEF AccountInv, JournalInv
<1>5. \A c \in Clients : Inside(c) => client[c].id # acct.id
    BY DEF AccountInv, ClientInv, OneClientInv, Importing
<1>6. /\ OriginalsKept
      /\ receipts[acct.id] # None => kept[acct.id] = {} /\ ~up[acct.id] /\ decl[acct.id] # None
      /\ host[acct.id] = Legacy <=> "unit" \in kept[acct.id]
    BY <1>1, <1>2 DEF AccountInv, OwnershipInv
<1>7. receipts[acct.id] = None <=> acct.pc \in UndoPc \cup BeforeReceipt
    BY DEF AccountInv, ImportInv
<1> QED
    BY <1>1, <1>2, <1>3, <1>4, <1>5, <1>6, <1>7, Shapes

\* What a step of an import changes: its own instance.
ImportLocal ==
    /\ decl' \in [Ids -> Declaration \cup {None}] /\ host' \in [Ids -> Deployment]
    /\ evidence' \in [Ids -> Declaration \cup {Earlier, None}]
    /\ imports' \in [Slots -> ImportJournal \cup {None}]
    /\ kept' \in [Ids -> SUBSET Originals] /\ saved' \in [Ids -> SUBSET Originals]
    /\ dir' \in [Ids -> BOOLEAN] /\ up' \in [Ids -> BOOLEAN]
    /\ receipts' \in [Ids -> Declaration \cup {None}]
    /\ UNCHANGED program
    /\ \A i \in Ids \ {acct.id} :
         /\ decl'[i] = decl[i] /\ host'[i] = host[i] /\ evidence'[i] = evidence[i]
         /\ kept'[i] = kept[i] /\ saved'[i] = saved[i] /\ up'[i] = up[i]
         /\ receipts'[i] = receipts[i]
    /\ \A j \in Slots \ {acct.id} : imports'[j] = imports[j]

LEMMA ImportIsLocal ==
    ASSUME AccountInv, ImportAdvances \/ ImportFails, acct.job = "import"
    PROVE  ImportLocal
<1> DEFINE x == acct.id
<1>1. /\ decl \in [Ids -> Declaration \cup {None}] /\ host \in [Ids -> Deployment]
      /\ evidence \in [Ids -> Declaration \cup {Earlier, None}]
      /\ imports \in [Slots -> ImportJournal \cup {None}]
      /\ current \in Releases /\ acct \in AcctType
    BY Shapes
<1>2. /\ kept \in [Ids -> SUBSET Originals] /\ saved \in [Ids -> SUBSET Originals]
      /\ dir \in [Ids -> BOOLEAN] /\ up \in [Ids -> BOOLEAN]
      /\ receipts \in [Ids -> Declaration \cup {None}]
    BY DEF AccountInv, TypeOK, ImportTypeOK
<1>3. /\ x \in Ids /\ x \in Slots
      /\ imports[x] = None <=> acct.pc \in {"mkdir", "record"}
      /\ imports[x] # None => imports[x] \in ImportJournal /\ imports[x].want \in Declaration
    BY ImportFacts
<1>4. acct.pc \in {"apply", "applying", "receipt", "finish", "finishing"} => decl[x] \in Declaration
    <2>1. acct.pc \in {"apply", "applying", "receipt"} => decl[x] # None
        BY DEF AccountInv, ImportInv
    <2>2. acct.pc \in {"finish", "finishing"} => decl[x] \in Declaration
        BY ImportFacts DEF UndoPc, Undone, BeforeReceipt
    <2> QED
        BY <1>1, <1>3, <2>1, <2>2
<1>5. Clean \in Deployment /\ Mixed \in Deployment /\ Legacy \in Deployment /\ Declaration \subseteq Deployment
    BY DEF Deployment
<1>6. ASSUME NEW phase \in {"prepared", "applying", "committed", "restoring", "retiring"},
             imports[x] # None, Record(x, phase)
      PROVE  imports' \in [Slots -> ImportJournal \cup {None}] /\ \A j \in Slots \ {x} : imports'[j] = imports[j]
    BY <1>1, <1>3, <1>6 DEF Record, ImportJournal
<1> USE <1>1, <1>2, <1>3, <1>4, <1>5 DEF ImportLocal, At, program, importVars, registryOf, resources
<1>7. CASE UNCHANGED <<registryOf, imports, importVars>>
    BY <1>7
<1>8. CASE MakeBackup \/ StopLegacy \/ StartLegacy \/ RemoveBackup
    BY <1>8 DEF MakeBackup, StopLegacy, StartLegacy, RemoveBackup
<1>9. CASE RecordPrepared
    <2>1. [phase |-> "prepared", want |-> [rel |-> current, life |-> "running"]] \in ImportJournal
        BY DEF ImportJournal, Declaration, Life
    <2> QED
        BY <1>9, <2>1 DEF RecordPrepared
<1>10. CASE RecordApplying \/ RecordCommitted \/ RecordRestoring
    <2>1. PICK phase \in {"applying", "committed", "restoring"} :
              Record(x, phase) /\ acct.pc \in {"move", "commit", "undo-move"} /\ UNCHANGED <<registryOf, importVars>>
        BY <1>10 DEF RecordApplying, RecordCommitted, RecordRestoring
    <2> QED
        BY <1>6, <2>1
<1>11. CASE \E o \in Originals : MoveOriginal(o) \/ MoveBack(o)
    BY <1>11 DEF MoveOriginal, MoveBack
<1>12. CASE CreateImported
    BY <1>12 DEF CreateImported, Imported
<1>13. CASE ApplyCandidate
    BY <1>13 DEF ApplyCandidate
<1>14. CASE CandidateApplied
    BY <1>14 DEF CandidateApplied
<1>15. CASE WriteImportReceipt
    BY <1>15 DEF WriteImportReceipt
<1>16. CASE ClearImport
    BY <1>16 DEF ClearImport
<1>17. CASE RemoveGenerated
    BY <1>17 DEF RemoveGenerated
<1>18. CASE RemoveApplied \/ RemoveDeclaration
    BY <1>18 DEF RemoveApplied, RemoveDeclaration
<1> QED
    BY <1>7, <1>8, <1>9, <1>10, <1>11, <1>12, <1>13, <1>14, <1>15, <1>16, <1>17, <1>18
       DEF ImportAdvances, ImportFails, Undo, RetireIfReady, RetireLock, ArchiveToolkit, RemoveLinks,
           ClearRetirement
\* Where it goes next.
ImportMoves ==
    <<acct.pc, acct'.pc>> \in
        {<<"mkdir", "record">>, <<"record", "stop">>, <<"stop", "move">>, <<"move", "move">>,
         <<"move", "create">>, <<"create", "apply">>, <<"apply", "applying">>,
         <<"applying", "receipt">>, <<"receipt", "commit">>, <<"commit", "clear">>,
         <<"finish", "finishing">>, <<"finishing", "clear">>,
         <<"stop", "undo">>, <<"move", "undo">>, <<"create", "undo">>, <<"apply", "undo">>,
         <<"applying", "undo">>, <<"receipt", "undo">>, <<"undo", "undo-stop">>, <<"undo-stop", "undo-remove">>,
         <<"undo-remove", "undo-applied">>, <<"undo-applied", "undo-declaration">>,
         <<"undo-declaration", "undo-move">>, <<"undo-move", "undo-move">>,
         <<"undo-move", "undo-start">>, <<"undo-start", "undo-rmdir">>,
         <<"undo-rmdir", "undo-clear">>}

LEMMA ImportMovesOn ==
    ASSUME AccountInv, ImportAdvances \/ ImportFails, acct.job = "import", ~Release \/ ClearImport
    PROVE  /\ acct' \in AcctType
           /\ \/ acct'.job = "import" /\ acct'.id = acct.id /\ ImportMoves
              \/ ClearImport /\ acct.pc = "clear" /\ acct'.job = "retire" /\ acct'.pc = "retire"
              \/ ClearImport /\ acct.pc = "undo-clear" /\ acct' = NoJob /\ acct'.job = "none"
<1>1. acct \in AcctType /\ acct.id \in Ids
    BY Shapes, ImportFacts
<1>2. ASSUME NEW pc \in JobPc, Goto(pc)
      PROVE  acct' \in AcctType /\ acct'.job = "import" /\ acct'.id = acct.id /\ acct'.pc = pc
    BY <1>1, <1>2, JobFields
<1>3. CASE ImportFails /\ ~Release
    BY <1>2, <1>3 DEF ImportFails, ImportMoves, JobPc
<1>4. CASE \E o \in Originals : MoveOriginal(o) \/ MoveBack(o)
    BY <1>1, <1>4 DEF MoveOriginal, MoveBack, At, ImportMoves
<1>5. CASE ClearImport
    <2>1. \/ /\ acct.pc = "clear"
             /\ acct' = [job |-> "retire", pc |-> "retire", id |-> None, base |-> None]
          \/ acct.pc = "undo-clear" /\ acct' = NoJob
        BY <1>5 DEF ClearImport, NoJob, Release
    <2> QED
        BY <1>5, <2>1, NoJobIsJob DEF AcctType, Job, JobPc, NoJob
<1>6. CASE (MakeBackup \/ RecordPrepared \/ StopLegacy \/ RecordApplying) /\ ~Release
    BY <1>2, <1>6 DEF MakeBackup, RecordPrepared, StopLegacy, RecordApplying, At, ImportMoves, JobPc
<1>7. CASE CreateImported \/ ApplyCandidate \/ CandidateApplied \/ WriteImportReceipt \/ RecordCommitted
    BY <1>2, <1>7
       DEF CreateImported, ApplyCandidate, CandidateApplied, WriteImportReceipt, RecordCommitted,
           At, ImportMoves, JobPc
<1>8. CASE (Undo \/ RemoveGenerated \/ RemoveApplied \/ RemoveDeclaration) /\ ~Release
    BY <1>2, <1>8 DEF Undo, RemoveGenerated, RemoveApplied, RemoveDeclaration, At, ImportMoves, JobPc
<1>9. CASE RecordRestoring \/ StartLegacy \/ RemoveBackup
    BY <1>2, <1>9 DEF RecordRestoring, StartLegacy, RemoveBackup, At, ImportMoves, JobPc
<1> QED
    BY <1>3, <1>4, <1>5, <1>6, <1>7, <1>8, <1>9
       DEF ImportAdvances, RetireIfReady, RetireLock, ArchiveToolkit, RemoveLinks, ClearRetirement, At

\* What is known of the instance that is imported, before and after a step.
Settled(i) ==
    \/ kept[i] = Originals /\ up[i] /\ receipts[i] = None /\ host[i] = Legacy /\ evidence[i] = None
    \/ saved[i] = Originals /\ ~up[i] /\ receipts[i] # None /\ decl[i] # None

ImportSelf(x) ==
    /\ kept'[x] \cup saved'[x] = Originals /\ kept'[x] \cap saved'[x] = {}
    /\ host'[x] = Legacy <=> "unit" \in kept'[x]
    /\ receipts'[x] # None => kept'[x] = {} /\ ~up'[x] /\ decl'[x] # None
    /\ evidence'[x] \in {None, Earlier}
    /\ receipts[x] # None => receipts'[x] # None /\ ~up'[x]
    /\ imports'[x] # None => imports'[x].want \in Declaration
    /\ acct'.job = "import" => (imports'[x] = None <=> acct'.pc \in {"mkdir", "record"})
    /\ acct'.job # "import" => imports'[x] = None /\ Settled(x)'
    /\ ImportInv'

LEMMA ImportTreatsItself ==
    ASSUME AccountInv, ImportAdvances \/ ImportFails, acct.job = "import", ~Release \/ ClearImport,
           NEW x, x = acct.id
    PROVE  ImportSelf(x)
<1>1. /\ decl \in [Ids -> Declaration \cup {None}] /\ host \in [Ids -> Deployment]
      /\ evidence \in [Ids -> Declaration \cup {Earlier, None}]
      /\ imports \in [Slots -> ImportJournal \cup {None}] /\ current \in Releases
    BY Shapes
<1>2. /\ kept \in [Ids -> SUBSET Originals] /\ saved \in [Ids -> SUBSET Originals]
      /\ up \in [Ids -> BOOLEAN] /\ receipts \in [Ids -> Declaration \cup {None}]
    BY DEF AccountInv, TypeOK, ImportTypeOK
<1>3. /\ x \in Ids /\ x \in Slots /\ x \in LegacyIds
      /\ imports[x] = None <=> acct.pc \in {"mkdir", "record"}
      /\ imports[x] # None => imports[x] \in ImportJournal /\ imports[x].want \in Declaration
      /\ kept[x] \cup saved[x] = Originals /\ kept[x] \cap saved[x] = {}
      /\ receipts[x] = None <=> acct.pc \in UndoPc \cup BeforeReceipt
      /\ receipts[x] # None => kept[x] = {} /\ ~up[x] /\ decl[x] \in Declaration
      /\ host[x] = Legacy <=> "unit" \in kept[x]
    BY ImportFacts DEF OriginalsKept
<1>4. evidence[x] \in {None, Earlier}
    BY <1>3, ImportFacts DEF AccountInv, UpgradeInv
<1>5. /\ acct.pc \in UndoPc \cup BeforeReceipt \cup AfterReceipt
      /\ acct.pc \in {"mkdir", "record", "stop"} => kept[x] = Originals /\ up[x]
      /\ acct.pc \in {"mkdir", "record"} => evidence[x] = None
      /\ acct.pc \in {"move", "create", "apply", "applying", "receipt"} => ~up[x]
      /\ acct.pc \in {"create", "apply", "applying", "receipt"} => kept[x] = {}
      /\ acct.pc \in {"apply", "applying", "receipt"} => decl[x] # None
      /\ acct.pc \in {"undo-declaration", "undo-move"} \cup Undone => evidence[x] = None
      /\ acct.pc \in Undone => saved[x] = {}
      /\ acct.pc \in {"undo-rmdir", "undo-clear"} => up[x]
    BY DEF AccountInv, ImportInv
<1>6. /\ \/ acct'.job = "import" /\ acct'.id = x /\ ImportMoves
         \/ ClearImport /\ acct.pc = "clear" /\ acct'.job = "retire"
         \/ ClearImport /\ acct.pc = "undo-clear" /\ acct'.job = "none"
    BY ImportMovesOn
<1> USE <1>1, <1>2, <1>3, <1>4, <1>5, <1>6, Values
    DEF ImportSelf, ImportInv, ImportMoves, At, program, importVars, registryOf, resources,
        UndoPc, Undone, BeforeReceipt, AfterReceipt
<1>7. ASSUME NEW phase \in {"applying", "committed", "restoring"}, imports[x] # None, Record(x, phase)
       PROVE  imports'[x] # None /\ imports'[x].want \in Declaration
    <2>1. imports'[x] = [imports[x] EXCEPT !.phase = phase]
        BY ONLY <1>1, <1>3, <1>7 DEF Record
    <2>2. imports'[x] \in ImportJournal /\ imports'[x].want = imports[x].want
        BY ONLY <1>3, <1>7, <2>1 DEF ImportJournal
    <2> QED
        BY <1>7, <2>2, ImportJournalAssumption
<1>8. CASE ImportFails /\ ~Release
    <2>1. /\ UNCHANGED <<decl, host, evidence, imports, kept, saved, up, receipts>>
          /\ acct.pc \in {"stop", "move", "create", "apply", "applying", "receipt"} /\ acct'.pc = "undo"
          /\ acct'.job = "import" /\ acct'.id = x /\ receipts[x] = None
        <3>1. /\ Goto("undo") /\ receipts[x] = None
              /\ acct.pc \in {"stop", "move", "create", "apply", "applying", "receipt"}
            BY <1>8 DEF ImportFails
        <3>2. acct'.pc = "undo"
            BY <3>1, Shapes, JobFields DEF JobPc
        <3> QED
            BY <1>6, <1>8, <3>1, <3>2 DEF ImportFails, ClearImport, registryOf, importVars
    <2> QED
        BY <2>1
<1>9. CASE MakeBackup
    BY <1>9 DEF MakeBackup
<1>10. CASE RecordPrepared
    <2>1. imports'[x] = [phase |-> "prepared", want |-> [rel |-> current, life |-> "running"]]
          /\ UNCHANGED <<decl, host, evidence, kept, saved, up, receipts>>
          /\ acct.pc = "record" /\ acct'.pc = "stop" /\ acct'.job = "import" /\ acct'.id = x
        BY <1>10 DEF RecordPrepared, ClearImport, Goto
    <2>2. imports'[x].want \in Declaration /\ imports'[x] \in ImportJournal
        BY <2>1 DEF Declaration, Life, ImportJournal
    <2> QED
        BY <2>1, <2>2, ImportJournalAssumption
<1>11. CASE StopLegacy
    BY <1>11 DEF StopLegacy
<1>12. CASE RecordApplying
    <2>1. /\ Record(x, "applying") /\ UNCHANGED <<decl, host, evidence, kept, saved, up, receipts>>
          /\ acct.pc = "move" /\ acct'.pc = "create" /\ acct'.job = "import" /\ acct'.id = x /\ kept[x] = {}
        BY <1>12 DEF RecordApplying, ClearImport, Goto
    <2> QED
        BY <1>7, <2>1
<1>13. CASE CreateImported
    BY <1>13 DEF CreateImported, Imported
<1>14. CASE ApplyCandidate
    BY <1>14 DEF ApplyCandidate
<1>15. CASE CandidateApplied
    BY <1>15 DEF CandidateApplied
<1>16. CASE WriteImportReceipt
    <2>1. /\ receipts'[x] = decl[x] /\ UNCHANGED <<decl, host, evidence, imports, kept, saved, up>>
          /\ acct.pc = "receipt" /\ acct'.pc = "commit" /\ acct'.job = "import" /\ acct'.id = x
        BY <1>16 DEF WriteImportReceipt, ClearImport, Goto
    <2> QED
        BY <2>1
<1>17. CASE RecordCommitted
    <2>1. /\ Record(x, "committed") /\ UNCHANGED <<decl, host, evidence, kept, saved, up, receipts>>
          /\ acct.pc = "commit" /\ acct'.pc = "clear" /\ acct'.job = "import" /\ acct'.id = x
        BY <1>17 DEF RecordCommitted, ClearImport, Goto
    <2> QED
        BY <1>7, <2>1
<1>18. CASE ClearImport
    BY <1>18 DEF ClearImport, Settled, Originals
<1>19. CASE Undo \/ RemoveApplied \/ RemoveDeclaration
    BY <1>19 DEF Undo, RemoveApplied, RemoveDeclaration
<1>20. CASE RemoveGenerated
    BY <1>20 DEF RemoveGenerated, GeneratedGone
<1>21. CASE RecordRestoring
    <2>1. /\ Record(x, "restoring") /\ UNCHANGED <<decl, host, evidence, kept, saved, up, receipts>>
          /\ acct.pc = "undo-move" /\ acct'.pc = "undo-start" /\ acct'.job = "import" /\ acct'.id = x /\ saved[x] = {}
        BY <1>21 DEF RecordRestoring, ClearImport, Goto
    <2> QED
        BY <1>7, <2>1
<1>22. CASE StartLegacy \/ RemoveBackup
    BY <1>22 DEF StartLegacy, RemoveBackup
<1>23. CASE \E o \in Originals : MoveOriginal(o) \/ MoveBack(o)
    BY <1>23 DEF MoveOriginal, MoveBack
<1> QED
    BY <1>8, <1>9, <1>10, <1>11, <1>12, <1>13, <1>14, <1>15, <1>16, <1>17, <1>18, <1>19, <1>20,
       <1>21, <1>22, <1>23
       DEF ImportAdvances, RetireIfReady, RetireLock, ArchiveToolkit, RemoveLinks, ClearRetirement
\* A step of an import keeps everything.
LEMMA ImportWorksKeepsInv ==
    ASSUME AccountInv, ImportAdvances \/ ImportFails, ImportFrame, acct.job = "import",
           ~Release \/ ClearImport
    PROVE  AccountInv'
<1> PICK x : x = acct.id
    OBVIOUS
<1> USE DEF ImportFrame, notImport, maintVars
<1>1. /\ maint = None /\ upgrade = None /\ root = "present" /\ x \in LegacyIds /\ x \in Ids
      /\ x \in Slots /\ \A j \in Slots \ {x} : imports[j] = None
      /\ \A c \in Clients : Inside(c) => client[c].id # x
    BY ImportFacts
<1>2. ImportLocal
    BY ImportIsLocal
<1>3. /\ acct' \in AcctType
      /\ \/ acct'.job = "import" /\ acct'.id = x /\ acct'.pc \notin {"idle", "mkdir"}
         \/ acct'.job = "retire" /\ acct'.pc = "retire"
         \/ acct' = NoJob /\ acct'.job = "none"
    BY ImportMovesOn DEF ImportMoves
<1>4. ImportSelf(x)
    BY ImportTreatsItself
<1>5. \A j \in Slots \ {x} : imports'[j] = None
    BY <1>1, <1>2 DEF ImportLocal
<1>6. TypeOK'
    BY <1>2, <1>3
       DEF AccountInv, TypeOK, GatesTypeOK, UpgradeTypeOK, MaintTypeOK, ImportTypeOK, ImportLocal,
           program, Slots
<1>7. JobInv'
    BY <1>1, <1>3, <1>4, <1>5, Shapes DEF JobInv, ImportSelf
<1>8. JournalInv'
    BY <1>1, <1>4, <1>5, Shapes DEF JournalInv, ImportSelf
<1>9. ClientInv'
    <2> SUFFICES ASSUME NEW c \in Clients PROVE OneClientInv(c)'
        BY DEF ClientInv
    <2>1. OneClientInv(c)
        BY DEF AccountInv, ClientInv
    <2>2. CASE ~Inside(c)
        BY <2>1, <2>2 DEF OneClientInv, Inside
    <2>3. CASE Inside(c)
        <3> DEFINE i == client[c].id
        <3>1. i \in Ids \ {x} /\ i \in Slots \ {x}
            BY <1>1, <2>1, <2>3, Shapes DEF OneClientInv, Inside
        <3>2. decl'[i] = decl[i] /\ host'[i] = host[i] /\ imports'[i] = None
            BY <1>2, <1>5, <3>1 DEF ImportLocal
        <3>3. ~Quiet' /\ ~Importing(i)'
            BY <1>3, <3>1 DEF Quiet, QuietSteps, Importing
        <3> QED
            BY <1>1, <2>1, <2>3, <3>2, <3>3 DEF OneClientInv, Inside
    <2> QED
        BY <2>2, <2>3
<1>10. InstallInv'
    BY <1>1, <1>3 DEF AccountInv, InstallInv, Installed, Gone
<1>11. OwnershipInv'
    BY <1>1, <1>2, <1>3, <1>4, Shapes
       DEF AccountInv, OwnershipInv, OriginalsKept, ImportSelf, ImportLocal, At
<1>12. OwnershipSettled'
    <2>1. \A i \in LegacyIds \ {x} : i \in Ids /\ imports[i] = None /\ ~Importing(i)
        BY <1>1, Shapes DEF Importing
    <2>2. SettledOwnership'
        <3> SUFFICES ASSUME NEW i \in LegacyIds, imports'[i] = None, ~Importing(i)'
                     PROVE  Settled(i)'
            BY DEF SettledOwnership, Settled
        <3>1. CASE i = x
            BY <1>3, <1>4, <3>1 DEF ImportSelf, Importing
        <3>2. CASE i # x
            <4>1. Settled(i)
                BY <2>1, <3>2 DEF AccountInv, OwnershipSettled, SettledOwnership, Settled
            <4> QED
                BY <1>2, <2>1, <3>2, <4>1 DEF ImportLocal, Settled
        <3> QED
            BY <3>1, <3>2
    <2>3. ToolkitNeeded'
        <3> SUFFICES ASSUME toolkit = "archived", NEW i \in LegacyIds
                     PROVE  ~up'[i] /\ receipts'[i] # None
            BY <1>2 DEF ToolkitNeeded, ImportLocal, program
        <3>1. ~up[i] /\ receipts[i] # None
            BY DEF AccountInv, OwnershipSettled, ToolkitNeeded
        <3>2. CASE i = x
            BY <1>4, <3>1, <3>2 DEF ImportSelf
        <3>3. CASE i # x
            BY <1>2, <2>1, <3>1, <3>3 DEF ImportLocal
        <3> QED
            BY <3>2, <3>3
    <2> QED
        BY <2>2, <2>3 DEF OwnershipSettled
<1>13. JournalTracksDeclarations' /\ UpgradeInv'
    <2>1. \A i \in Ids : evidence'[i] \in {None, Earlier}
        BY <1>1, <1>2, <1>4 DEF AccountInv, UpgradeInv, ImportSelf, ImportLocal
    <2> QED
        BY <1>1, <1>3, <2>1 DEF JournalTracksDeclarations, UpgradeInv
<1> QED
    BY <1>4, <1>6, <1>7, <1>8, <1>9, <1>10, <1>11, <1>12, <1>13 DEF AccountInv, ImportSelf
LEMMA RetireKeepsInv ==
    ASSUME AccountInv, ImportAdvances, ImportFrame, acct.job = "retire",
           ~Release \/ ClearRetirement
    PROVE  AccountInv'
<1> USE DEF ImportFrame, notImport, maintVars
<1>1. /\ maint = None /\ upgrade = None /\ root = "present"
      /\ \A i \in Ids : imports[i] = None
      /\ imports[ToolkitRetirement] = None <=> acct.pc = "retire"
    BY DEF AccountInv, JobInv, JournalInv
<1>2. acct \in AcctType /\ imports \in [Slots -> ImportJournal \cup {None}]
      /\ ToolkitRetirement \in Slots /\ Slots = Ids \cup {ToolkitRetirement}
    BY Shapes DEF Slots
<1>3. \/ RetireIfReady \/ RetireLock \/ ArchiveToolkit \/ RemoveLinks \/ ClearRetirement
    BY DEF ImportAdvances, MakeBackup, RecordPrepared, StopLegacy, RecordApplying, MoveOriginal, MoveBack,
           CreateImported, ApplyCandidate, CandidateApplied, WriteImportReceipt, RecordCommitted,
           ClearImport, Undo, RemoveGenerated, RemoveApplied, RemoveDeclaration, RecordRestoring,
           StartLegacy, RemoveBackup, At
<1>4. UNCHANGED <<decl, host, evidence, kept, saved, dir, up, receipts>>
    BY <1>3 DEF RetireIfReady, RetireLock, ArchiveToolkit, RemoveLinks, ClearRetirement,
                registryOf, importVars, resources
<1>5. /\ \/ UNCHANGED imports
         \/ imports' = [imports EXCEPT ![ToolkitRetirement] = [phase |-> "retiring", want |-> None]]
         \/ imports' = [imports EXCEPT ![ToolkitRetirement] = None]
      /\ imports' \in [Slots -> ImportJournal \cup {None}]
    <2>1. [phase |-> "retiring", want |-> None] \in ImportJournal
        BY DEF ImportJournal
    <2> QED
        BY <1>2, <1>3, <2>1 DEF RetireIfReady, RetireLock, ArchiveToolkit, RemoveLinks, ClearRetirement
<1>6. \A i \in Ids : imports'[i] = None
    BY <1>1, <1>2, <1>5, Shapes
<1>7. ASSUME NEW pc \in JobPc, Goto(pc)
      PROVE  acct' \in AcctType /\ acct'.job = "retire" /\ acct'.pc = pc
    BY <1>2, <1>7, JobFields
<1>8. /\ acct' \in AcctType
      /\ \/ /\ acct'.job = "retire" /\ imports'[ToolkitRetirement] # None
            /\ acct'.pc \in {"retire-lock", "retire-move", "retire-links", "retire-clear"}
            /\ acct'.pc # "retire-lock" => Quiescent \/ Quiet
         \/ acct' = NoJob /\ acct'.job = "none" /\ acct'.pc = "idle"
    <2>1. CASE ClearRetirement
        BY <2>1, NoJobIsJob DEF ClearRetirement, Release, NoJob
    <2>2. CASE RetireIfReady /\ ~Release
        <3>1. [phase |-> "retiring", want |-> None] # None
            BY ImportJournalAssumption DEF ImportJournal
        <3> QED
            BY <1>2, <1>7, <2>2, <3>1 DEF RetireIfReady, JobPc
    <2>3. CASE (RetireLock \/ ArchiveToolkit \/ RemoveLinks) /\ ~Release
        <3>1. /\ imports' = imports
              /\ \/ acct.pc = "retire-lock" /\ Quiescent /\ Goto("retire-move")
                 \/ acct.pc = "retire-move" /\ Goto("retire-links")
                 \/ acct.pc = "retire-links" /\ Goto("retire-clear")
            BY <2>3 DEF RetireLock, ArchiveToolkit, RemoveLinks, At
        <3>2. Quiet <=> acct.pc \in {"retire-move", "retire-links", "retire-clear"}
            BY DEF Quiet, QuietSteps
        <3> QED
            BY <1>1, <1>7, <3>1, <3>2 DEF JobPc
    <2> QED
        BY <1>3, <2>1, <2>2, <2>3
<1>9. TypeOK'
    <2>1. (toolkit \in {"present", "archived"} /\ links \in BOOLEAN)'
        BY <1>3
           DEF AccountInv, TypeOK, ImportTypeOK, RetireIfReady, RetireLock, ArchiveToolkit,
               RemoveLinks, ClearRetirement, importVars
    <2>2. ImportTypeOK'
        BY <1>4, <1>5, <2>1 DEF AccountInv, TypeOK, ImportTypeOK, Slots
    <2>3. GatesTypeOK'
        BY <1>4, <1>8 DEF AccountInv, TypeOK, GatesTypeOK
    <2> QED
        BY <2>2, <2>3 DEF AccountInv, TypeOK, UpgradeTypeOK, MaintTypeOK
<1>10. JobInv' /\ JournalInv' /\ ImportInv'
    BY <1>1, <1>2, <1>6, <1>8 DEF JobInv, JournalInv, ImportInv
<1>11. ClientInv'
    <2> SUFFICES ASSUME NEW c \in Clients PROVE OneClientInv(c)'
        BY DEF ClientInv
    <2>1. OneClientInv(c)
        BY DEF AccountInv, ClientInv
    <2>2. CASE ~Inside(c)
        BY <1>4, <2>1, <2>2 DEF OneClientInv, Inside
    <2>3. CASE Inside(c)
        <3>1. ~Quiescent /\ ~Quiet
            BY <2>1, <2>3, QuiescentMeansNoneInside DEF OneClientInv
        <3>2. ~Quiet' /\ ~Importing(client[c].id)'
            BY <1>8, <3>1 DEF Quiet, QuietSteps, Importing
        <3> QED
            BY <1>1, <1>4, <1>6, <2>1, <2>3, <3>2 DEF OneClientInv, Inside
    <2> QED
        BY <2>2, <2>3
<1>12. InstallInv' /\ OwnershipInv'
    BY <1>1, <1>4, <1>8 DEF AccountInv, InstallInv, Installed, Gone, OwnershipInv, OriginalsKept, At
<1>13. OwnershipSettled'
    <2>1. \A i \in LegacyIds : i \in Ids /\ imports[i] = None /\ ~Importing(i)
        BY <1>1, Shapes DEF Importing
    <2>2. SettledOwnership'
        BY <1>4, <2>1 DEF AccountInv, OwnershipSettled, SettledOwnership
    <2>3. ToolkitNeeded'
        <3>1. CASE UNCHANGED toolkit
            BY <1>4, <3>1 DEF AccountInv, OwnershipSettled, ToolkitNeeded
        <3>2. CASE toolkit = "present" /\ LegacyLeft = {}
            <4>1. \A i \in LegacyIds : kept[i] = {}
                BY <3>2 DEF LegacyLeft
            <4>2. \A i \in LegacyIds : ~up[i] /\ receipts[i] # None
                BY <2>1, <4>1 DEF AccountInv, OwnershipSettled, SettledOwnership, Originals
            <4> QED
                BY <1>4, <4>2 DEF ToolkitNeeded
        <3> QED
            BY <1>3, <3>1, <3>2, <1>9
               DEF RetireIfReady, RetireLock, ArchiveToolkit, RemoveLinks, ClearRetirement, importVars,
                   AccountInv, TypeOK, ImportTypeOK
    <2> QED
        BY <2>2, <2>3 DEF OwnershipSettled
<1>14. JournalTracksDeclarations' /\ UpgradeInv'
    BY <1>1, <1>4, <1>8 DEF AccountInv, JournalTracksDeclarations, UpgradeInv
<1> QED
    BY <1>9, <1>10, <1>11, <1>12, <1>13, <1>14 DEF AccountInv
\* An import begins, or a pending one is taken up again.
LEMMA ImportStartsKeepsInv ==
    ASSUME AccountInv, ImportFrame,
           \/ \E i \in Ids : ImportApply(i)
           \/ \E i \in Ids \cup {ToolkitRetirement} : ImportRecover(i)
    PROVE  AccountInv'
<1> USE DEF ImportFrame, notImport, maintVars, registryOf, importVars
<1>1. /\ acct = NoJob /\ maint = None /\ upgrade = None /\ root = "present"
      /\ UNCHANGED <<decl, host, evidence, imports, kept, saved, dir, up, receipts, toolkit, links>>
    BY DEF ImportApply, ImportRecover, LockFree, NoJournals
<1>2. /\ ToolkitRetirement \notin Ids /\ Slots = Ids \cup {ToolkitRetirement} /\ LegacyIds \subseteq Ids
    BY Shapes DEF Slots
<1>3. \A i \in LegacyIds : imports[i] = None => Settled(i)
    BY <1>1 DEF AccountInv, OwnershipSettled, SettledOwnership, Settled, Importing, NoJob
<1>4. \/ \E i \in LegacyIds :
            /\ acct' = [job |-> "import", pc |-> "mkdir", id |-> i, base |-> None]
            /\ NoImports /\ kept[i] = Originals /\ up[i] /\ receipts[i] = None /\ evidence[i] = None
            /\ \A c \in Clients : Inside(c) => client[c].id # i
      \/ \E i \in LegacyIds :
            /\ acct' = [job |-> "import", pc |-> IF receipts[i] = None THEN "undo" ELSE "finish",
                        id |-> i, base |-> None]
            /\ imports[i] # None
            /\ \A c \in Clients : Inside(c) => client[c].id # i
      \/ /\ acct' = [job |-> "retire", pc |-> "retire-lock", id |-> None, base |-> None]
         /\ imports[ToolkitRetirement] # None
    <2>1. ASSUME NEW i \in Ids, ImportApply(i)
          PROVE  /\ i \in LegacyIds /\ NoImports
                 /\ acct' = [job |-> "import", pc |-> "mkdir", id |-> i, base |-> None]
                 /\ kept[i] = Originals /\ up[i] /\ receipts[i] = None /\ evidence[i] = None
                 /\ \A c \in Clients : Inside(c) => client[c].id # i
        <3>1. kept[i] = Originals /\ receipts[i] = None /\ evidence[i] = None /\ NoJournals
              /\ acct' = [job |-> "import", pc |-> "mkdir", id |-> i, base |-> None]
            BY <2>1 DEF ImportApply, NoJob
        <3>2. i \in LegacyIds
            BY <3>1 DEF AccountInv, OwnershipInv, Originals
        <3>3. NoImports
            BY <3>1, NoJournalsPending
        <3>4. up[i]
            BY <1>2, <1>3, <3>1, <3>2, <3>3 DEF NoImports, Settled
        <3> QED
            BY <2>1, <3>1, <3>2, <3>3, <3>4 DEF ImportApply, Inside
    <2>2. ASSUME NEW i \in Ids, ImportRecover(i)
          PROVE  /\ i \in LegacyIds /\ imports[i] # None
                 /\ acct' = [job |-> "import", pc |-> IF receipts[i] = None THEN "undo" ELSE "finish",
                             id |-> i, base |-> None]
                 /\ \A c \in Clients : Inside(c) => client[c].id # i
        <3>1. imports[i] # None
              /\ acct' = [job |-> "import", pc |-> IF receipts[i] = None THEN "undo" ELSE "finish",
                          id |-> i, base |-> None]
            BY <1>2, <2>2 DEF ImportRecover, NoJob
        <3> QED
            BY <3>1 DEF AccountInv, JournalInv, ClientInv, OneClientInv
    <2>3. ASSUME ImportRecover(ToolkitRetirement)
          PROVE  /\ acct' = [job |-> "retire", pc |-> "retire-lock", id |-> None, base |-> None]
                 /\ imports[ToolkitRetirement] # None
        BY <2>3 DEF ImportRecover, StartJob, NoJob
    <2> QED
        BY <2>1, <2>2, <2>3
<1>5. acct' \in AcctType /\ acct'.job \in {"import", "retire"} /\ ~Quiet'
    BY <1>2, <1>4 DEF AcctType, Job, JobPc, Quiet, QuietSteps
<1>6. TypeOK'
    BY <1>1, <1>5
       DEF AccountInv, TypeOK, GatesTypeOK, UpgradeTypeOK, MaintTypeOK, ImportTypeOK
<1>7. JobInv' /\ JournalInv'
    <2>1. JobInv'
        <3>1. \A j, k \in Slots : (imports[j] # None /\ imports[k] # None) => j = k
            BY DEF AccountInv, JournalInv
        <3> QED
            BY <1>1, <1>2, <1>4, <3>1 DEF JobInv, NoImports
    <2>2. JournalInv'
        BY <1>1 DEF AccountInv, JournalInv, NoImports
    <2> QED
        BY <2>1, <2>2
<1>8. ClientInv'
    <2> SUFFICES ASSUME NEW c \in Clients PROVE OneClientInv(c)'
        BY DEF ClientInv
    <2>1. OneClientInv(c)
        BY DEF AccountInv, ClientInv
    <2>2. Inside(c) => ~Importing(client[c].id)'
        BY <1>4 DEF Importing
    <2> QED
        BY <1>1, <1>5, <2>1, <2>2 DEF OneClientInv, Inside
<1>9. InstallInv' /\ OwnershipInv'
    BY <1>1, <1>5 DEF AccountInv, InstallInv, Installed, Gone, OwnershipInv, OriginalsKept, At
<1>10. ImportInv'
    BY <1>1, <1>4 DEF ImportInv, UndoPc, Undone, BeforeReceipt, AfterReceipt
<1>11. OwnershipSettled'
    BY <1>1, <1>3 DEF AccountInv, OwnershipSettled, SettledOwnership, Settled, ToolkitNeeded
<1>12. JournalTracksDeclarations' /\ UpgradeInv'
    BY <1>1, <1>5 DEF AccountInv, JournalTracksDeclarations, UpgradeInv
<1> QED
    BY <1>6, <1>7, <1>8, <1>9, <1>10, <1>11, <1>12 DEF AccountInv
LEMMA ImportKeepsInv ==
    ASSUME AccountInv, ImportStep, ImportFrame
    PROVE  AccountInv'
<1> SUFFICES ASSUME ImportAdvances \/ ImportFails PROVE AccountInv'
    BY ImportStartsKeepsInv DEF ImportStep
<1>1. CASE Release /\ ~ClearImport /\ ~ClearRetirement
    <2>1. acct' = NoJob /\ acct'.pc = "idle" /\ acct'.job = "none" /\ acct \in AcctType
        BY <1>1, Shapes DEF Release, NoJob
    <2>2. \A pc \in JobPc \ {"idle"} : ~Goto(pc)
        BY <2>1, JobFields
    <2>3. UNCHANGED <<decl, host, evidence, imports, kept, saved, dir, up, receipts, toolkit, links>>
        <3> USE DEF registryOf, importVars, resources, program
        <3>1. CASE ImportFails
            BY <3>1 DEF ImportFails
        <3>2. CASE MakeBackup
            BY <2>2, <3>2 DEF MakeBackup, JobPc
        <3>3. CASE Undo
            BY <3>3 DEF Undo
        <3>4. CASE RetireIfReady
            BY <2>2, <3>4 DEF RetireIfReady, JobPc
        <3>5. CASE ArchiveToolkit
            BY <2>2, <3>5 DEF ArchiveToolkit, JobPc
        <3>6. CASE \E o \in Originals : MoveOriginal(o) \/ MoveBack(o)
            BY <2>1, <3>6 DEF MoveOriginal, MoveBack, At
        <3>7. (\E pc \in JobPc \ {"idle"} : Goto(pc))
              \/ ImportFails \/ MakeBackup \/ Undo \/ RetireIfReady \/ ArchiveToolkit
              \/ \E o \in Originals : MoveOriginal(o) \/ MoveBack(o)
            BY <1>1
               DEF ImportAdvances, RecordPrepared, StopLegacy, RecordApplying, CreateImported,
                   ApplyCandidate, CandidateApplied, WriteImportReceipt, RecordCommitted,
                   RemoveGenerated, RemoveApplied, RemoveDeclaration, RecordRestoring, StartLegacy,
                   RemoveBackup, RetireLock, RemoveLinks, JobPc
        <3> QED
            BY <2>2, <3>1, <3>2, <3>3, <3>4, <3>5, <3>6, <3>7
    <2>4. UNCHANGED <<regVars, journals, current, root, maintVars, importVars>>
        BY <2>3 DEF regVars, journals, importVars, ImportFrame, notImport
    <2> QED
        BY <1>1, <2>4, ReleaseKeepsInv
<1>2. CASE ~Release \/ ClearImport \/ ClearRetirement
    <2>1. acct.job \in {"import", "retire"}
        BY DEF ImportAdvances, ImportFails, MakeBackup, RecordPrepared, StopLegacy, RecordApplying,
               MoveOriginal, MoveBack, CreateImported, ApplyCandidate, CandidateApplied,
               WriteImportReceipt, RecordCommitted, ClearImport, Undo, RemoveGenerated, RemoveApplied,
               RemoveDeclaration, RecordRestoring, StartLegacy, RemoveBackup, RetireIfReady, RetireLock,
               ArchiveToolkit, RemoveLinks, ClearRetirement, At
    <2>2. CASE acct.job = "import"
        BY <1>2, <2>2, ImportWorksKeepsInv DEF ClearRetirement, At
    <2>3. CASE acct.job = "retire"
        <3>1. ~Release \/ ClearRetirement
            BY <1>2, <2>3 DEF ClearImport
        <3>2. ClearRetirement => ImportAdvances
            BY DEF ImportAdvances
        <3>3. ImportFails => Release
            BY <2>3 DEF ImportFails
        <3> QED
            BY <2>3, <3>1, <3>2, <3>3, RetireKeepsInv
    <2> QED
        BY <2>1, <2>2, <2>3
<1> QED
    BY <1>1, <1>2

(***************************************************************************)
(* The account.                                                            *)
(***************************************************************************)
LEMMA AccountInvStep == AccountInv /\ [Next]_vars => AccountInv'
<1> SUFFICES ASSUME AccountInv, [Next]_vars PROVE AccountInv'
    OBVIOUS
<1>1. CASE ClientStep /\ UNCHANGED <<maintVars, importVars>>
    <2>1. UNCHANGED <<journals, current, root, acct>>
        BY <1>1
           DEF ClientStep, Begin, LockRegistry, Write, LockApply, Applied, Kill, notClient
    <2> QED
        BY <1>1, <2>1, ClientsKeepInv DEF ClientFrame
<1>2. CASE UpgradeStep /\ UNCHANGED <<maintVars, importVars>>
    <2>1. UNCHANGED notUpgrade
        BY <1>2
           DEF UpgradeStep, UpgradeApply, UpgradeRecover, UpgradeAdvances, Validate, RowCommitted,
               RowReview, RowUpdate, RowMark, RowApply, RowApplied, RowComplete, UpgradeFinished,
               UpgradeFails, ApplyFails, Stop
    <2> QED
        BY <1>2, <2>1, UpgradeKeepsInv DEF UpgradeFrame
<1>3. CASE MaintStep /\ UNCHANGED importVars
    BY <1>3, MaintKeepsInv
<1>4. CASE ImportStep /\ UNCHANGED maintVars
    <2>1. UNCHANGED notImport
        BY <1>4
           DEF ImportStep, ImportApply, ImportRecover, ImportAdvances, ImportFails, MakeBackup,
               RecordPrepared, StopLegacy, RecordApplying, MoveOriginal, MoveBack, CreateImported,
               ApplyCandidate, CandidateApplied, WriteImportReceipt, RecordCommitted, ClearImport,
               Undo, RemoveGenerated, RemoveApplied, RemoveDeclaration, RecordRestoring, StartLegacy,
               RemoveBackup, RetireIfReady, RetireLock, ArchiveToolkit, RemoveLinks, ClearRetirement
    <2> QED
        BY <1>4, <2>1, ImportKeepsInv DEF ImportFrame
<1>5. CASE Crash
    BY <1>5, ReleaseKeepsInv DEF Crash
<1>6. CASE UNCHANGED vars
    <2>1. UNCHANGED <<decl, host, evidence, client, maint, upgrade, imports, current, root, acct,
                      entry, receipt, kept, saved, dir, up, receipts, toolkit, links>>
        BY <1>6 DEF vars, gateVars, regVars, journals, maintVars, importVars
    <2>2. TypeOK' /\ JobInv' /\ JournalInv' /\ ImportInv' /\ OwnershipSettled'
        BY <2>1
           DEF AccountInv, TypeOK, GatesTypeOK, UpgradeTypeOK, MaintTypeOK, ImportTypeOK, JobInv,
               JournalInv, NoImports, ImportInv, OwnershipSettled, SettledOwnership, ToolkitNeeded,
               Importing
    <2>3. ClientInv' /\ InstallInv' /\ OwnershipInv'
        BY <2>1
           DEF AccountInv, ClientInv, OneClientInv, Inside, Quiet, Importing, InstallInv, Installed,
               Gone, NothingRemains, Declared, OwnershipInv, OriginalsKept, At, Rows
    <2>4. JournalTracksDeclarations' /\ UpgradeInv'
        BY <2>1
           DEF AccountInv, JournalTracksDeclarations, UpgradeInv, Rows, Row, Want, Candidate,
               Allowed, PlanReviewed, Converged, Declared
    <2> QED
        BY <2>2, <2>3, <2>4 DEF AccountInv
<1> QED
    BY <1>1, <1>2, <1>3, <1>4, <1>5, <1>6 DEF Next
LEMMA InvAlways == Spec => []AccountInv
<1>1. Init => AccountInv
    BY AccountInvInit
<1>2. AccountInv /\ [Next]_vars => AccountInv'
    BY AccountInvStep
<1> QED
    BY <1>1, <1>2, PTL DEF Spec

\* The registry, the host, the journals, the receipts and every process keep
\* the shape that load_journal(), upgrade_state and _validate_journal expect.
THEOREM AccountTypeCorrect == Spec => []TypeOK
<1>1. AccountInv => TypeOK
    BY DEF AccountInv
<1> QED
    BY <1>1, InvAlways, PTL

\* With no maintenance pending the distribution is installed as a whole or
\* gone as a whole, and once it is renamed away nothing deployed runs it:
\* whoever dies in apply_rollback, apply_uninstall, recover or install.sh,
\* and whatever operators' processes do meanwhile.
THEOREM InstallationIsWhole == Spec => []InstallationWhole
<1>1. AccountInv => InstallationWhole
    BY DEF AccountInv, InstallInv, Installed, Gone, InstallationWhole
<1> QED
    BY <1>1, InvAlways, PTL

\* An original of a legacy instance is at every moment in its place or in the
\* backup directory, never in both and never lost (_transfer, _restore).
THEOREM OriginalsAreKept == Spec => []OriginalsKept
<1>1. AccountInv => OriginalsKept
    BY DEF AccountInv, OwnershipInv
<1> QED
    BY <1>1, InvAlways, PTL

\* Without a pending import an instance is wholly the predecessor's or wholly
\* the manager's: the import's receipt is the commit point.
THEOREM OwnershipIsSettled == Spec => []SettledOwnership
<1>1. AccountInv => SettledOwnership
    BY DEF AccountInv, OwnershipSettled
<1> QED
    BY <1>1, InvAlways, PTL

\* The toolkit is archived only when no instance can be restored to it
\* (_retire_toolkit_if_ready).
THEOREM ToolkitIsKept == Spec => []ToolkitNeeded
<1>1. AccountInv => ToolkitNeeded
    BY DEF AccountInv, OwnershipSettled
<1> QED
    BY <1>1, InvAlways, PTL

\* Whenever an upgrade is pending its journal accounts for every declaration
\* and for what is deployed, so that _continue's checks never refuse to resume.
THEOREM JournalAccounts == Spec => []JournalTracksDeclarations
<1>1. AccountInv => JournalTracksDeclarations
    BY DEF AccountInv
<1> QED
    BY <1>1, InvAlways, PTL

\* Who may change what is deployed while an upgrade is pending.
LEMMA OnlyTheUpgradeApplies ==
    ASSUME AccountInv, [Next]_vars, ~(UpgradeStep /\ UNCHANGED <<maintVars, importVars>>),
           upgrade # None, NEW i \in Ids
    PROVE  host'[i] = host[i]
<1>1. CASE ClientStep /\ UNCHANGED <<maintVars, importVars>>
    <2>1. ClientFrame
        BY <1>1
           DEF ClientStep, Begin, LockRegistry, Write, LockApply, Applied, Kill, notClient, ClientFrame
    <2>2. PICK c \in Clients : StepOf(c)
        BY <1>1 DEF ClientStep, StepOf
    <2>3. ClientEffect(i)
        BY <2>1, <2>2, ClientsHaveEffect DEF AccountInv
    <2> QED
        BY <2>3 DEF ClientEffect, Free
<1>2. CASE MaintStep /\ UNCHANGED importVars
    BY <1>2, MaintIsAlone DEF MaintAlone
<1>3. CASE ImportStep /\ UNCHANGED maintVars
    <2>1. CASE acct.job \in {"import", "retire"}
        BY <2>1 DEF AccountInv, JobInv
    <2>2. CASE acct.job \notin {"import", "retire"}
        BY <1>3, <2>2
           DEF ImportStep, ImportApply, ImportRecover, NoJournals, ImportAdvances, ImportFails, MakeBackup,
               RecordPrepared, StopLegacy, RecordApplying, MoveOriginal, MoveBack, CreateImported,
               ApplyCandidate, CandidateApplied, WriteImportReceipt, RecordCommitted, ClearImport,
               Undo, RemoveGenerated, RemoveApplied, RemoveDeclaration, RecordRestoring, StartLegacy,
               RemoveBackup, RetireIfReady, RetireLock, ArchiveToolkit, RemoveLinks, ClearRetirement, At
    <2> QED
        BY <2>1, <2>2
<1>4. CASE Crash \/ UNCHANGED vars
    BY <1>4 DEF Crash, vars, gateVars, regVars
<1> QED
    BY <1>1, <1>2, <1>3, <1>4 DEF Next

\* An apply that the upgrade has committed for an instance is not done again,
\* however often the upgrade fails or dies and is resumed (_committed_apply).
THEOREM NothingIsAppliedTwice == Spec => AppliedOnce
<1> DEFINE Once == \A i \in Ids :
        (upgrade # None /\ upgrade' # None /\ i \in Rows
            /\ evidence[i] = Want(i) /\ host[i] = Want(i))
            => host'[i] = host[i]
<1>1. AccountInv /\ [Next]_vars => [Once]_vars
    <2> SUFFICES ASSUME AccountInv, [Next]_vars, NEW i \in Ids, upgrade # None, upgrade' # None,
                        i \in Rows, evidence[i] = Want(i), host[i] = Want(i)
                 PROVE  host'[i] = host[i]
        OBVIOUS
    <2>1. CASE ~(UpgradeStep /\ UNCHANGED <<maintVars, importVars>>)
        BY <2>1, OnlyTheUpgradeApplies
    <2>2. CASE UpgradeStep
        <3>1. acct.job = "upgrade" /\ acct.pc \in {"apply", "applying"} =>
                  acct.id \in Rows /\ evidence[acct.id] # Want(acct.id)
            BY DEF AccountInv, UpgradeInv
        <3>2. host \in [Ids -> Deployment]
            BY Shapes
        <3> QED
            BY <2>2, <3>1, <3>2
               DEF UpgradeStep, UpgradeApply, UpgradeRecover, UpgradeAdvances, Validate, RowCommitted,
                   RowReview, RowUpdate, RowMark, RowApply, RowApplied, RowComplete, UpgradeFinished,
                   UpgradeFails, ApplyFails, Stop, At
    <2> QED
        BY <2>1, <2>2
<1> QED
    BY <1>1, InvAlways, PTL DEF Spec, AppliedOnce
=============================================================================
