---------------------------- MODULE LegacyImport ----------------------------
(***************************************************************************)
(* The import of one instance of the predecessor toolkit: its originals    *)
(* are moved into a backup directory, a declaration of the manager takes   *)
(* their place and is applied, and a receipt is the commit point.  Up to   *)
(* it every failure and every recovery restores the originals, after it    *)
(* they finish the import.  When no legacy instance is left, the toolkit   *)
(* is archived behind a journal of its own.                                *)
(***************************************************************************)
EXTENDS RegistryGates

CONSTANT LegacyIds      \* instances of the predecessor toolkit

ASSUME ImportAssumption == LegacyIds \subseteq Ids

Originals == {"unit", "config"}

\* imports/<id>.json and imports/_retirement.json
ImportJournal ==
    [phase : {"prepared", "applying", "committed", "restoring", "retiring"},
     want : Declaration \cup {None}]

ASSUME ImportJournalAssumption == None \notin ImportJournal

VARIABLES
    kept,       \* originals of an instance that are in place
    saved,      \* originals of an instance that are in its backup directory
    dir,        \* imports/backups/<id> exists
    up,         \* the predecessor's services of an instance run
    receipts,   \* imports/receipts/<id>.json: the declaration it commits, or None
    toolkit,    \* the predecessor's program: "present" or "archived"
    links       \* its entry points exist

importVars == <<kept, saved, dir, up, receipts, toolkit, links>>
resources == <<kept, saved, dir>>
program == <<toolkit, links>>
notImport == <<client, maint, upgrade, current, root>>
registryOf == <<decl, host, evidence>>

Record(i, phase) == imports' = [imports EXCEPT ![i].phase = phase]
Journal(i) == imports[i]
Imported(i) == imports[i].want

(***************************************************************************)
(* apply(): one reviewed instance.                                         *)
(***************************************************************************)
ImportApply(i) ==
    /\ LockFree /\ NoJournals /\ root = "present" /\ toolkit = "present"
    /\ kept[i] = Originals /\ receipts[i] = None
    /\ decl[i] = None /\ evidence[i] = None
    /\ \A c \in Clients : client[c].pc \in {"write", "applying"} => client[c].id # i
    /\ acct' = [NoJob EXCEPT !.job = "import", !.pc = "mkdir", !.id = i]
    /\ UNCHANGED <<registryOf, imports, notImport, importVars>>

\* _transfer
MakeBackup ==
    /\ At("import", "mkdir")
    /\ IF dir[acct.id] THEN Release /\ UNCHANGED dir
       ELSE dir' = [dir EXCEPT ![acct.id] = TRUE] /\ Goto("record")
    /\ UNCHANGED <<registryOf, imports, notImport, kept, saved, up, receipts, program>>

RecordPrepared ==
    /\ At("import", "record")
    /\ imports' = [imports EXCEPT ![acct.id] =
            [phase |-> "prepared", want |-> [rel |-> current, life |-> "running"]]]
    /\ Goto("stop")
    /\ UNCHANGED <<registryOf, notImport, importVars>>

StopLegacy ==
    /\ acct.job = "import" /\ acct.pc \in {"stop", "undo-stop"}
    /\ up' = [up EXCEPT ![acct.id] = FALSE]
    /\ Goto(IF acct.pc = "stop" THEN "move" ELSE "undo-remove")
    /\ UNCHANGED <<registryOf, imports, notImport, resources, receipts, program>>

MoveOriginal(o) ==
    /\ At("import", "move") /\ o \in kept[acct.id]
    /\ kept' = [kept EXCEPT ![acct.id] = @ \ {o}]
    /\ saved' = [saved EXCEPT ![acct.id] = @ \cup {o}]
    /\ IF o = "unit" THEN host' = [host EXCEPT ![acct.id] = Clean] ELSE UNCHANGED host
    /\ UNCHANGED <<decl, evidence, imports, notImport, acct, dir, up, receipts, program>>

RecordApplying ==
    /\ At("import", "move") /\ kept[acct.id] = {}
    /\ Record(acct.id, "applying") /\ Goto("create")
    /\ UNCHANGED <<registryOf, notImport, importVars>>

CreateImported ==
    /\ At("import", "create")
    /\ decl' = [decl EXCEPT ![acct.id] = Imported(acct.id)]
    /\ Goto("apply")
    /\ UNCHANGED <<host, evidence, imports, notImport, importVars>>

\* apply_candidate, of a new import or of one that recover() finishes
ApplyCandidate ==
    /\ acct.job = "import" /\ acct.pc \in {"apply", "finish"}
    /\ host' = [host EXCEPT ![acct.id] = Mixed]
    /\ Goto(IF acct.pc = "apply" THEN "applying" ELSE "finishing")
    /\ UNCHANGED <<decl, evidence, imports, notImport, importVars>>

CandidateApplied ==
    /\ acct.job = "import" /\ acct.pc \in {"applying", "finishing"}
    /\ host' = [host EXCEPT ![acct.id] = decl[acct.id]]
    /\ evidence' = [evidence EXCEPT ![acct.id] = Earlier]
    /\ Goto(IF acct.pc = "applying" THEN "receipt" ELSE "clear")
    /\ UNCHANGED <<decl, imports, notImport, importVars>>

WriteImportReceipt ==
    /\ At("import", "receipt")
    /\ receipts' = [receipts EXCEPT ![acct.id] = decl[acct.id]]
    /\ Goto("commit")
    /\ UNCHANGED <<registryOf, imports, notImport, resources, up, program>>

RecordCommitted ==
    /\ At("import", "commit")
    /\ Record(acct.id, "committed") /\ Goto("clear")
    /\ UNCHANGED <<registryOf, notImport, importVars>>

ClearImport ==
    /\ acct.job = "import" /\ acct.pc \in {"clear", "undo-clear"}
    /\ imports' = [imports EXCEPT ![acct.id] = None]
    /\ IF acct.pc = "clear" THEN acct' = [NoJob EXCEPT !.job = "retire", !.pc = "retire"]
       ELSE Release
    /\ UNCHANGED <<registryOf, notImport, importVars>>

\* An operation raises.  Before the receipt the same process restores.
ImportFails ==
    /\ "fail" \in Faults /\ acct.job \in {"import", "retire"}
    /\ IF acct.job = "import" /\ receipts[acct.id] = None
            /\ acct.pc \in {"stop", "move", "create", "apply", "applying", "receipt"}
       THEN Goto("undo") ELSE Release
    /\ UNCHANGED <<registryOf, imports, notImport, importVars>>

(***************************************************************************)
(* _restore: what was not displaced is not touched.                        *)
(***************************************************************************)
Undo ==
    /\ At("import", "undo")
    /\ IF decl[acct.id] \in {None, Imported(acct.id)} THEN Goto("undo-stop") ELSE Release
    /\ UNCHANGED <<registryOf, imports, notImport, importVars>>

\* The generated resources go, but for those that stand where an original
\* of this instance stood that was not moved: that is the original itself.
AllGeneratedGone(i) == {"unit"}
GeneratedGone(i) == {"unit"} \cap saved[i]

RemoveGenerated ==
    LET i == acct.id IN
    /\ At("import", "undo-remove")
    /\ kept' = [kept EXCEPT ![i] = @ \ GeneratedGone(i)]
    /\ host' = [host EXCEPT ![i] = IF GeneratedGone(i) = {} THEN @ ELSE Clean]
    /\ Goto("undo-applied")
    /\ UNCHANGED <<decl, evidence, imports, notImport, saved, dir, up, receipts, program>>

RemoveApplied ==
    /\ At("import", "undo-applied")
    /\ evidence' = [evidence EXCEPT ![acct.id] = None]
    /\ Goto("undo-declaration")
    /\ UNCHANGED <<decl, host, imports, notImport, importVars>>

RemoveDeclaration ==
    /\ At("import", "undo-declaration")
    /\ decl' = [decl EXCEPT ![acct.id] = None]
    /\ Goto("undo-move")
    /\ UNCHANGED <<host, evidence, imports, notImport, importVars>>

MoveBack(o) ==
    /\ At("import", "undo-move") /\ o \in saved[acct.id]
    /\ saved' = [saved EXCEPT ![acct.id] = @ \ {o}]
    /\ kept' = [kept EXCEPT ![acct.id] = @ \cup {o}]
    /\ IF o = "unit" THEN host' = [host EXCEPT ![acct.id] = Legacy] ELSE UNCHANGED host
    /\ UNCHANGED <<decl, evidence, imports, notImport, acct, dir, up, receipts, program>>

RecordRestoring ==
    /\ At("import", "undo-move") /\ saved[acct.id] = {}
    /\ Record(acct.id, "restoring") /\ Goto("undo-start")
    /\ UNCHANGED <<registryOf, notImport, importVars>>

StartLegacy ==
    /\ At("import", "undo-start")
    /\ up' = [up EXCEPT ![acct.id] = TRUE]
    /\ Goto("undo-rmdir")
    /\ UNCHANGED <<registryOf, imports, notImport, resources, receipts, program>>

RemoveBackup ==
    /\ At("import", "undo-rmdir")
    /\ dir' = [dir EXCEPT ![acct.id] = FALSE]
    /\ Goto("undo-clear")
    /\ UNCHANGED <<registryOf, imports, notImport, kept, saved, up, receipts, program>>

(***************************************************************************)
(* Retirement of the toolkit, in quiescence from its move on.              *)
(***************************************************************************)
NoneLeft == {}
LegacyLeft == {i \in LegacyIds : kept[i] # {}}

\* The toolkit is ready to go when its files are all its own; missing links
\* do not matter.
RetirementPreview == IF toolkit = "archived" THEN {"absent"} ELSE {"ready", "blocked"}

RetireIfReady ==
    /\ At("retire", "retire")
    /\ \E state \in RetirementPreview :
       IF LegacyLeft = {} /\ state = "ready"
       THEN /\ imports' = [imports EXCEPT ![ToolkitRetirement] = [phase |-> "retiring", want |-> None]]
            /\ Goto("retire-lock")
       ELSE Release /\ UNCHANGED imports
    /\ UNCHANGED <<registryOf, notImport, importVars>>

RetireLock ==
    /\ At("retire", "retire-lock") /\ Quiescent
    /\ Goto("retire-move")
    /\ UNCHANGED <<registryOf, imports, notImport, importVars>>

ArchiveToolkit ==
    /\ At("retire", "retire-move")
    /\ IF toolkit = "present" /\ LegacyLeft # {} THEN Release /\ UNCHANGED toolkit
       ELSE toolkit' = "archived" /\ Goto("retire-links")
    /\ UNCHANGED <<registryOf, imports, notImport, resources, up, receipts, links>>

RemoveLinks ==
    /\ At("retire", "retire-links")
    /\ links' = FALSE /\ Goto("retire-clear")
    /\ UNCHANGED <<registryOf, imports, notImport, resources, up, receipts, toolkit>>

ClearRetirement ==
    /\ At("retire", "retire-clear")
    /\ imports' = [imports EXCEPT ![ToolkitRetirement] = None] /\ Release
    /\ UNCHANGED <<registryOf, notImport, importVars>>

\* recover(): the receipt decides which way
ImportRecover(i) ==
    /\ LockFree /\ maint = None /\ upgrade = None /\ root = "present" /\ imports[i] # None
    /\ IF i = ToolkitRetirement THEN StartJob("retire", "retire-lock")
       ELSE acct' = [NoJob EXCEPT !.job = "import", !.id = i,
                        !.pc = IF receipts[i] = None THEN "undo" ELSE "finish"]
    /\ (i # ToolkitRetirement /\ receipts[i] # None) => decl[i] = receipts[i]
    /\ UNCHANGED <<registryOf, imports, notImport, importVars>>

ImportAdvances ==
    \/ MakeBackup \/ RecordPrepared \/ StopLegacy \/ RecordApplying
    \/ \E o \in Originals : MoveOriginal(o) \/ MoveBack(o)
    \/ CreateImported \/ ApplyCandidate \/ CandidateApplied
    \/ WriteImportReceipt \/ RecordCommitted \/ ClearImport
    \/ Undo \/ RemoveGenerated \/ RemoveApplied \/ RemoveDeclaration
    \/ RecordRestoring \/ StartLegacy \/ RemoveBackup
    \/ RetireIfReady \/ RetireLock \/ ArchiveToolkit \/ RemoveLinks \/ ClearRetirement

ImportStep ==
    \/ \E i \in Ids : ImportApply(i)
    \/ \E i \in Ids \cup {ToolkitRetirement} : ImportRecover(i)
    \/ ImportAdvances \/ ImportFails

ImportTypeOK ==
    /\ kept \in [Ids -> SUBSET Originals] /\ saved \in [Ids -> SUBSET Originals]
    /\ dir \in [Ids -> BOOLEAN] /\ up \in [Ids -> BOOLEAN]
    /\ receipts \in [Ids -> Declaration \cup {None}]
    /\ toolkit \in {"present", "archived"} /\ links \in BOOLEAN
    /\ imports \in [Ids \cup {ToolkitRetirement} -> ImportJournal \cup {None}]
=============================================================================
