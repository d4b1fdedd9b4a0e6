----------------------------- MODULE Maintenance -----------------------------
(***************************************************************************)
(* Distribution maintenance: the rollback to a retained release, the       *)
(* uninstall (every deployment is removed through the lifecycle worker,    *)
(* then the program is renamed away in one step and what is left of it is  *)
(* deleted), and the recovery of either from its journal.                  *)
(***************************************************************************)
EXTENDS RegistryGates

VARIABLES
    entry,      \* the entry points below <prefix>/bin exist
    receipt     \* distribution.json: the release it anchors, or None

\* maintenance-transaction.json
MaintJournal ==
    [op : {"rollback", "uninstall"},
     phase : {"prepared", "removing-instances", "ready-to-quarantine"},
     previous : Releases, target : Releases \cup {None},
     snap : UNION {[S -> Declaration] : S \in SUBSET Ids}, done : SUBSET Ids]

ASSUME MaintAssumption == None \notin MaintJournal

maintVars == <<entry, receipt>>
notMaint == <<evidence, client, upgrade, imports>>
programFiles == <<current, root, entry, receipt>>

Save(value) == maint' = value
Snapshot == [i \in Declared |-> decl[i]]

\* entrypoints(): those of a program that is in place must be
EntrypointsKnown == root = "present" => entry

\* status(): an installation of its own, and nothing pending
StandaloneSettled == NoJournals /\ root = "present" /\ EntrypointsKnown

PreviewedLocked == LockFree /\ root = "present"
Previewed == LockFree /\ StandaloneSettled

(***************************************************************************)
(* Rollback, all of it in quiescence.                                      *)
(***************************************************************************)
RollbackApply(r) ==
    /\ Previewed /\ Quiescent /\ r # current
    /\ Save([op |-> "rollback", phase |-> "prepared", previous |-> current,
             target |-> r, snap |-> Snapshot, done |-> {}])
    /\ StartJob("rollback", "switch")
    /\ UNCHANGED <<decl, host, notMaint, programFiles>>

Switch ==
    /\ At("rollback", "switch")
    /\ current' = maint.target
    /\ Goto("receipt")
    /\ UNCHANGED <<decl, host, notMaint, maint, root, maintVars>>

WriteReceipt ==
    /\ acct.job \in {"rollback", "restore"} /\ acct.pc = "receipt"
    /\ receipt' = current
    /\ Goto("clear")
    /\ UNCHANGED <<decl, host, notMaint, maint, current, root, entry>>

ClearJournal ==
    /\ acct.job \in {"rollback", "uninstall", "restore"} /\ acct.pc = "clear"
    /\ Save(None)
    /\ Release
    /\ UNCHANGED <<decl, host, notMaint, programFiles>>

(***************************************************************************)
(* Uninstall.                                                              *)
(***************************************************************************)
UninstallApply ==
    /\ Previewed
    /\ \A i \in Ids : IF i \in Declared THEN host[i] # Legacy ELSE host[i] \in {Clean, Legacy}
    /\ Save([op |-> "uninstall", phase |-> "prepared", previous |-> current,
             target |-> None, snap |-> Snapshot, done |-> {}])
    /\ StartJob("uninstall", "backup")
    /\ UNCHANGED <<decl, host, notMaint, programFiles>>

Backup ==
    /\ At("uninstall", "backup") /\ Quiescent
    /\ IF Snapshot = maint.snap THEN Goto("remove") ELSE Release
    /\ UNCHANGED <<decl, host, notMaint, maint, programFiles>>

\* The next instance of the reviewed preview.
ToRemove == DOMAIN maint.snap \ maint.done
NextRemoved == CHOOSE i \in ToRemove : \A j \in ToRemove : i <= j

\* remove_instance: the lifecycle worker's registry update, then its apply
RemoveUpdate ==
    LET i == NextRemoved IN
    /\ At("uninstall", "remove") /\ ToRemove # {} /\ WritesOf(i) = {}
    /\ decl' = [decl EXCEPT ![i].life = "absent"]
    /\ acct' = [acct EXCEPT !.pc = "remove-apply", !.id = i]
    /\ UNCHANGED <<host, notMaint, maint, programFiles>>

RemoveApply ==
    /\ At("uninstall", "remove-apply") /\ AppliesOf(acct.id) = {}
    /\ IF decl[acct.id].life = "absent"
       THEN /\ host' = [host EXCEPT ![acct.id] = Clean]
            /\ evidence' = [evidence EXCEPT ![acct.id] = Earlier]
            /\ Goto("remove-save")
       ELSE Release /\ UNCHANGED <<host, evidence>>
    /\ UNCHANGED <<decl, client, upgrade, imports, maint, programFiles>>

RemoveSave ==
    /\ At("uninstall", "remove-save")
    /\ Save([maint EXCEPT !.done = @ \cup {acct.id}, !.phase = "removing-instances"])
    /\ acct' = [acct EXCEPT !.pc = "remove", !.id = None]
    /\ UNCHANGED <<decl, host, notMaint, programFiles>>

\* What must hold before the program goes, looked at in quiescence.
NothingRemains ==
    /\ \A i \in Declared : decl[i].life = "absent"
    /\ \A i \in Ids : host[i] \in {Clean, Legacy}

NothingDeclaredRemains == \A i \in Declared : decl[i].life = "absent"

Ready ==
    /\ At("uninstall", "remove") /\ ToRemove = {} /\ Quiescent
    /\ IF NothingRemains
       THEN Save([maint EXCEPT !.phase = "ready-to-quarantine"]) /\ Goto("rename")
       ELSE Release /\ UNCHANGED maint
    /\ UNCHANGED <<decl, host, notMaint, programFiles>>

Rename ==
    /\ At("uninstall", "rename")
    /\ root' = "quarantined"
    /\ Goto("entrypoints")
    /\ UNCHANGED <<decl, host, notMaint, maint, current, maintVars>>

\* finish_uninstall: refuses a new distribution or a receipt that changed
RemoveEntrypoints ==
    /\ At("uninstall", "entrypoints")
    /\ IF root # "present" /\ receipt \in {None, maint.previous}
       THEN entry' = FALSE /\ Goto("unreceipt") ELSE Release /\ UNCHANGED entry
    /\ UNCHANGED <<decl, host, notMaint, maint, current, root, receipt>>

RemoveReceipt ==
    /\ At("uninstall", "unreceipt")
    /\ receipt' = None
    /\ Goto("rmtree")
    /\ UNCHANGED <<decl, host, notMaint, maint, current, root, entry>>

RemoveTree ==
    /\ At("uninstall", "rmtree")
    /\ root' = "gone"
    /\ Goto("clear")
    /\ UNCHANGED <<decl, host, notMaint, maint, current, maintVars>>

(***************************************************************************)
(* recover().                                                              *)
(***************************************************************************)
UninstallCommitted == maint.phase = "ready-to-quarantine"

CleanupAt == IF root = "present" THEN "clear" ELSE "entrypoints"
RecoveryAt == IF maint.op = "rollback" THEN "receipt" ELSE CleanupAt

\* load_journal()
JournalLoads ==
    /\ maint.phase \in {"prepared", "removing-instances", "ready-to-quarantine"}
    /\ maint.op = "rollback" => maint.target \in Releases
    /\ maint.done \subseteq DOMAIN maint.snap

MaintRecover ==
    /\ LockFree /\ maint # None /\ upgrade = None
    /\ JournalLoads /\ EntrypointsKnown
    /\ acct' = [NoJob EXCEPT
            !.job = IF maint.op = "uninstall" THEN "uninstall" ELSE "restore",
            !.pc = RecoveryAt]
    /\ (maint.op = "uninstall" /\ root # "present") => UninstallCommitted
    /\ (maint.op = "rollback") => current \in {maint.previous, maint.target}
    /\ UNCHANGED <<decl, host, notMaint, maint, programFiles>>

\* A step raises, or a deadline of quiescent_instances passes: the journal
\* stays for recover().
MaintFails ==
    /\ acct.job \in {"rollback", "uninstall", "restore"}
    /\ \/ "fail" \in Faults
       \/ "timeout" \in Faults /\ ~Quiescent
            /\ (acct.pc = "backup" \/ (acct.pc = "remove" /\ ToRemove = {}))
    /\ Release
    /\ UNCHANGED <<decl, host, notMaint, maint, programFiles>>

\* install.sh, under the same lock and behind the same journals
Install(r) ==
    /\ LockFree /\ NoJournals /\ root = "gone"
    /\ root' = "present" /\ current' = r /\ receipt' = r /\ entry' = TRUE
    /\ UNCHANGED <<decl, host, notMaint, maint, acct>>

MaintAdvances ==
    \/ Switch \/ WriteReceipt \/ ClearJournal
    \/ Backup \/ RemoveUpdate \/ RemoveApply \/ RemoveSave \/ Ready \/ Rename
    \/ RemoveEntrypoints \/ RemoveReceipt \/ RemoveTree

MaintStep ==
    \/ \E r \in Releases : RollbackApply(r) \/ Install(r)
    \/ UninstallApply \/ MaintRecover \/ MaintAdvances \/ MaintFails

MaintTypeOK ==
    /\ entry \in BOOLEAN /\ receipt \in Releases \cup {None}
    /\ maint \in MaintJournal \cup {None}
    /\ maint # None => maint.done \subseteq DOMAIN maint.snap
=============================================================================
