------------------------------ MODULE Account ------------------------------
(***************************************************************************)
(* One account: operators' processes, the upgrade of its declarations, the *)
(* maintenance of its distribution and the import of its legacy instances, *)
(* over the same registry, host, journals and locks.                       *)
(***************************************************************************)
EXTENDS InstanceUpgrade, Maintenance, LegacyImport

CONSTANT DeclaredAtFirst

ASSUME AccountAssumption == DeclaredAtFirst \subseteq Ids \ LegacyIds

vars == <<gateVars, maintVars, importVars>>

Init ==
    \E r \in Releases :
        /\ current = r /\ receipt = r /\ root = "present" /\ entry = TRUE
        /\ \E old \in Releases :
            /\ decl = [i \in Ids |-> IF i \in DeclaredAtFirst
                            THEN [rel |-> old, life |-> "running"] ELSE None]
            /\ host = [i \in Ids |-> IF i \in LegacyIds THEN Legacy
                            ELSE IF decl[i] = None THEN Clean ELSE decl[i]]
            /\ evidence = [i \in Ids |-> IF decl[i] = None THEN None ELSE Earlier]
        /\ maint = None /\ upgrade = None
        /\ imports = [i \in Ids \cup {ToolkitRetirement} |-> None]
        /\ acct = NoJob
        /\ client = [c \in Clients |-> IdleClient]
        /\ kept = [i \in Ids |-> IF i \in LegacyIds THEN Originals ELSE {}]
        /\ saved = [i \in Ids |-> {}] /\ dir = [i \in Ids |-> FALSE]
        /\ up = [i \in Ids |-> i \in LegacyIds]
        /\ receipts = [i \in Ids |-> None]
        /\ toolkit = "present" /\ links = TRUE

\* The account-level process dies between two of its steps.
Crash ==
    /\ "crash" \in Faults /\ acct # NoJob
    /\ Release
    /\ UNCHANGED <<regVars, journals, current, root, maintVars, importVars>>

Next ==
    \/ (ClientStep \/ UpgradeStep) /\ UNCHANGED <<maintVars, importVars>>
    \/ MaintStep /\ UNCHANGED importVars
    \/ ImportStep /\ UNCHANGED maintVars
    \/ Crash

Spec == Init /\ [][Next]_vars

TypeOK == GatesTypeOK /\ UpgradeTypeOK /\ MaintTypeOK /\ ImportTypeOK

(***************************************************************************)
(* Properties.                                                             *)
(***************************************************************************)
\* As long as an upgrade is pending, whoever runs and however it was
\* interrupted, its journal accounts for every declaration and for what is
\* deployed: an instance not reached is as it was reviewed, one completed is
\* as the upgrade wants it (_continue's checks never meet anything else).
JournalTracksDeclarations ==
    upgrade # None =>
        /\ Rows = Declared
        /\ \A i \in Rows :
            /\ decl[i] \in Allowed(i)
            /\ PlanReviewed(i)
            /\ Row(i).phase = "completed" => Converged(i)

\* An apply of the upgrade that has committed is not done again, however
\* often the upgrade is interrupted and resumed (_committed_apply).
AppliedOnce ==
    [][\A i \in Ids :
        (upgrade # None /\ upgrade' # None /\ i \in Rows
            /\ evidence[i] = Want(i) /\ host[i] = Want(i))
            => host'[i] = host[i]]_vars

\* With no maintenance pending the program is installed, with its entry
\* points and a receipt of the release that is current, or it is gone with
\* them; and from the moment it is renamed away no deployment that runs it
\* is left.
InstallationWhole ==
    /\ maint = None =>
        \/ root = "present" /\ entry /\ receipt = current
        \/ root = "gone" /\ ~entry /\ receipt = None
    /\ root # "present" => \A i \in Ids : host[i] \in {Clean, Legacy}

\* A procedure that died can be resumed: no recovery is refused by another
\* procedure's journal, by a declaration that changed meanwhile, or by a
\* journal whose phase does not explain what is found.
RecoveryOpen ==
    LockFree =>
        /\ maint # None => ENABLED MaintRecover
        /\ upgrade # None => ENABLED UpgradeRecover
        /\ \A i \in Ids \cup {ToolkitRetirement} : imports[i] # None => ENABLED ImportRecover(i)

\* An original of a legacy instance is in its place or in the backup.
OriginalsKept ==
    \A i \in LegacyIds : kept[i] \cup saved[i] = Originals /\ kept[i] \cap saved[i] = {}

\* An instance is wholly the predecessor's or wholly the manager's when no
\* import of it is pending.
SettledOwnership ==
    \A i \in LegacyIds :
        (imports[i] = None /\ ~Importing(i)) =>
            \/ kept[i] = Originals /\ up[i] /\ receipts[i] = None /\ host[i] = Legacy
                 /\ evidence[i] = None
            \/ saved[i] = Originals /\ ~up[i] /\ receipts[i] # None /\ decl[i] # None

\* The toolkit stays as long as an instance may have to be restored to it.
ToolkitNeeded ==
    toolkit = "archived" => \A i \in LegacyIds : ~up[i] /\ receipts[i] # None
=============================================================================
