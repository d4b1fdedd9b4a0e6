--------------------------- MODULE InstanceUpgrade ---------------------------
(***************************************************************************)
(* `instance upgrade apply` and `recover`: every declaration gets the      *)
(* runtime paths of the current release, one instance after the other, and *)
(* every step is journaled before it is taken, so that a later process can *)
(* resume where an earlier one failed or died.                             *)
(***************************************************************************)
EXTENDS RegistryGates

\* instance-upgrade.json
UpgradeRow ==
    [orig : Declaration, plan : Deployment,
     phase : {"pending", "updating", "applying", "completed"}]
UpgradeJournal ==
    [rel : Releases, rows : UNION {[S -> UpgradeRow] : S \in SUBSET Ids}]

ASSUME UpgradeAssumption == None \notin UpgradeJournal

Candidate(d, r) == [d EXCEPT !.rel = r]
Rows == DOMAIN upgrade.rows
Row(i) == upgrade.rows[i]
Want(i) == Candidate(Row(i).orig, upgrade.rel)
InPhase(i, phase) == upgrade' = [upgrade EXCEPT !.rows[i].phase = phase]

\* The first instance, in order, that is not completed.
Open == {i \in Rows : Row(i).phase # "completed"}
Next1 == CHOOSE i \in Open : \A j \in Open : i <= j

notUpgrade == <<client, maint, imports, current, root>>

\* target(): the executing release is current, nothing else is pending
Target == root = "present" /\ maint = None /\ \A j \in Ids \cup {0} : imports[j] = None

\* apply(): the preview is recomputed and journaled in quiescence
UpgradeApply ==
    /\ LockFree /\ Target /\ upgrade = None /\ Quiescent
    /\ Declared # {}
    /\ \A i \in Declared : host[i] # Legacy
    /\ upgrade' = [rel |-> current,
                   rows |-> [i \in Declared |->
                        [orig |-> decl[i], plan |-> host[i], phase |-> "pending"]]]
    /\ StartJob("upgrade", "validate")
    /\ UNCHANGED <<decl, host, evidence, notUpgrade>>

\* recover(): resumed by the release the journal names
UpgradeRecover ==
    /\ LockFree /\ Target /\ upgrade # None /\ upgrade.rel = current
    /\ StartJob("upgrade", "validate")
    /\ UNCHANGED <<decl, host, evidence, upgrade, notUpgrade>>

\* _continue: what each phase allows the declaration to be
Allowed(i) ==
    CASE Row(i).phase = "pending" -> {Row(i).orig}
      [] Row(i).phase \in {"updating", "applying"} -> {Row(i).orig, Want(i)}
      [] Row(i).phase = "completed" -> {Want(i)}
Converged(i) == Row(i).orig.life = "running" => host[i] = Want(i)

\* An operation is refused or raises: the journal stays for recover().
Stop == Release /\ UNCHANGED <<decl, host, evidence, upgrade, notUpgrade>>

Validate ==
    /\ At("upgrade", "validate")
    /\ IF /\ Declared = Rows
          /\ \A i \in Rows : decl[i] \in Allowed(i)
          /\ \A i \in Rows : Row(i).phase = "completed" => Converged(i)
       THEN Goto("row") /\ UNCHANGED <<decl, host, evidence, upgrade, notUpgrade>>
       ELSE Stop

\* _committed_apply: applied.json and its record are of this upgrade
NeverCommitted(i) == FALSE
Committed(i) == evidence[i] = Want(i)

RowCommitted ==
    LET i == Next1 IN
    /\ At("upgrade", "row") /\ Open # {}
    /\ Row(i).phase = "applying" /\ Committed(i)
    /\ IF Converged(i)
       THEN InPhase(i, "completed") /\ UNCHANGED <<decl, host, evidence, acct, notUpgrade>>
       ELSE Stop

PlanReviewed(i) == Row(i).phase = "pending" => host[i] = Row(i).plan

RowReview ==
    LET i == Next1 IN
    /\ At("upgrade", "row") /\ Open # {}
    /\ ~(Row(i).phase = "applying" /\ Committed(i))
    /\ IF PlanReviewed(i) /\ decl[i] \in {Row(i).orig, Want(i)}
       THEN /\ InPhase(i, "updating")
            /\ acct' = [acct EXCEPT !.pc = "update", !.id = i, !.base = decl[i]]
            /\ UNCHANGED <<decl, host, evidence, notUpgrade>>
       ELSE Stop

\* registry.update, by compare and swap under the instance's registry lock
RowUpdate ==
    /\ At("upgrade", "update") /\ WritesOf(acct.id) = {}
    /\ IF decl[acct.id] = acct.base
       THEN /\ decl' = [decl EXCEPT ![acct.id] = Want(acct.id)]
            /\ acct' = [acct EXCEPT !.pc = "mark", !.base = None]
            /\ UNCHANGED <<host, evidence, upgrade, notUpgrade>>
       ELSE Stop

RowMark ==
    /\ At("upgrade", "mark")
    /\ InPhase(acct.id, "applying")
    /\ Goto(IF Want(acct.id).life = "running" THEN "apply" ELSE "complete")
    /\ UNCHANGED <<decl, host, evidence, notUpgrade>>

RowApply ==
    /\ At("upgrade", "apply") /\ AppliesOf(acct.id) = {}
    /\ host' = [host EXCEPT ![acct.id] = Mixed]
    /\ acct' = [acct EXCEPT !.pc = "applying", !.base = host[acct.id]]
    /\ UNCHANGED <<decl, evidence, upgrade, notUpgrade>>

RowApplied ==
    /\ At("upgrade", "applying")
    /\ host' = [host EXCEPT ![acct.id] = Want(acct.id)]
    /\ evidence' = [evidence EXCEPT ![acct.id] = Want(acct.id)]
    /\ acct' = [acct EXCEPT !.pc = "complete", !.base = None]
    /\ UNCHANGED <<decl, upgrade, notUpgrade>>

RowComplete ==
    /\ At("upgrade", "complete")
    /\ InPhase(acct.id, "completed")
    /\ acct' = [acct EXCEPT !.pc = "row", !.id = None]
    /\ UNCHANGED <<decl, host, evidence, notUpgrade>>

\* An operation raises: the process ends.  An apply that raises undoes what it did;
\* one that raises after applied.json was written leaves applied.json.
UpgradeFails ==
    /\ "fail" \in Faults
    /\ acct.job = "upgrade" /\ acct.pc \in {"update", "mark", "apply", "complete"}
    /\ Stop

ApplyFails ==
    /\ "fail" \in Faults /\ At("upgrade", "applying")
    /\ host' = [host EXCEPT ![acct.id] = acct.base]
    /\ \/ UNCHANGED evidence
       \/ /\ "record" \in Faults
          /\ evidence' = [evidence EXCEPT ![acct.id] = Want(acct.id)]
    /\ Release
    /\ UNCHANGED <<decl, upgrade, notUpgrade>>

\* Evidence of a finished upgrade is that of an earlier apply for the next.
UpgradeFinished ==
    /\ At("upgrade", "row") /\ Open = {}
    /\ IF \A i \in Ids : decl[i] = IF i \in Rows THEN Want(i) ELSE None
       THEN /\ upgrade' = None
            /\ evidence' = [i \in Ids |-> IF evidence[i] = None THEN None ELSE Earlier]
            /\ Release
            /\ UNCHANGED <<decl, host, notUpgrade>>
       ELSE Stop

UpgradeAdvances ==
    \/ Validate \/ RowCommitted \/ RowReview \/ RowUpdate \/ RowMark
    \/ RowApply \/ RowApplied \/ RowComplete
    \/ UpgradeFinished

UpgradeStep ==
    \/ UpgradeApply \/ UpgradeRecover \/ UpgradeAdvances
    \/ UpgradeFails \/ ApplyFails

UpgradeTypeOK == upgrade \in UpgradeJournal \cup {None}
=============================================================================
