-------------------------- MODULE DistributionInstall --------------------------
(***************************************************************************)
(* The distribution transaction of scripts/install.sh: a journal, a        *)
(* candidate release built beside the others, its entry points, the switch *)
(* of the current link, the receipt; and the recovery that a later run, or *)
(* the exit trap of the same run, makes of a journal it finds.             *)
(*                                                                         *)
(* The account-level lock admits one run at a time.  A run that dies       *)
(* releases it and leaves the files as they are.                           *)
(***************************************************************************)
EXTENDS Naturals

CONSTANTS
    Dists,        \* distributions a run may be asked to install
    Predecessor,  \* release of an older layout, migrated from but never installed
    OldNames,     \* entry points the predecessor has
    Upgrade,      \* the entry point it lacks
    WithSetup,    \* the distributions that have the setup command
    Nothing,
    Hazards,      \* what may go wrong: see Hazard below
    MaxMishaps    \* bound on what goes wrong in one behaviour

(* "kill": a run dies between two steps.  "fail": a command of the         *)
(* transaction fails, and the exit trap recovers.  "tear": a run dies in   *)
(* the middle of the removal of a release.  "ignore": a command of the     *)
(* exit trap fails, and the trap goes on, since errexit is off there.      *)
Hazard == {"kill", "fail", "tear", "ignore"}

ASSUME DistributionInstallAssumption ==
    /\ Predecessor \notin Dists
    /\ Nothing \notin Dists \cup {Predecessor}
    /\ Upgrade \notin OldNames
    /\ WithSetup \subseteq Dists
    /\ Hazards \subseteq Hazard
    /\ MaxMishaps \in Nat

VARIABLES
    root,         \* the directory TOOLKIT_ROOT exists
    release,      \* the release directories
    staging,      \* the staging directory of a candidate exists
    current,      \* target of the link current
    currentTemp,  \* the link that is to replace it exists
    entry,        \* stable entry points: links into current
    setup,        \* the release the setup entry point names
    receipt,      \* distribution.json: the release it describes
    receiptTemp,  \* the prepared receipt exists
    journal,      \* distribution-transaction.json
    run,          \* progress of the run that holds the lock
    mishaps,
    served,       \* history: releases current has named
    torn          \* history: "tear" or "ignore" has happened

vars == <<root, release, staging, current, currentTemp, entry, setup,
          receipt, receiptTemp, journal, run, mishaps, served, torn>>

Releases == Dists \cup {Predecessor}
Names == OldNames \cup {Upgrade}

NoJournal == [cand |-> Nothing, prev |-> Nothing, preexisting |-> FALSE, created |-> {}]
Idle == [pc |-> "idle", op |-> "recover", cand |-> Nothing, trap |-> FALSE]

\* The straight part of a run: the step that follows each step.
After == [construct |-> "finalize", finalize |-> "validate", validate |-> "receipt",
          receipt |-> "entries", commit |-> "switch", switch |-> "setup",
          setup |-> "publish", publish |-> "done",
          forwardsetup |-> "forwardentries", forwardentries |-> "forwardreceipt",
          forwardreceipt |-> "forwardclean", forwardclean |-> "resolve",
          backstaging |-> "backrelease", backrelease |-> "backtemps",
          backtemps |-> "backentries", backentries |-> "backroot", backroot |-> "resolve"]

Forward == {"forwardsetup", "forwardentries", "forwardreceipt", "forwardclean"}
Back == {"backstaging", "backrelease", "backtemps", "backentries", "backroot"}
Pc == DOMAIN After \cup {"idle", "classify", "repair", "entries", "link", "done", "recover", "resolve"}

TypeOK ==
    /\ {root, staging, currentTemp, receiptTemp, torn} \subseteq BOOLEAN
    /\ release \in [Releases -> {"absent", "complete", "partial"}]
    /\ current \in Releases \cup {Nothing}
    /\ entry \subseteq Names
    /\ {setup, receipt} \subseteq Dists \cup {Nothing}
    /\ journal \in [cand : Dists \cup {Nothing}, prev : Releases \cup {Nothing},
                    preexisting : BOOLEAN, created : SUBSET Names]
    /\ run \in [pc : Pc, op : {"install", "upgrade", "recover"},
                cand : Dists \cup {Nothing}, trap : BOOLEAN]
    /\ mishaps \in 0..MaxMishaps
    /\ served \subseteq Releases

\* Nothing is installed, or the predecessor is.
Init ==
    /\ current \in {Nothing, Predecessor}
    /\ root = (current = Predecessor)
    /\ release = [r \in Releases |-> IF r = current THEN "complete" ELSE "absent"]
    /\ entry = IF current = Predecessor THEN OldNames ELSE {}
    /\ served = {current} \ {Nothing}
    /\ setup = Nothing /\ receipt = Nothing
    /\ staging = FALSE /\ currentTemp = FALSE /\ receiptTemp = FALSE /\ torn = FALSE
    /\ journal = NoJournal
    /\ run = Idle
    /\ mishaps = 0

links == <<current, entry, setup>>
temps == <<currentTemp, receiptTemp>>
history == <<mishaps, served, torn>>

At(pc) == run.pc = pc
Go(pc) == run' = [run EXCEPT !.pc = pc]
GoOn == Go(After[run.pc])
Exit == run' = Idle

Mishap(h) ==
    /\ h \in Hazards
    /\ mishaps < MaxMishaps
    /\ mishaps' = mishaps + 1

Complete(r) == r # Nothing /\ release[r] = "complete"
Journaled == journal.cand # Nothing
SetupValid == setup # Nothing => Complete(setup)

(***************************************************************************)
(* A run starts                                                            *)
(***************************************************************************)
AfterRecovery(op) == IF op = "recover" THEN "repair" ELSE "classify"

Begin(op, c) ==
    /\ At("idle")
    /\ run' = [pc |-> IF Journaled THEN "recover" ELSE AfterRecovery(op),
               op |-> op, cand |-> c, trap |-> FALSE]
    /\ UNCHANGED <<root, release, staging, temps, links, receipt, journal, history>>

\* The ownership classes under which a run goes on.
Absent == ~root /\ entry = {} /\ setup = Nothing
Recognized == current = Predecessor /\ Complete(current) /\ entry = OldNames
Standalone ==
    /\ current \in Dists /\ Complete(current)
    /\ entry = Names
    /\ SetupValid
    /\ current \in WithSetup => setup # Nothing

\* A bug: the receipt, which describes distributions, is made for any release.
ReceiptOfAnyRelease == current

RepairedReceipt == IF Standalone THEN current ELSE receipt

\* --recover-only, once no journal is left: the receipt follows current.
Repair ==
    /\ At("repair")
    /\ receipt' = RepairedReceipt
    /\ Exit
    /\ UNCHANGED <<root, release, staging, temps, links, journal, history>>

\* Foreign ownership, nothing to do, another distribution without --upgrade,
\* or a release directory that exists and is not valid.
Refused ==
    \/ ~(Absent \/ Recognized \/ Standalone)
    \/ Standalone /\ current = run.cand /\ receipt = run.cand
    \/ Standalone /\ current # run.cand /\ run.op # "upgrade"
    \/ release[run.cand] = "partial"

Classify ==
    /\ At("classify")
    /\ IF Refused
       THEN Exit /\ UNCHANGED journal
       ELSE /\ journal' = [cand |-> run.cand, prev |-> current, created |-> {},
                           preexisting |-> release[run.cand] = "complete"]
            /\ Go("construct")
    /\ UNCHANGED <<root, release, staging, temps, links, receipt, history>>

(***************************************************************************)
(* The transaction before the commit                                       *)
(***************************************************************************)
Construct ==
    /\ At("construct")
    /\ IF journal.preexisting
       THEN Go("validate") /\ UNCHANGED <<root, staging>>
       ELSE GoOn /\ root' = TRUE /\ staging' = TRUE
    /\ UNCHANGED <<release, temps, links, receipt, journal, history>>

Finalize ==
    /\ At("finalize")
    /\ staging' = FALSE
    /\ release' = [release EXCEPT ![run.cand] = "complete"]
    /\ GoOn
    /\ UNCHANGED <<root, temps, links, receipt, journal, history>>

\* The release, its runtime, and the declarations it has to read.
Validate ==
    /\ At("validate")
    /\ GoOn
    /\ UNCHANGED <<root, release, staging, temps, links, receipt, journal, history>>

PrepareReceipt ==
    /\ At("receipt")
    /\ receiptTemp' = TRUE
    /\ GoOn
    /\ UNCHANGED <<root, release, staging, currentTemp, links, receipt, journal, history>>

\* A bug: the names an older installer knew.
NamesOfPredecessor == OldNames

PreparedNames == Names

\* A bug: the journal is not written again before each link.
CreatedIsForgotten(n) == journal.created

Created(n) == journal.created \cup {n}

\* Each missing entry point is journaled, and then made.
PrepareEntries ==
    /\ At("entries")
    /\ IF PreparedNames \subseteq entry
       THEN Go("commit") /\ UNCHANGED journal
       ELSE \E n \in PreparedNames \ entry :
                /\ journal' = [journal EXCEPT !.created = Created(n)]
                /\ Go("link")
    /\ UNCHANGED <<root, release, staging, temps, links, receipt, history>>

LinkEntry ==
    /\ At("link")
    /\ \E n \in Names \ entry :
          /\ journal.created \subseteq entry \cup {n}
          /\ entry' = entry \cup {n}
    /\ Go("entries")
    /\ UNCHANGED <<root, release, staging, temps, current, setup, receipt, journal, history>>

(***************************************************************************)
(* The commit and what follows it                                          *)
(***************************************************************************)
PrepareCurrent ==
    /\ At("commit")
    /\ currentTemp' = TRUE
    /\ GoOn
    /\ UNCHANGED <<root, release, staging, receiptTemp, links, receipt, journal, history>>

SwitchCurrent ==
    /\ At("switch")
    /\ current' = run.cand
    /\ served' = served \cup {run.cand}
    /\ currentTemp' = FALSE
    /\ GoOn
    /\ UNCHANGED <<root, release, staging, receiptTemp, entry, setup, receipt, journal,
                   mishaps, torn>>

\* A distribution from before the setup command keeps the setup link there is.
NewSetup == IF current \in WithSetup THEN current ELSE setup

Trap == run' = [run EXCEPT !.pc = "recover", !.trap = TRUE]

EnsureSetup ==
    /\ At("setup")
    /\ IF SetupValid /\ entry = Names
       THEN setup' = NewSetup /\ GoOn
       ELSE Trap /\ UNCHANGED setup
    /\ UNCHANGED <<root, release, staging, temps, current, entry, receipt, journal, history>>

PublishReceipt ==
    /\ At("publish")
    /\ receipt' = run.cand
    /\ receiptTemp' = FALSE
    /\ GoOn
    /\ UNCHANGED <<root, release, staging, currentTemp, links, journal, history>>

\* The journal goes last, whether it is the transaction or a recovery that ends.
Resolve ==
    /\ run.pc \in {"done", "resolve"}
    /\ journal' = NoJournal
    /\ IF run.trap \/ At("done") THEN Exit ELSE Go(AfterRecovery(run.op))
    /\ UNCHANGED <<root, release, staging, temps, links, receipt, history>>

(***************************************************************************)
(* Recovery: forward when current names the candidate, back when it names  *)
(* what it named before, refused otherwise.                                *)
(***************************************************************************)
Recover ==
    /\ At("recover")
    /\ CASE current = journal.cand /\ Complete(current) -> Go("forwardsetup")
         [] current = journal.prev /\ current # journal.cand -> Go("backstaging")
         [] OTHER -> Exit
    /\ UNCHANGED <<root, release, staging, temps, links, receipt, journal, history>>

ForwardSetup ==
    /\ At("forwardsetup")
    /\ IF SetupValid THEN setup' = NewSetup /\ GoOn ELSE Exit /\ UNCHANGED setup
    /\ UNCHANGED <<root, release, staging, temps, current, entry, receipt, journal, history>>

ForwardEntries ==
    /\ At("forwardentries")
    /\ IF entry = Names
       THEN GoOn /\ UNCHANGED entry
       ELSE (\E n \in Names \ entry : entry' = entry \cup {n}) /\ UNCHANGED run
    /\ UNCHANGED <<root, release, staging, temps, current, setup, receipt, journal, history>>

ForwardReceipt ==
    /\ At("forwardreceipt")
    /\ receipt' = current
    /\ GoOn
    /\ UNCHANGED <<root, release, staging, temps, links, journal, history>>

ForwardClean ==
    /\ At("forwardclean")
    /\ receiptTemp' = FALSE /\ currentTemp' = FALSE /\ staging' = FALSE
    /\ GoOn
    /\ UNCHANGED <<root, release, links, receipt, journal, history>>

BackStaging ==
    /\ At("backstaging")
    /\ staging' = FALSE
    /\ GoOn
    /\ UNCHANGED <<root, release, temps, links, receipt, journal, history>>

\* A bug: a candidate that was there before the transaction goes too.
RemovableAlways == release[journal.cand] # "absent"

Removable == ~journal.preexisting /\ release[journal.cand] # "absent"

\* The removal needs a valid candidate: what an interrupted removal left is not.
BackRelease ==
    /\ At("backrelease")
    /\ IF Removable
       THEN IF Complete(journal.cand)
            THEN release' = [release EXCEPT ![journal.cand] = "absent"] /\ GoOn
            ELSE Exit /\ UNCHANGED release
       ELSE GoOn /\ UNCHANGED release
    /\ UNCHANGED <<root, staging, temps, links, receipt, journal, history>>

BackTemps ==
    /\ At("backtemps")
    /\ receiptTemp' = FALSE /\ currentTemp' = FALSE
    /\ GoOn
    /\ UNCHANGED <<root, release, staging, links, receipt, journal, history>>

\* A bug: an entry point that was journaled and never made is waited for.
ToUnlinkAll == journal.created

ToUnlink == journal.created \cap entry

BackEntries ==
    /\ At("backentries")
    /\ IF ToUnlink = {}
       THEN GoOn /\ UNCHANGED entry
       ELSE (\E n \in ToUnlink : entry' = entry \ {n}) /\ UNCHANGED run
    /\ UNCHANGED <<root, release, staging, temps, current, setup, receipt, journal, history>>

BackRoot ==
    /\ At("backroot")
    /\ IF current = Nothing
       THEN /\ root' = (staging \/ currentTemp \/ \E r \in Releases : release[r] # "absent")
            /\ GoOn
       ELSE (IF Complete(current) THEN GoOn ELSE Exit) /\ UNCHANGED root
    /\ UNCHANGED <<release, staging, temps, links, receipt, journal, history>>

(***************************************************************************)
(* What goes wrong                                                         *)
(***************************************************************************)
\* The run is killed, or a command of a recovery outside the trap fails.
Killed ==
    /\ ~At("idle")
    /\ Mishap("kill")
    /\ Exit
    /\ UNCHANGED <<root, release, staging, temps, links, receipt, journal, served, torn>>

\* A command of the transaction fails: errexit ends the run, its trap recovers.
Fails ==
    /\ run.pc \in Pc \ (Forward \cup Back \cup {"idle", "classify", "repair", "recover", "resolve"})
    /\ Mishap("fail")
    /\ Trap
    /\ UNCHANGED <<root, release, staging, temps, links, receipt, journal, served, torn>>

\* The removal of the candidate is cut short, and the run with it.
Torn ==
    /\ At("backrelease")
    /\ Removable /\ Complete(journal.cand)
    /\ Mishap("tear")
    /\ release' = [release EXCEPT ![journal.cand] = "partial"]
    /\ torn' = TRUE
    /\ Exit
    /\ UNCHANGED <<root, staging, temps, links, receipt, journal, served>>

\* In the trap a command fails and the next one runs all the same.  A removal
\* may have been under way; a receipt may be published as far as it was written.
Ignored ==
    /\ run.trap
    /\ run.pc \in (Forward \cup Back) \ {"backroot"}
    /\ Mishap("ignore")
    /\ \/ release' = release
       \/ /\ At("backrelease") /\ Removable /\ Complete(journal.cand)
          /\ release' = [release EXCEPT ![journal.cand] = "partial"]
    /\ receipt' = IF At("forwardreceipt") THEN Nothing ELSE receipt
    /\ torn' = TRUE
    /\ GoOn
    /\ UNCHANGED <<root, staging, temps, links, journal, served>>

(***************************************************************************)
(* The specification                                                       *)
(***************************************************************************)
Requests == \E c \in Dists : Begin("install", c) \/ Begin("upgrade", c) \/ Begin("recover", c)

Step ==
    \/ Repair \/ Classify \/ Construct \/ Finalize \/ Validate \/ PrepareReceipt
    \/ PrepareEntries \/ LinkEntry \/ PrepareCurrent \/ SwitchCurrent \/ EnsureSetup
    \/ PublishReceipt \/ Resolve \/ Recover
    \/ ForwardSetup \/ ForwardEntries \/ ForwardReceipt \/ ForwardClean
    \/ BackStaging \/ BackRelease \/ BackTemps \/ BackEntries \/ BackRoot

Next == Requests \/ Step \/ Killed \/ Fails \/ Torn \/ Ignored

Spec == Init /\ [][Next]_vars

\* A run goes on until it ends, and the installer is run again.
FairSpec == Spec /\ WF_vars(Step) /\ WF_vars(Requests)

(***************************************************************************)
(* Properties                                                              *)
(***************************************************************************)
\* The release a command runs: the one current names, when both exist.
Runs == [n \in Names |->
           IF n \in entry /\ Complete(current) /\ (n = Upgrade => current \in Dists)
           THEN current ELSE Nothing]

Switch == INSTANCE CommandSwitch WITH runs <- Runs

\* DIST-03: whatever goes wrong, the commands go from one complete release to
\* another in the one step that replaces current, and never mix or miss one.
CommandsSwitchAtOnce == Switch!Spec

\* DIST-16: a release that has been current stays complete: no rollback of a
\* later transaction, to whichever candidate, removes it.
ServedAreRetained == \A r \in served : Complete(r)

Converged ==
    /\ Absent \/ Recognized \/ (Standalone /\ receipt = current)
    /\ ~staging /\ ~currentTemp /\ ~receiptTemp
    /\ \A r \in Releases : release[r] # "partial"

\* DIST-05: a journal goes only when the complete previous distribution or the
\* complete candidate is in place, with no trace of the transaction.
JournalsEndConverged == ~Journaled => Converged

\* The same, but for a failure in the trap, which it does not notice.
EndConvergedUnlessTorn == torn \/ JournalsEndConverged

\* DIST-05: a transaction that was left unfinished is resolved by later runs,
\* unless a removal was cut short.
RecoveryConverges == Journaled ~> (~Journaled \/ torn)
================================================================================
