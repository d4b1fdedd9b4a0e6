---------------------- MODULE DistributionInstallProofs ----------------------
(***************************************************************************)
(* No rollback removes a release that has been current, and the commands   *)
(* of the account change release in one step, for every set of             *)
(* distributions and entry points and any number of mishaps.               *)
(***************************************************************************)
EXTENDS DistributionInstall, TLAPS

BeforeSwitch == {"construct", "finalize", "validate", "receipt", "entries", "link",
                 "commit", "switch"}
AfterSwitch == {"setup", "publish", "done"}
Built == {"validate", "receipt", "entries", "link", "commit", "switch"}

\* What the progress of the run says about the files.
RunInv ==
    /\ ~At("idle") => run.cand \in Dists
    /\ run.pc \in BeforeSwitch \cup AfterSwitch => journal.cand = run.cand
    /\ run.pc \in BeforeSwitch => current = journal.prev
    /\ run.pc \in Built => Complete(run.cand)
    /\ At("construct") /\ journal.preexisting => Complete(run.cand)
    /\ run.pc \in {"commit", "switch"} => entry = Names
    /\ run.pc \in Forward => current \in Dists
    /\ run.pc \in Back => current = journal.prev /\ current # journal.cand

\* A journal whose rollback removes the candidate is of one never served, and
\* it lists no entry point that a release in place has.
JournalInv ==
    /\ ~journal.preexisting /\ current # journal.cand => journal.cand \notin served
    /\ journal.prev \in Dists => journal.created = {}
    /\ journal.prev = Predecessor => journal.created \subseteq {Upgrade}

\* The release in place has been served, and has all of its entry points.
CurrentInv ==
    /\ current # Nothing => current \in served
    /\ current \in Dists => entry = Names
    /\ current = Predecessor => OldNames \subseteq entry

InstallInv == TypeOK /\ RunInv /\ JournalInv /\ CurrentInv /\ ServedAreRetained

LEMMA Assumed ==
    /\ Predecessor \notin Dists
    /\ Nothing \notin Dists /\ Nothing # Predecessor
    /\ Upgrade \notin OldNames
    /\ WithSetup \subseteq Dists
BY DistributionInstallAssumption

\* Where each straight step of a run leads (main and recover_transaction).
LEMMA Steps ==
    /\ After["construct"] = "finalize" /\ After["finalize"] = "validate"
    /\ After["validate"] = "receipt" /\ After["receipt"] = "entries"
    /\ After["commit"] = "switch" /\ After["switch"] = "setup"
    /\ After["setup"] = "publish" /\ After["publish"] = "done"
    /\ After["forwardsetup"] = "forwardentries"
    /\ After["forwardentries"] = "forwardreceipt"
    /\ After["forwardreceipt"] = "forwardclean" /\ After["forwardclean"] = "resolve"
    /\ After["backstaging"] = "backrelease" /\ After["backrelease"] = "backtemps"
    /\ After["backtemps"] = "backentries" /\ After["backentries"] = "backroot"
    /\ After["backroot"] = "resolve"
BY DEF After

LEMMA PcList ==
    Pc = {"idle", "classify", "repair", "construct", "finalize", "validate", "receipt",
          "entries", "link", "commit", "switch", "setup", "publish", "done", "recover",
          "resolve", "forwardsetup", "forwardentries", "forwardreceipt", "forwardclean",
          "backstaging", "backrelease", "backtemps", "backentries", "backroot"}
BY DEF Pc, After

JournalVal == [cand : Dists \cup {Nothing}, prev : Releases \cup {Nothing},
               preexisting : BOOLEAN, created : SUBSET Names]
RunVal == [pc : Pc, op : {"install", "upgrade", "recover"},
           cand : Dists \cup {Nothing}, trap : BOOLEAN]

\* A run that moves on keeps its request.
LEMMA GoTyped ==
    ASSUME TypeOK, NEW pc \in Pc, Go(pc)
    PROVE  run' \in RunVal /\ run'.pc = pc /\ run'.cand = run.cand
BY DEF TypeOK, RunVal, Go

LEMMA TrapTyped ==
    ASSUME TypeOK, Trap
    PROVE  run' \in RunVal /\ run'.pc = "recover" /\ run'.cand = run.cand
<1>1. "recover" \in Pc
    BY PcList
<1> QED
    BY <1>1 DEF TypeOK, RunVal, Trap

LEMMA ExitTyped == ASSUME Exit PROVE run' \in RunVal /\ run'.pc = "idle"
<1>1. "idle" \in Pc
    BY PcList
<1> QED
    BY <1>1 DEF RunVal, Exit, Idle

LEMMA GoOnTyped ==
    ASSUME TypeOK, GoOn, run.pc \in Pc \ {"idle", "classify", "repair", "entries", "link", "done", "recover", "resolve"}
    PROVE  run' \in RunVal /\ run'.pc = After[run.pc] /\ run'.cand = run.cand
<1>1. After[run.pc] \in Pc
    BY Steps, PcList
<1>2. Go(After[run.pc])
    BY DEF GoOn
<1> QED
    BY <1>1, <1>2, GoTyped

LEMMA MishapTyped == ASSUME TypeOK, NEW h, Mishap(h) PROVE mishaps' \in 0..MaxMishaps
<1>1. MaxMishaps \in Nat
    BY DistributionInstallAssumption
<1> QED
    BY <1>1 DEF TypeOK, Mishap

LEMMA InitInv == Init => InstallInv
<1> SUFFICES ASSUME Init PROVE InstallInv
    OBVIOUS
<1>1. mishaps \in 0..MaxMishaps
    <2>1. MaxMishaps \in Nat
        BY DistributionInstallAssumption
    <2> QED
        BY <2>1 DEF Init
<1>2. TypeOK
    BY <1>1, PcList DEF Init, TypeOK, Releases, Names, NoJournal, Idle
<1>3. RunInv /\ JournalInv
    BY Assumed DEF Init, RunInv, JournalInv, Idle, NoJournal, Journaled, At, BeforeSwitch, Forward,
           AfterSwitch, Built, Back
<1>4. CurrentInv /\ ServedAreRetained
    BY Assumed DEF Init, CurrentInv, ServedAreRetained, Complete, Releases, Names
<1> QED
    BY <1>2, <1>3, <1>4 DEF InstallInv

\* One disjunct per action.
LEMMA NextSplit ==
    ASSUME [Next]_vars
    PROVE  \/ \E c \in Dists, op \in {"install", "upgrade", "recover"} : Begin(op, c)
           \/ Repair
           \/ Classify
           \/ Construct
           \/ Finalize
           \/ Validate
           \/ PrepareReceipt
           \/ PrepareEntries
           \/ LinkEntry
           \/ PrepareCurrent
           \/ SwitchCurrent
           \/ EnsureSetup
           \/ PublishReceipt
           \/ Resolve
           \/ Recover
           \/ ForwardSetup
           \/ ForwardEntries
           \/ ForwardReceipt
           \/ ForwardClean
           \/ BackStaging
           \/ BackRelease
           \/ BackTemps
           \/ BackEntries
           \/ BackRoot
           \/ Killed
           \/ Fails
           \/ Torn
           \/ Ignored
           \/ UNCHANGED vars
BY DEF Next, Step, Requests

\* The run stays typed: each action moves it on, traps it or ends it.
LEMMA RunStep == ASSUME TypeOK, RunInv, [Next]_vars PROVE run' \in RunVal
<1> USE GoTyped, GoOnTyped, TrapTyped, ExitTyped, PcList DEF At
<1>1. CASE \E c \in Dists, op \in {"install", "upgrade", "recover"} : Begin(op, c)
    BY <1>1 DEF Begin, RunVal, AfterRecovery
<1>2. CASE Repair
    BY <1>2 DEF Repair
<1>3. CASE Classify
    BY <1>3 DEF Classify
<1>4. CASE Construct
    BY <1>4 DEF Construct
<1>5. CASE Finalize
    BY <1>5 DEF Finalize
<1>6. CASE Validate
    BY <1>6 DEF Validate
<1>7. CASE PrepareReceipt
    BY <1>7 DEF PrepareReceipt
<1>8. CASE PrepareEntries
    BY <1>8 DEF PrepareEntries
<1>9. CASE LinkEntry
    BY <1>9 DEF LinkEntry
<1>10. CASE PrepareCurrent
    BY <1>10 DEF PrepareCurrent
<1>11. CASE SwitchCurrent
    BY <1>11 DEF SwitchCurrent
<1>12. CASE EnsureSetup
    BY <1>12 DEF EnsureSetup
<1>13. CASE PublishReceipt
    BY <1>13 DEF PublishReceipt
<1>14. CASE Resolve
    BY <1>14 DEF Resolve, AfterRecovery
<1>15. CASE Recover
    BY <1>15 DEF Recover
<1>16. CASE ForwardSetup
    BY <1>16 DEF ForwardSetup
<1>17. CASE ForwardEntries
    BY <1>17 DEF ForwardEntries, TypeOK, RunVal
<1>18. CASE ForwardReceipt
    BY <1>18 DEF ForwardReceipt
<1>19. CASE ForwardClean
    BY <1>19 DEF ForwardClean
<1>20. CASE BackStaging
    BY <1>20 DEF BackStaging
<1>21. CASE BackRelease
    BY <1>21 DEF BackRelease
<1>22. CASE BackTemps
    BY <1>22 DEF BackTemps
<1>23. CASE BackEntries
    BY <1>23 DEF BackEntries, TypeOK, RunVal
<1>24. CASE BackRoot
    BY <1>24 DEF BackRoot
<1>25. CASE Killed
    BY <1>25 DEF Killed
<1>26. CASE Fails
    BY <1>26 DEF Fails
<1>27. CASE Torn
    BY <1>27 DEF Torn
<1>28. CASE Ignored
    BY <1>28 DEF Ignored, Forward, Back
<1>29. CASE UNCHANGED vars
    BY <1>29 DEF TypeOK, RunVal, vars
<1> QED
    BY NextSplit, <1>1, <1>2, <1>3, <1>4, <1>5, <1>6, <1>7, <1>8, <1>9, <1>10, <1>11, <1>12, <1>13, <1>14, <1>15, <1>16, <1>17, <1>18, <1>19, <1>20, <1>21, <1>22, <1>23, <1>24, <1>25, <1>26, <1>27, <1>28, <1>29

\* So do the files.
LEMMA FilesStep ==
    ASSUME TypeOK, RunInv, [Next]_vars
    PROVE  /\ {root', staging', currentTemp', receiptTemp', torn'} \subseteq BOOLEAN
           /\ release' \in [Releases -> {"absent", "complete", "partial"}]
           /\ current' \in Releases \cup {Nothing}
           /\ entry' \subseteq Names
           /\ {setup', receipt'} \subseteq Dists \cup {Nothing}
           /\ journal' \in JournalVal
           /\ mishaps' \in 0..MaxMishaps
           /\ served' \subseteq Releases
<1> USE DEF TypeOK, JournalVal, At, temps, links, history
<1>1. CASE \E c \in Dists, op \in {"install", "upgrade", "recover"} : Begin(op, c)
    BY <1>1 DEF Begin
<1>2. CASE Repair
    BY <1>2 DEF Repair, RepairedReceipt, Standalone
<1>3. CASE Classify
    <2>1. journal' = journal \/ (\E b \in BOOLEAN :
              journal' = [cand |-> run.cand, prev |-> current, created |-> {}, preexisting |-> b])
        BY <1>3 DEF Classify
    <2>2. run.cand \in Dists
        BY <1>3 DEF Classify, RunInv
    <2>3. journal' \in JournalVal
        BY <2>1, <2>2
    <2> QED
        BY <1>3, <2>3 DEF Classify
<1>4. CASE Construct
    BY <1>4 DEF Construct
<1>5. CASE Finalize
    BY <1>5 DEF Finalize, Releases
<1>6. CASE Validate
    BY <1>6 DEF Validate
<1>7. CASE PrepareReceipt
    BY <1>7 DEF PrepareReceipt
<1>8. CASE PrepareEntries
    BY <1>8 DEF PrepareEntries, PreparedNames, Created
<1>9. CASE LinkEntry
    BY <1>9 DEF LinkEntry
<1>10. CASE PrepareCurrent
    BY <1>10 DEF PrepareCurrent
<1>11. CASE SwitchCurrent
    BY <1>11 DEF SwitchCurrent, RunInv, BeforeSwitch, Releases
<1>12. CASE EnsureSetup
    BY <1>12, Assumed DEF EnsureSetup, NewSetup
<1>13. CASE PublishReceipt
    BY <1>13 DEF PublishReceipt, RunInv
<1>14. CASE Resolve
    BY <1>14 DEF Resolve, NoJournal
<1>15. CASE Recover
    BY <1>15 DEF Recover
<1>16. CASE ForwardSetup
    BY <1>16, Assumed DEF ForwardSetup, NewSetup
<1>17. CASE ForwardEntries
    BY <1>17 DEF ForwardEntries
<1>18. CASE ForwardReceipt
    BY <1>18 DEF ForwardReceipt, RunInv, Forward
<1>19. CASE ForwardClean
    BY <1>19 DEF ForwardClean
<1>20. CASE BackStaging
    BY <1>20 DEF BackStaging
<1>21. CASE BackRelease
    BY <1>21 DEF BackRelease, Releases
<1>22. CASE BackTemps
    BY <1>22 DEF BackTemps
<1>23. CASE BackEntries
    BY <1>23 DEF BackEntries, ToUnlink
<1>24. CASE BackRoot
    BY <1>24 DEF BackRoot
<1>25. CASE Killed
    BY <1>25, MishapTyped DEF Killed
<1>26. CASE Fails
    BY <1>26, MishapTyped DEF Fails
<1>27. CASE Torn
    BY <1>27, MishapTyped DEF Torn
<1>28. CASE Ignored
    BY <1>28, MishapTyped DEF Ignored
<1>29. CASE UNCHANGED vars
    BY <1>29 DEF vars
<1> QED
    BY NextSplit, <1>1, <1>2, <1>3, <1>4, <1>5, <1>6, <1>7, <1>8, <1>9, <1>10, <1>11, <1>12, <1>13, <1>14, <1>15, <1>16, <1>17, <1>18, <1>19, <1>20, <1>21, <1>22, <1>23, <1>24, <1>25, <1>26, <1>27, <1>28, <1>29

\* The run's progress stays true of the files through every action.
LEMMA RunInvStep == ASSUME InstallInv, [Next]_vars PROVE RunInv'
<1> USE GoTyped, GoOnTyped, TrapTyped, ExitTyped, Steps, PcList
    DEF InstallInv, RunInv, At, Complete, BeforeSwitch, AfterSwitch, Built, Forward, Back,
        temps, links, history
<1>1. CASE \E c \in Dists, op \in {"install", "upgrade", "recover"} : Begin(op, c)
    BY <1>1 DEF Begin, AfterRecovery, TypeOK, RunVal
<1>2. CASE Repair
    BY <1>2 DEF Repair
<1>3. CASE Classify
    <2>1. CASE Refused
        BY <1>3, <2>1 DEF Classify
    <2>2. CASE ~Refused
        <3>1. run'.pc = "construct" /\ run'.cand = run.cand
            BY <1>3, <2>2 DEF Classify
        <3>2. /\ journal'.cand = run.cand /\ journal'.prev = current
              /\ journal'.preexisting = (release[run.cand] = "complete")
              /\ release' = release /\ current' = current
            BY <1>3, <2>2 DEF Classify
        <3>3. run.cand \in Dists
            BY <1>3 DEF Classify
        <3>4. run.cand # Nothing
            BY <3>3, Assumed
        <3> QED
            BY <3>1, <3>2, <3>3, <3>4, ZenonT(60)
    <2> QED
        BY <2>1, <2>2
<1>4. CASE Construct
    BY <1>4 DEF Construct
<1>5. CASE Finalize
    <2>1. run'.pc = "validate" /\ run'.cand = run.cand
        BY <1>5 DEF Finalize
    <2>2. run.cand \in Dists /\ run.cand \in DOMAIN release
        BY <1>5 DEF Finalize, TypeOK, Releases
    <2>3. release'[run.cand] = "complete" /\ run.cand # Nothing
        BY <1>5, <2>2, Assumed DEF Finalize
    <2> QED
        BY <1>5, <2>1, <2>2, <2>3 DEF Finalize
<1>6. CASE Validate
    BY <1>6 DEF Validate
<1>7. CASE PrepareReceipt
    BY <1>7 DEF PrepareReceipt
<1>8. CASE PrepareEntries
    <2>1. CASE Names \subseteq entry
        <3>1. entry = Names /\ run'.pc = "commit" /\ run'.cand = run.cand
            BY <1>8, <2>1 DEF PrepareEntries, PreparedNames, TypeOK
        <3> QED
            BY <1>8, <2>1, <3>1 DEF PrepareEntries, PreparedNames
    <2>2. CASE ~(Names \subseteq entry)
        <3>1. run'.pc = "link" /\ run'.cand = run.cand
            BY <1>8, <2>2 DEF PrepareEntries, PreparedNames
        <3>2. journal'.cand = journal.cand /\ journal'.prev = journal.prev
            BY <1>8, <2>2 DEF PrepareEntries, PreparedNames, TypeOK
        <3> QED
            BY <1>8, <3>1, <3>2 DEF PrepareEntries
    <2> QED
        BY <2>1, <2>2
<1>9. CASE LinkEntry
    BY <1>9 DEF LinkEntry
<1>10. CASE PrepareCurrent
    BY <1>10 DEF PrepareCurrent
<1>11. CASE SwitchCurrent
    BY <1>11 DEF SwitchCurrent
<1>12. CASE EnsureSetup
    BY <1>12 DEF EnsureSetup
<1>13. CASE PublishReceipt
    BY <1>13 DEF PublishReceipt
<1>14. CASE Resolve
    BY <1>14 DEF Resolve, AfterRecovery
<1>15. CASE Recover
    BY <1>15 DEF Recover, TypeOK
<1>16. CASE ForwardSetup
    BY <1>16 DEF ForwardSetup
<1>17. CASE ForwardEntries
    BY <1>17 DEF ForwardEntries
<1>18. CASE ForwardReceipt
    BY <1>18 DEF ForwardReceipt
<1>19. CASE ForwardClean
    BY <1>19 DEF ForwardClean
<1>20. CASE BackStaging
    BY <1>20 DEF BackStaging
<1>21. CASE BackRelease
    BY <1>21 DEF BackRelease, TypeOK
<1>22. CASE BackTemps
    BY <1>22 DEF BackTemps
<1>23. CASE BackEntries
    BY <1>23 DEF BackEntries
<1>24. CASE BackRoot
    BY <1>24 DEF BackRoot
<1>25. CASE Killed
    BY <1>25 DEF Killed
<1>26. CASE Fails
    BY <1>26 DEF Fails
<1>27. CASE Torn
    BY <1>27 DEF Torn, TypeOK
<1>28. CASE Ignored
    BY <1>28 DEF Ignored, TypeOK
<1>29. CASE UNCHANGED vars
    BY <1>29 DEF vars
<1> QED
    BY NextSplit, <1>1, <1>2, <1>3, <1>4, <1>5, <1>6, <1>7, <1>8, <1>9, <1>10, <1>11, <1>12, <1>13, <1>14, <1>15, <1>16, <1>17, <1>18, <1>19, <1>20, <1>21, <1>22, <1>23, <1>24, <1>25, <1>26, <1>27, <1>28, <1>29

\* What the journal says stays true.
LEMMA JournalStep == ASSUME InstallInv, [Next]_vars PROVE JournalInv'
<1> USE Assumed
    DEF InstallInv, RunInv, JournalInv, CurrentInv, ServedAreRetained, Journaled, At, Complete,
        BeforeSwitch, Built, Back, temps, links, history, TypeOK
<1>1. CASE \E c \in Dists, op \in {"install", "upgrade", "recover"} : Begin(op, c)
    BY <1>1 DEF Begin
<1>2. CASE Repair
    BY <1>2 DEF Repair
<1>3. CASE Classify
    <2>1. CASE Refused
        BY <1>3, <2>1 DEF Classify
    <2>2. CASE ~Refused
        <3>1. /\ journal'.cand = run.cand /\ journal'.created = {}
              /\ journal'.preexisting = (release[run.cand] = "complete")
            BY <1>3, <2>2 DEF Classify
        <3>2. run.cand \in served => release[run.cand] = "complete"
            OBVIOUS
        <3>3. served' = served
            BY <1>3 DEF Classify
        <3> QED
            BY <3>1, <3>2, <3>3
    <2> QED
        BY <2>1, <2>2
<1>4. CASE Construct
    BY <1>4 DEF Construct
<1>5. CASE Finalize
    BY <1>5 DEF Finalize
<1>6. CASE Validate
    BY <1>6 DEF Validate
<1>7. CASE PrepareReceipt
    BY <1>7 DEF PrepareReceipt
<1>8. CASE PrepareEntries
    BY <1>8 DEF PrepareEntries, PreparedNames, Created, Names
<1>9. CASE LinkEntry
    BY <1>9 DEF LinkEntry
<1>10. CASE PrepareCurrent
    BY <1>10 DEF PrepareCurrent
<1>11. CASE SwitchCurrent
    BY <1>11 DEF SwitchCurrent
<1>12. CASE EnsureSetup
    BY <1>12 DEF EnsureSetup
<1>13. CASE PublishReceipt
    BY <1>13 DEF PublishReceipt
<1>14. CASE Resolve
    BY <1>14 DEF Resolve, NoJournal, Releases
<1>15. CASE Recover
    BY <1>15 DEF Recover
<1>16. CASE ForwardSetup
    BY <1>16 DEF ForwardSetup
<1>17. CASE ForwardEntries
    BY <1>17 DEF ForwardEntries
<1>18. CASE ForwardReceipt
    BY <1>18 DEF ForwardReceipt
<1>19. CASE ForwardClean
    BY <1>19 DEF ForwardClean
<1>20. CASE BackStaging
    BY <1>20 DEF BackStaging
<1>21. CASE BackRelease
    BY <1>21 DEF BackRelease
<1>22. CASE BackTemps
    BY <1>22 DEF BackTemps
<1>23. CASE BackEntries
    BY <1>23 DEF BackEntries
<1>24. CASE BackRoot
    BY <1>24 DEF BackRoot
<1>25. CASE Killed
    BY <1>25 DEF Killed
<1>26. CASE Fails
    BY <1>26 DEF Fails
<1>27. CASE Torn
    BY <1>27 DEF Torn
<1>28. CASE Ignored
    BY <1>28 DEF Ignored
<1>29. CASE UNCHANGED vars
    BY <1>29 DEF vars
<1> QED
    BY NextSplit, <1>1, <1>2, <1>3, <1>4, <1>5, <1>6, <1>7, <1>8, <1>9, <1>10, <1>11, <1>12, <1>13, <1>14, <1>15, <1>16, <1>17, <1>18, <1>19, <1>20, <1>21, <1>22, <1>23, <1>24, <1>25, <1>26, <1>27, <1>28, <1>29

\* What is said of the release in place stays true.
LEMMA CurrentStep == ASSUME InstallInv, [Next]_vars PROVE CurrentInv'
<1> USE Assumed
    DEF InstallInv, RunInv, JournalInv, CurrentInv, At, BeforeSwitch, Back, temps, links, history
<1>1. CASE \E c \in Dists, op \in {"install", "upgrade", "recover"} : Begin(op, c)
    BY <1>1 DEF Begin
<1>2. CASE Repair
    BY <1>2 DEF Repair
<1>3. CASE Classify
    BY <1>3 DEF Classify
<1>4. CASE Construct
    BY <1>4 DEF Construct
<1>5. CASE Finalize
    BY <1>5 DEF Finalize
<1>6. CASE Validate
    BY <1>6 DEF Validate
<1>7. CASE PrepareReceipt
    BY <1>7 DEF PrepareReceipt
<1>8. CASE PrepareEntries
    BY <1>8 DEF PrepareEntries
<1>9. CASE LinkEntry
    BY <1>9 DEF LinkEntry, Names
<1>10. CASE PrepareCurrent
    BY <1>10 DEF PrepareCurrent
<1>11. CASE SwitchCurrent
    BY <1>11 DEF SwitchCurrent
<1>12. CASE EnsureSetup
    BY <1>12 DEF EnsureSetup
<1>13. CASE PublishReceipt
    BY <1>13 DEF PublishReceipt
<1>14. CASE Resolve
    BY <1>14 DEF Resolve
<1>15. CASE Recover
    BY <1>15 DEF Recover
<1>16. CASE ForwardSetup
    BY <1>16 DEF ForwardSetup
<1>17. CASE ForwardEntries
    BY <1>17 DEF ForwardEntries, Names
<1>18. CASE ForwardReceipt
    BY <1>18 DEF ForwardReceipt
<1>19. CASE ForwardClean
    BY <1>19 DEF ForwardClean
<1>20. CASE BackStaging
    BY <1>20 DEF BackStaging
<1>21. CASE BackRelease
    BY <1>21 DEF BackRelease
<1>22. CASE BackTemps
    BY <1>22 DEF BackTemps
<1>23. CASE BackEntries
    BY <1>23 DEF BackEntries, ToUnlink, Journaled, TypeOK
<1>24. CASE BackRoot
    BY <1>24 DEF BackRoot
<1>25. CASE Killed
    BY <1>25 DEF Killed
<1>26. CASE Fails
    BY <1>26 DEF Fails
<1>27. CASE Torn
    BY <1>27 DEF Torn
<1>28. CASE Ignored
    BY <1>28 DEF Ignored
<1>29. CASE UNCHANGED vars
    BY <1>29 DEF vars
<1> QED
    BY NextSplit, <1>1, <1>2, <1>3, <1>4, <1>5, <1>6, <1>7, <1>8, <1>9, <1>10, <1>11, <1>12, <1>13, <1>14, <1>15, <1>16, <1>17, <1>18, <1>19, <1>20, <1>21, <1>22, <1>23, <1>24, <1>25, <1>26, <1>27, <1>28, <1>29

\* No release that has been current is touched.
LEMMA RetainStep == ASSUME InstallInv, [Next]_vars PROVE ServedAreRetained'
<1> USE Assumed
    DEF InstallInv, RunInv, JournalInv, ServedAreRetained, Journaled, At, Complete, Built, Back,
        temps, links, history, TypeOK
<1>1. CASE \E c \in Dists, op \in {"install", "upgrade", "recover"} : Begin(op, c)
    BY <1>1 DEF Begin
<1>2. CASE Repair
    BY <1>2 DEF Repair
<1>3. CASE Classify
    BY <1>3 DEF Classify
<1>4. CASE Construct
    BY <1>4 DEF Construct
<1>5. CASE Finalize
    BY <1>5 DEF Finalize, Releases
<1>6. CASE Validate
    BY <1>6 DEF Validate
<1>7. CASE PrepareReceipt
    BY <1>7 DEF PrepareReceipt
<1>8. CASE PrepareEntries
    BY <1>8 DEF PrepareEntries
<1>9. CASE LinkEntry
    BY <1>9 DEF LinkEntry
<1>10. CASE PrepareCurrent
    BY <1>10 DEF PrepareCurrent
<1>11. CASE SwitchCurrent
    BY <1>11 DEF SwitchCurrent
<1>12. CASE EnsureSetup
    BY <1>12 DEF EnsureSetup
<1>13. CASE PublishReceipt
    BY <1>13 DEF PublishReceipt
<1>14. CASE Resolve
    BY <1>14 DEF Resolve
<1>15. CASE Recover
    BY <1>15 DEF Recover
<1>16. CASE ForwardSetup
    BY <1>16 DEF ForwardSetup
<1>17. CASE ForwardEntries
    BY <1>17 DEF ForwardEntries
<1>18. CASE ForwardReceipt
    BY <1>18 DEF ForwardReceipt
<1>19. CASE ForwardClean
    BY <1>19 DEF ForwardClean
<1>20. CASE BackStaging
    BY <1>20 DEF BackStaging
<1>21. CASE BackRelease
    BY <1>21 DEF BackRelease, Removable
<1>22. CASE BackTemps
    BY <1>22 DEF BackTemps
<1>23. CASE BackEntries
    BY <1>23 DEF BackEntries
<1>24. CASE BackRoot
    BY <1>24 DEF BackRoot
<1>25. CASE Killed
    BY <1>25 DEF Killed
<1>26. CASE Fails
    BY <1>26 DEF Fails
<1>27. CASE Torn
    BY <1>27 DEF Torn, Removable
<1>28. CASE Ignored
    BY <1>28 DEF Ignored, Removable
<1>29. CASE UNCHANGED vars
    BY <1>29 DEF vars
<1> QED
    BY NextSplit, <1>1, <1>2, <1>3, <1>4, <1>5, <1>6, <1>7, <1>8, <1>9, <1>10, <1>11, <1>12, <1>13, <1>14, <1>15, <1>16, <1>17, <1>18, <1>19, <1>20, <1>21, <1>22, <1>23, <1>24, <1>25, <1>26, <1>27, <1>28, <1>29

LEMMA InstallInvStep == InstallInv /\ [Next]_vars => InstallInv'
<1> SUFFICES ASSUME InstallInv, [Next]_vars PROVE InstallInv'
    OBVIOUS
<1>1. TypeOK'
    BY RunStep, FilesStep DEF InstallInv, TypeOK, RunVal, JournalVal
<1> QED
    BY <1>1, RunInvStep, JournalStep, CurrentStep, RetainStep DEF InstallInv

\* The inductive invariant of the installer's transaction and recovery.
THEOREM InstallInvariant == Spec => []InstallInv
BY InitInv, InstallInvStep, PTL DEF Spec

\* The variables of scripts/install.sh stay within their types.
THEOREM InstallTyped == Spec => []TypeOK
<1>1. InstallInv => TypeOK
    BY DEF InstallInv
<1> QED
    BY <1>1, InstallInvariant, PTL

\* DIST-16: recover_transaction never removes a release that has been current.
THEOREM ServedReleasesStay == Spec => []ServedAreRetained
<1>1. InstallInv => ServedAreRetained
    BY DEF InstallInv
<1> QED
    BY <1>1, InstallInvariant, PTL

(***************************************************************************)
(* The refinement: what the commands run is a function of current alone.   *)
(***************************************************************************)
LEMMA RunsOfCurrent == InstallInv => Runs = Switch!Projection(current)
<1> SUFFICES ASSUME InstallInv PROVE Runs = Switch!Projection(current)
    OBVIOUS
<1>1. current \in Dists \cup {Predecessor, Nothing} /\ entry \subseteq Names
    BY DEF InstallInv, TypeOK, Releases
<1>2. current # Nothing => Complete(current)
    BY DEF InstallInv, CurrentInv, ServedAreRetained
<1>3. ASSUME NEW n \in Names
      PROVE  (n \in entry /\ Complete(current) /\ (n = Upgrade => current \in Dists))
                <=> n \in Switch!Commands(current)
    <2>1. CASE current = Nothing
        BY <2>1, Assumed DEF Complete, Switch!Commands
    <2>2. CASE current = Predecessor
        BY <1>2, <1>3, <2>2, Assumed DEF InstallInv, CurrentInv, Names, Switch!Commands
    <2>3. CASE current \in Dists
        BY <1>2, <1>3, <2>3, Assumed
           DEF InstallInv, CurrentInv, Names, Switch!Commands, Switch!Names
    <2> QED
        BY <1>1, <2>1, <2>2, <2>3
<1> QED
    BY <1>3 DEF Runs, Switch!Projection, Names, Switch!Names

LEMMA RunsOfNextCurrent == InstallInv' => Runs' = Switch!Projection(current')
<1>1. (InstallInv => Runs = Switch!Projection(current))'
    BY RunsOfCurrent, PTL
<1> QED
    BY <1>1

LEMMA CurrentMoves ==
    ASSUME InstallInv, [Next]_vars
    PROVE  current' = current \/ current' \in Dists
<1>1. CASE SwitchCurrent
    BY <1>1 DEF SwitchCurrent, InstallInv, RunInv, At
<1>2. CASE ~SwitchCurrent
    BY <1>2 DEF Next, Step, Requests, vars, links, Begin, Repair, Classify, Construct, Finalize, Validate, PrepareReceipt,
           PrepareEntries, LinkEntry, PrepareCurrent, EnsureSetup, PublishReceipt,
           Resolve, Recover, ForwardSetup, ForwardEntries, ForwardReceipt,
           ForwardClean, BackStaging, BackRelease, BackTemps, BackEntries, BackRoot,
           Killed, Fails, Torn, Ignored
<1> QED
    BY <1>1, <1>2

LEMMA InitSwitch == Init => Switch!Init
<1> SUFFICES ASSUME Init PROVE Switch!Init
    OBVIOUS
<1>1. Runs = Switch!Projection(current)
    BY InitInv, RunsOfCurrent
<1> QED
    BY <1>1 DEF Init, Switch!Init

LEMMA StepSwitch ==
    InstallInv /\ InstallInv' /\ [Next]_vars => [Switch!Switch]_Runs
<1> SUFFICES ASSUME InstallInv, InstallInv', [Next]_vars PROVE [Switch!Switch]_Runs
    OBVIOUS
<1>1. Runs = Switch!Projection(current)
    BY RunsOfCurrent
<1>2. Runs' = Switch!Projection(current')
    BY RunsOfNextCurrent
<1> QED
    BY <1>1, <1>2, CurrentMoves DEF Switch!Switch

\* DIST-03: install.sh implements CommandSwitch, whatever fails or dies.
THEOREM CommandsSwitch == Spec => CommandsSwitchAtOnce
BY InitSwitch, StepSwitch, InstallInvariant, PTL DEF Spec, CommandsSwitchAtOnce, Switch!Spec
(***************************************************************************)
(* A journal goes only in a complete state.                                *)
(***************************************************************************)
\* Unless the trap ignored a failure or a removal was cut short: no release is
\* partial, and what the toolkit's root holds is below it.
HousedInv ==
    /\ \A r \in Releases : release[r] # "partial"
    /\ staging \/ currentTemp \/ At("finalize") \/ (\E r \in Releases : release[r] # "absent") => root

\* The setup link names a release that has been current.
SetupLinked == current \in WithSetup => setup # Nothing

\* A journal is there from the decision to install to the last step.
PendingInv ==
    /\ ~At("idle") => (Journaled <=> run.pc \notin {"classify", "repair"})
    /\ Journaled => journal.cand # journal.prev /\ current \in {journal.prev, journal.cand}

\* What the journal calls previous is still all there, beside the traces of
\* the transaction that the journal accounts for.
PreviousInv ==
    Journaled /\ current = journal.prev =>
        /\ current = Nothing =>
              /\ setup = Nothing /\ entry \subseteq journal.created /\ ~journal.preexisting
              /\ \A r \in Releases \ {journal.cand} : release[r] = "absent"
        /\ current = Predecessor => entry \subseteq OldNames \cup journal.created
        /\ current \in Dists => receipt = current /\ SetupLinked

\* The traces a transaction has made so far.
TransactionInv ==
    /\ run.pc \in (BeforeSwitch \cup AfterSwitch) \ {"finalize"} => ~staging
    /\ run.pc \in (BeforeSwitch \cup AfterSwitch) \ {"switch"} => ~currentTemp
    /\ At("link") => ~(journal.created \subseteq entry)
    /\ run.pc \in AfterSwitch => current = run.cand
    /\ run.pc \in {"publish", "done"} => SetupLinked

\* The traces a recovery has already cleared.
RecoveryInv ==
    /\ run.pc \in {"forwardentries", "forwardreceipt", "forwardclean"} => SetupLinked
    /\ At("forwardclean") => receipt = current
    /\ run.pc \in Back \ {"backstaging"} => ~staging
    /\ run.pc \in {"backtemps", "backentries", "backroot"} =>
          journal.preexisting \/ release[journal.cand] = "absent"
    /\ run.pc \in {"backentries", "backroot"} => ~currentTemp /\ ~receiptTemp
    /\ At("backroot") => journal.created \cap entry = {}

EndsInv == run.pc \in {"done", "resolve"} \/ ~Journaled => Converged

TraceInv ==
    /\ HousedInv /\ (setup # Nothing => setup \in served)
    /\ PendingInv /\ PreviousInv /\ TransactionInv /\ RecoveryInv /\ EndsInv

ConvergeInv == InstallInv /\ (torn \/ TraceInv)

LEMMA TraceStep == ASSUME InstallInv, InstallInv', TraceInv, ~torn, ~torn', [Next]_vars PROVE TraceInv'
<1> USE Assumed, GoTyped, GoOnTyped, TrapTyped, ExitTyped, Steps, PcList
    DEF InstallInv, RunInv, JournalInv, CurrentInv, ServedAreRetained, TypeOK, At, Complete, Journaled,
        BeforeSwitch, AfterSwitch, Built, Forward, Back, temps, links, history, Releases, RunVal,
        TraceInv, HousedInv, SetupLinked, PendingInv, PreviousInv, TransactionInv, RecoveryInv,
        EndsInv, Converged, Absent, Recognized, Standalone, SetupValid
<1>1. CASE \E c \in Dists, op \in {"install", "upgrade", "recover"} : Begin(op, c)
    BY <1>1 DEF Begin, AfterRecovery
<1>2. CASE Repair
    BY <1>2 DEF Repair, RepairedReceipt
<1>3. CASE Classify
    <2>1. ~Journaled /\ Converged /\ run.cand \in Dists /\ run'.pc \in {"idle", "construct"}
        BY <1>3 DEF Classify
    <2>2. CASE Refused
        BY <1>3, <2>1, <2>2 DEF Classify
    <2>3. CASE ~Refused
        <3>1. /\ run'.pc = "construct" /\ run'.cand = run.cand
              /\ journal'.cand = run.cand /\ journal'.prev = current /\ journal'.created = {}
              /\ journal'.preexisting = (release[run.cand] = "complete")
              /\ UNCHANGED <<root, release, staging, temps, links, receipt, history>>
            BY <1>3, <2>3 DEF Classify
        <3>2. run.cand # current
            BY <2>1, <2>3 DEF Refused
        <3>3. PreviousInv'
            BY <2>1, <3>1, <3>2
        <3>4. HousedInv' /\ (setup # Nothing => setup \in served)'
            BY <2>1, <3>1
        <3>5. PendingInv' /\ TransactionInv' /\ RecoveryInv' /\ EndsInv'
            BY <2>1, <3>1, <3>2
        <3> QED
            BY <3>3, <3>4, <3>5
    <2> QED
        BY <2>2, <2>3
<1>4. CASE Construct
    BY <1>4 DEF Construct
<1>5. CASE Finalize
    BY <1>5 DEF Finalize
<1>6. CASE Validate
    BY <1>6 DEF Validate
<1>7. CASE PrepareReceipt
    BY <1>7 DEF PrepareReceipt
<1>8. CASE PrepareEntries
    BY <1>8 DEF PrepareEntries, PreparedNames, Created
<1>9. CASE LinkEntry
    BY <1>9 DEF LinkEntry
<1>10. CASE PrepareCurrent
    BY <1>10 DEF PrepareCurrent
<1>11. CASE SwitchCurrent
    BY <1>11 DEF SwitchCurrent
<1>12. CASE EnsureSetup
    BY <1>12 DEF EnsureSetup, NewSetup
<1>13. CASE PublishReceipt
    BY <1>13 DEF PublishReceipt
<1>14. CASE Resolve
    <2>1. Converged /\ run'.pc \in {"idle", "classify", "repair"} /\ journal' = NoJournal
        BY <1>14 DEF Resolve, AfterRecovery
    <2>2. ~Journaled' /\ UNCHANGED <<root, release, staging, temps, links, receipt, history>>
        BY <1>14, <2>1 DEF Resolve, NoJournal
    <2>3. EndsInv' /\ HousedInv' /\ (setup # Nothing => setup \in served)'
        BY <2>1, <2>2
    <2>4. PendingInv' /\ PreviousInv' /\ TransactionInv' /\ RecoveryInv'
        BY <2>1, <2>2
    <2> QED
        BY <2>3, <2>4
<1>15. CASE Recover
    BY <1>15 DEF Recover
<1>16. CASE ForwardSetup
    BY <1>16 DEF ForwardSetup, NewSetup
<1>17. CASE ForwardEntries
    BY <1>17 DEF ForwardEntries
<1>18. CASE ForwardReceipt
    BY <1>18 DEF ForwardReceipt
<1>19. CASE ForwardClean
    BY <1>19 DEF ForwardClean
<1>20. CASE BackStaging
    BY <1>20 DEF BackStaging
<1>21. CASE BackRelease
    BY <1>21 DEF BackRelease, Removable
<1>22. CASE BackTemps
    BY <1>22 DEF BackTemps
<1>23. CASE BackEntries
    BY <1>23 DEF BackEntries, ToUnlink
<1>24. CASE BackRoot
    BY <1>24 DEF BackRoot
<1>25. CASE Killed
    BY <1>25 DEF Killed, Exit, Idle
<1>26. CASE Fails
    BY <1>26 DEF Fails
<1>27. ~Torn /\ ~Ignored
    BY DEF Torn, Ignored
<1>28. CASE UNCHANGED vars
    BY <1>28 DEF vars
<1> QED
    BY NextSplit, <1>1, <1>2, <1>3, <1>4, <1>5, <1>6, <1>7, <1>8, <1>9, <1>10, <1>11, <1>12, <1>13, <1>14, <1>15, <1>16, <1>17, <1>18, <1>19, <1>20, <1>21, <1>22, <1>23, <1>24, <1>25, <1>26, <1>27, <1>28
LEMMA InitTrace == Init => TraceInv
<1> SUFFICES ASSUME Init PROVE TraceInv
    OBVIOUS
<1>1. ~Journaled /\ At("idle") /\ ~staging /\ ~currentTemp /\ ~receiptTemp /\ setup = Nothing
    BY DEF Init, Journaled, NoJournal, Idle, At
<1>2. HousedInv
    BY Assumed DEF Init, HousedInv, Releases, Idle, At
<1>3. Converged
    BY <1>1, <1>2, Assumed
       DEF Init, Converged, HousedInv, Absent, Recognized, Complete, Releases
<1> QED
    BY <1>1, <1>2, <1>3
       DEF TraceInv, PendingInv, PreviousInv, TransactionInv, RecoveryInv, EndsInv,
           BeforeSwitch, AfterSwitch, Back, At

LEMMA ConvergeStep == ConvergeInv /\ [Next]_vars => ConvergeInv'
<1> SUFFICES ASSUME ConvergeInv, [Next]_vars PROVE ConvergeInv'
    OBVIOUS
<1>1. InstallInv /\ InstallInv'
    BY InstallInvStep DEF ConvergeInv
<1>2. torn => torn'
    BY DEF Next, Step, Requests, vars, history, Begin, Repair, Classify, Construct, Finalize,
           Validate, PrepareReceipt, PrepareEntries, LinkEntry, PrepareCurrent, SwitchCurrent,
           EnsureSetup, PublishReceipt, Resolve, Recover, ForwardSetup, ForwardEntries,
           ForwardReceipt, ForwardClean, BackStaging, BackRelease, BackTemps, BackEntries,
           BackRoot, Killed, Fails, Torn, Ignored
<1>3. ~torn /\ ~torn' => TraceInv'
    BY <1>1, TraceStep DEF ConvergeInv
<1> QED
    BY <1>1, <1>2, <1>3 DEF ConvergeInv

\* DIST-05: however often runs fail and die, a journal goes only when the
\* previous distribution or the candidate is complete and nothing else is left,
\* unless a removal was cut short or the trap went on after a failure.
THEOREM JournalsEndInCompleteStates == Spec => []EndConvergedUnlessTorn
<1>1. Init => ConvergeInv
    BY InitInv, InitTrace DEF ConvergeInv
<1>2. ConvergeInv => EndConvergedUnlessTorn
    BY DEF ConvergeInv, TraceInv, EndsInv, EndConvergedUnlessTorn, JournalsEndConverged
<1> QED
    BY <1>1, <1>2, ConvergeStep, PTL DEF Spec
=============================================================================
