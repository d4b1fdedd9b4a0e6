---------------------------- MODULE ConsoleProofs ----------------------------
(***************************************************************************)
(* Theorems about Console, for any number of mutations, refreshes, edits   *)
(* and changes by others: an instance that is refused is released, what is *)
(* saved and shown is not older than it claims, and what the wizard        *)
(* creates is what its operator looks at.                                  *)
(***************************************************************************)
EXTENDS Console, TLAPS

Op == {"change", "access", "save", "create", "deploy"}
WorkerVal ==
    [pc : Pc, op : Op \cup {None}, expected : Nat, edited : Nat, base : Nat, ok : BOOLEAN,
     event : Workers \cup {None}]
ReadingVal == [gen : Nat, summary : Nat \cup {None}]
ReadVal == [gen : Nat, summary : Nat, declaration : Nat]
ShownVal == [summary : Nat, declaration : Nat]
CandidateVal == [expected : Nat, edited : Nat, base : Nat]
RequestVal == [kind : {"candidate", "review"}, intent : Nat, gen : Nat]

(***************************************************************************)
(* The types of the variables.                                             *)
(***************************************************************************)
WizardTyped ==
    /\ open \in BOOLEAN /\ reviewing \in BOOLEAN /\ offered \in BOOLEAN
    /\ intent \in Nat /\ wgen \in Nat
    /\ asked # None => asked \in RequestVal
    /\ \A a \in late : a.request \in RequestVal
ManagerTyped ==
    /\ history \in Seq(Contents) /\ running \subseteq Workers
    /\ worker \in [Workers -> WorkerVal]
AuthorityTyped == busy \in BOOLEAN /\ uncertain \in BOOLEAN /\ pending \in Workers \cup {None}
ScreenTyped ==
    /\ gen \in Nat
    /\ reading # None => reading \in ReadingVal
    /\ read \subseteq ReadVal
    /\ shown # None => shown \in ShownVal
    /\ draft # None => draft \in ShownVal
    /\ previewing \in BOOLEAN /\ (previewing => draft # None)
    /\ previewed \subseteq CandidateVal

TypeInv == WizardTyped /\ ManagerTyped /\ AuthorityTyped /\ ScreenTyped

(***************************************************************************)
(* Who lets a refused instance go: a thread that still reports its outcome *)
(* to the event loop, or the next refresh.  A thread whose process did not *)
(* start is dead, and reports nothing.                                     *)
(***************************************************************************)
Reporting == {"started", "calling", "unknown", "succeeded", "failed", "dead"}
ReleaseInv == busy => uncertain \/ \E w \in Workers : worker[w].pc \in Reporting

(***************************************************************************)
(* What is read, shown and edited is ordered: a summary is not newer than  *)
(* the declaration read after it, nor that than the registry's.            *)
(***************************************************************************)
ReadingInOrder == reading # None /\ reading.summary # None => reading.summary <= version
ReadInOrder == \A r \in read : r.summary <= r.declaration /\ r.declaration <= version
ShownInOrder ==
    shown # None => shown.summary <= shown.declaration /\ shown.declaration <= version
DraftInOrder ==
    draft # None => draft.summary <= draft.declaration /\ draft.declaration <= version
InOrder(save) == save.expected <= save.edited /\ save.edited <= save.base /\ save.base <= version
SavesInOrder ==
    /\ \A p \in previewed : InOrder(p)
    /\ \A w \in Workers : worker[w].op = "save" => InOrder(worker[w])
OrderInv == ReadingInOrder /\ ReadInOrder /\ ShownInOrder /\ DraftInOrder /\ SavesInOrder

(***************************************************************************)
(* There is one refresh of the current generation, and it read the summary *)
(* after the refresh that is shown.                                        *)
(***************************************************************************)
NotOlder(n) == shown # None => n >= shown.summary
ScreenInv ==
    /\ reading # None =>
        /\ reading.gen = gen
        /\ reading.summary # None => NotOlder(reading.summary)
    /\ \A r \in read : r.gen <= gen
    /\ \A r \in read : r.gen = gen => reading = None /\ NotOlder(r.summary)
    /\ \A r, q \in read : r.gen = gen /\ q.gen = gen => r = q

(***************************************************************************)
(* The answer to a candidate request is accepted only while nothing is     *)
(* previewed, and no review of the same edits can still arrive by then.    *)
(***************************************************************************)
Asking == (IF asked = None THEN {} ELSE {asked}) \cup {a.request : a \in late}
IsCandidate(q) == q.kind = "candidate" /\ q.gen = wgen
PreviewInv ==
    /\ preview # None => candidate = preview
    /\ \A q \in Asking : q.intent <= intent /\ q.gen <= wgen
    /\ \A q \in Asking : IsCandidate(q) =>
        /\ preview = None
        /\ \A p \in Asking : p.kind = "review" => p.intent < intent

ConsoleInv == TypeInv /\ ReleaseInv /\ OrderInv /\ ScreenInv /\ PreviewInv

\* The steps of the settings screen, and the one that starts a save.
SettingsStep ==
    \/ EditSettings \/ SavePressed \/ ReadCandidate \/ PreviewFails \/ CancelSettings
    \/ \E p \in previewed : SaveRefused(p)
SaveStarts(w) == \E p \in previewed : SaveSettings(w, p)

(***************************************************************************)
(* Types.                                                                  *)
(***************************************************************************)
LEMMA RequestsAreTyped ==
    ASSUME NEW k \in {"candidate", "review"}, NEW i \in Nat, NEW g \in Nat
    PROVE  /\ Request(k, i, g) \in RequestVal
           /\ Request(k, i, g) = [kind |-> k, intent |-> i, gen |-> g]
  BY DEF Request, RequestVal

LEMMA InitTyped == Init => TypeInv
  <1> SUFFICES ASSUME Init PROVE TypeInv
    OBVIOUS
  <1>1. WizardTyped
    BY RequestsAreTyped DEF Init, WizardInit, WizardTyped
  <1>2. ManagerTyped
    <2>1. history \in Seq(Contents)
      <3>1. CASE history = <<>>
        BY <3>1
      <3>2. ASSUME NEW c \in Contents, history = <<c>> PROVE history \in Seq(Contents)
        BY <3>2
      <3> QED BY <3>1, <3>2 DEF Init
    <2> QED BY <2>1 DEF Init, Unborn, ManagerTyped, WorkerVal, Pc
  <1>3. AuthorityTyped /\ ScreenTyped
    BY DEF Init, AuthorityTyped, ScreenTyped
  <1> QED BY <1>1, <1>2, <1>3 DEF TypeInv

\* What the wizard's own steps do to its variables.
LEMMA WizardStepTyped ==
    ASSUME TypeInv, WizardStep
    PROVE  WizardTyped'
  <1> USE DEF TypeInv, WizardTyped, ForgetReview
  <1>1. ASSUME NEW i \in Nat, RequestCandidate(i)
        PROVE  intent' \in Nat /\ wgen' \in Nat /\ asked' \in RequestVal /\ offered' \in BOOLEAN
    <2>1. offered' \in BOOLEAN
      BY <1>1, Zenon DEF RequestCandidate
    <2>2. wgen + 1 \in Nat
      OBVIOUS
    <2> QED BY <1>1, <2>1, <2>2, RequestsAreTyped DEF RequestCandidate
  <1>2. CASE Edit
    <2>1. intent + 1 \in Nat /\ RequestCandidate(intent + 1)
      BY <1>2 DEF Edit
    <2> QED BY <1>1, <1>2, <2>1 DEF Edit
  <1>3. CASE Review
    <2>1. PICK i \in Nat : intent' = i /\ wgen' = wgen + 1 /\ asked' = Request("review", i, wgen + 1)
      BY <1>3 DEF Review
    <2>2. asked' \in RequestVal
      BY <2>1, RequestsAreTyped
    <2>3. reviewing' \in BOOLEAN /\ offered' \in BOOLEAN
      BY <1>3, Zenon DEF Review
    <2> QED BY <1>3, <2>1, <2>2, <2>3 DEF Review
  <1>4. CASE Back BY <1>4 DEF Back
  <1>5. CASE Answered BY <1>5 DEF Answered
  <1>6. ASSUME NEW a \in late, CandidateArrives(a) PROVE WizardTyped'
    <2>1. CASE UNCHANGED <<intent, wgen, asked, offered>>
      BY <1>6, <2>1 DEF CandidateArrives
    <2>2. CASE RequestCandidate(intent + 1)
      <3>1. intent + 1 \in Nat
        OBVIOUS
      <3> QED BY <1>1, <1>6, <2>2, <3>1 DEF CandidateArrives
    <2> QED BY <1>6, <2>1, <2>2 DEF CandidateArrives
  <1>7. ASSUME NEW a \in late, ReviewArrives(a) PROVE WizardTyped'
    <2>1. offered' \in BOOLEAN
      BY <1>7 DEF ReviewArrives
    <2> QED BY <1>7, <2>1 DEF ReviewArrives
  <1> QED BY <1>2, <1>3, <1>4, <1>5, <1>6, <1>7 DEF WizardStep

LEMMA WizardLeft == LeaveWizard => WizardTyped'
  <1> SUFFICES ASSUME LeaveWizard PROVE WizardTyped'
    OBVIOUS
  <1>1. open' \in BOOLEAN /\ reviewing' \in BOOLEAN /\ offered' \in BOOLEAN
    BY Zenon DEF LeaveWizard, ForgetReview
  <1>2. intent' \in Nat /\ wgen' \in Nat /\ asked' = None /\ late' = {}
    BY DEF LeaveWizard
  <1> QED BY <1>1, <1>2 DEF WizardTyped

\* The ways in which a worker changes.
LEMMA WorkersTyped ==
    ASSUME worker \in [Workers -> WorkerVal], NEW w \in Workers
    PROVE  /\ \A pc \in Pc : Become(w, pc) => worker' \in [Workers -> WorkerVal]
           /\ End(w) => worker' \in [Workers -> WorkerVal]
           /\ \A op \in Op, expected, edited, base \in Nat :
                Given(w, op, expected, edited, base) => worker' \in [Workers -> WorkerVal]
           /\ \A e \in Workers \cup {None} :
                [worker EXCEPT ![w].pc = "awaiting", ![w].event = e] \in [Workers -> WorkerVal]
           /\ [worker EXCEPT ![w].ok = TRUE] \in [Workers -> WorkerVal]
           /\ [worker EXCEPT ![w].pc = "started", ![w].op = "deploy", ![w].ok = FALSE]
                \in [Workers -> WorkerVal]
  <1>1. worker[w] \in WorkerVal
    OBVIOUS
  <1>2. ASSUME NEW pc \in Pc, Become(w, pc) PROVE worker' \in [Workers -> WorkerVal]
    <2>1. [worker[w] EXCEPT !.pc = pc] \in WorkerVal
      BY <1>1 DEF WorkerVal
    <2> QED BY <1>2, <2>1 DEF Become
  <1>3. ASSUME End(w) PROVE worker' \in [Workers -> WorkerVal]
    <2>1. Over \in WorkerVal
      BY DEF Over, Unborn, WorkerVal, Pc
    <2> QED BY <1>3, <2>1 DEF End
  <1>4. ASSUME NEW op \in Op, NEW expected \in Nat, NEW edited \in Nat, NEW base \in Nat,
               Given(w, op, expected, edited, base)
        PROVE  worker' \in [Workers -> WorkerVal]
    <2>1. [Unborn EXCEPT !.pc = "started", !.op = op, !.expected = expected, !.edited = edited,
                         !.base = base] \in WorkerVal
      BY DEF Unborn, WorkerVal, Pc
    <2> QED BY <1>4, <2>1 DEF Given
  <1>5. ASSUME NEW e \in Workers \cup {None}
        PROVE  [worker EXCEPT ![w].pc = "awaiting", ![w].event = e] \in [Workers -> WorkerVal]
    <2>1. [worker[w] EXCEPT !.pc = "awaiting", !.event = e] \in WorkerVal
      BY <1>1 DEF WorkerVal, Pc
    <2> QED BY <2>1
  <1>6. [worker EXCEPT ![w].ok = TRUE] \in [Workers -> WorkerVal]
    <2>1. [worker[w] EXCEPT !.ok = TRUE] \in WorkerVal
      BY <1>1 DEF WorkerVal
    <2> QED BY <2>1
  <1>7. [worker EXCEPT ![w].pc = "started", ![w].op = "deploy", ![w].ok = FALSE] \in [Workers -> WorkerVal]
    <2>1. [worker[w] EXCEPT !.pc = "started", !.op = "deploy", !.ok = FALSE] \in WorkerVal
      BY <1>1 DEF WorkerVal, Pc, Op
    <2> QED BY <2>1
  <1> QED BY <1>2, <1>3, <1>4, <1>5, <1>6, <1>7

\* The registry's history grows by one declaration at most.
LEMMA WrittenTyped ==
    ASSUME history \in Seq(Contents), NEW c \in Contents, Written(c)
    PROVE  history' \in Seq(Contents) /\ version \in Nat /\ version' \in {version, version + 1}
  <1>1. CASE history' = history
    BY <1>1 DEF version
  <1>2. CASE history' = Append(history, c)
    BY <1>2 DEF version
  <1> QED BY <1>1, <1>2 DEF Written

LEMMA NextTyped == TypeInv /\ [Next]_vars => TypeInv'
  <1> SUFFICES ASSUME TypeInv, [Next]_vars PROVE TypeInv'
    OBVIOUS
  <1> USE DEF TypeInv, WizardTyped, ManagerTyped, AuthorityTyped, ScreenTyped,
              wizard, manager, authority, projection, settings
  <1>8. version \in Nat
    BY DEF version
  <1>1. CASE UNCHANGED vars
    BY <1>1 DEF vars
  <1>2. CASE InWizard
    BY <1>2, WizardStepTyped DEF InWizard
  <1>3. CASE RefreshPressed
    BY <1>3 DEF RefreshPressed, Refresh, ReadingVal, ReadVal, ShownVal, CandidateVal
  <1>4. CASE ReadSummary
    BY <1>4, <1>8 DEF ReadSummary, ReadingVal, ReadVal, ShownVal, CandidateVal
  <1>5. CASE ReadRest
    BY <1>5, <1>8 DEF ReadRest, Seen, ReadingVal, ReadVal, ShownVal, CandidateVal
  <1>6. CASE ReadFails
    BY <1>6 DEF ReadFails, ReadingVal, ReadVal, ShownVal, CandidateVal
  <1>7. CASE SettingsStep
    <2>2. CASE ReadCandidate
      <3>1. Candidate \in CandidateVal
        BY <1>8, <2>2 DEF ReadCandidate, Candidate, CandidateVal, ShownVal
      <3> QED BY <2>2, <3>1 DEF ReadCandidate
    <2>3. CASE EditSettings \/ SavePressed \/ PreviewFails \/ CancelSettings
      <3>1. UNCHANGED <<wizard, manager, authority, worker, projection, previewed>>
        BY <2>3 DEF EditSettings, SavePressed, PreviewFails, CancelSettings
      <3>2. /\ draft' \in {draft, shown, None} /\ previewing' \in BOOLEAN
            /\ previewing' => draft' # None
        BY <2>3 DEF EditSettings, SavePressed, PreviewFails, CancelSettings, CloseSettings, OnInstance
      <3> QED BY <3>1, <3>2
    <2>4. ASSUME NEW p \in previewed, SaveRefused(p) PROVE TypeInv'
      BY <2>4 DEF SaveRefused
    <2> QED BY <1>7, <2>2, <2>3, <2>4 DEF SettingsStep
  <1>9. CASE ChangedElsewhere
    BY <1>9, WrittenTyped DEF ChangedElsewhere
  <1>10. CASE OpenInstance
    BY <1>10, WizardLeft DEF OpenInstance, Refresh, ReadingVal, ReadVal, ShownVal, CandidateVal
  <1>11. ASSUME NEW r \in read, ApplyRefresh(r) PROVE TypeInv'
    <2>1. AuthorityTyped'
      BY <1>11 DEF ApplyRefresh
    <2>2. shown' # None => shown' \in ShownVal
      BY <1>11 DEF ApplyRefresh, ReadVal, ShownVal
    <2> QED BY <1>11, <2>1, <2>2 DEF ApplyRefresh
  <1>12. ASSUME NEW w \in Workers,
                Change(w) \/ EditAccess(w) \/ SaveStarts(w) \/ StartCreate(w) \/ Thread(w)
         PROVE  TypeInv'
    <2>1. CASE Change(w) \/ EditAccess(w) \/ SaveStarts(w) \/ StartCreate(w)
      <3>1. shown # None => shown.summary \in Nat
        BY DEF ShownVal
      <3>2. \A p \in previewed : p.expected \in Nat /\ p.edited \in Nat /\ p.base \in Nat
        BY DEF CandidateVal
      <3>3. worker' \in [Workers -> WorkerVal]
        BY <2>1, <3>1, <3>2, WorkersTyped DEF Change, EditAccess, SaveStarts, SaveSettings,
           StartMutation, StartCreate, Op
      <3>4. CASE Change(w) \/ EditAccess(w) \/ StartCreate(w)
        <4>1. UNCHANGED <<wizard, manager, uncertain, pending, projection, settings>> /\ busy' = TRUE
          BY <3>4 DEF Change, EditAccess, StartMutation, StartCreate
        <4> QED BY <3>3, <4>1
      <3>5. ASSUME NEW p \in previewed, SaveSettings(w, p) PROVE TypeInv'
        BY <3>3, <3>5 DEF SaveSettings, StartMutation
      <3> QED BY <2>1, <3>4, <3>5 DEF SaveStarts
    <2>2. CASE Invalid(w) \/ Launch(w) \/ LaunchFails(w) \/ Answer(w)
      <3>1. worker' \in [Workers -> WorkerVal]
        BY <2>2, WorkersTyped DEF Invalid, Launch, LaunchFails, Answer, Pc
      <3> QED BY <2>2, <3>1 DEF Invalid, Launch, LaunchFails, Answer
    <2>3. CASE ProcessEnds(w)
      <3>1. worker' = worker \/ worker' = [worker EXCEPT ![w].ok = TRUE]
        BY <2>3 DEF ProcessEnds
      <3>2. [worker EXCEPT ![w].ok = TRUE] \in [Workers -> WorkerVal]
        BY WorkersTyped
      <3>3. worker' \in [Workers -> WorkerVal]
        BY <3>1, <3>2
      <3>4. history' \in Seq(Contents)
        BY <2>3, WrittenTyped DEF ProcessEnds
      <3> QED BY <2>3, <3>3, <3>4 DEF ProcessEnds
    <2>4. CASE TimedOut(w) \/ MarkUnknown(w) \/ Awaited(w)
      <3>1. worker' \in [Workers -> WorkerVal]
        BY <2>4, WorkersTyped DEF TimedOut, MarkUnknown, Awaited, Pc
      <3>2. pending' \in Workers \cup {None}
        BY <2>4 DEF TimedOut, MarkUnknown, Awaited
      <3>3. uncertain' \in BOOLEAN /\ busy' = busy
        BY <2>4, Zenon DEF TimedOut, MarkUnknown, Awaited
      <3>4. UNCHANGED <<wizard, manager, projection, settings>>
        BY <2>4 DEF TimedOut, MarkUnknown, Awaited
      <3> QED BY <3>1, <3>2, <3>3, <3>4
    <2>5. CASE Await(w)
      <3>1. worker' \in [Workers -> WorkerVal]
        BY <2>5, WorkersTyped DEF Await
      <3> QED BY <2>5, <3>1 DEF Await
    <2>6. CASE Deploy(w)
      <3>1. worker' \in [Workers -> WorkerVal]
        BY <2>6, WorkersTyped DEF Deploy
      <3> QED BY <2>6, <3>1 DEF Deploy
    <2>7. CASE Resolved(w) \/ ResolutionFailed(w) \/ Succeeded(w) \/ Failed(w) \/ CreateFinished(w)
      <3>1. worker' \in [Workers -> WorkerVal]
        BY <2>7, WorkersTyped DEF Resolved, ResolutionFailed, Succeeded, Failed, CreateFinished
      <3>2. gen' \in Nat /\ (reading' # None => reading' \in ReadingVal)
        BY <2>7 DEF Resolved, ResolutionFailed, Succeeded, Failed, CreateFinished,
           RefreshCurrent, Refresh, NoRefresh, ReadingVal
      <3>3. CASE CreateFinished(w)
        BY <3>1, <3>2, <3>3, WizardLeft DEF CreateFinished, CloseSettings
      <3>4. CASE Resolved(w) \/ Succeeded(w)
        <4>1. AuthorityTyped'
          BY <3>4 DEF Resolved, Succeeded
        <4>2. UNCHANGED settings \/ (CloseSettings /\ UNCHANGED previewed)
          BY <3>4 DEF Resolved, Succeeded
        <4>3. ScreenTyped'
          <5>1. UNCHANGED <<read, shown>>
            BY <3>4 DEF Resolved, Succeeded
          <5>2. CASE UNCHANGED settings
            BY <3>2, <5>1, <5>2
          <5>3. CASE CloseSettings /\ UNCHANGED previewed
            BY <3>2, <5>1, <5>3 DEF CloseSettings
          <5> QED BY <4>2, <5>2, <5>3
        <4>4. UNCHANGED <<wizard, manager>>
          BY <3>4 DEF Resolved, Succeeded
        <4> QED BY <3>1, <3>2, <4>1, <4>3, <4>4
      <3>5. CASE ResolutionFailed(w) \/ Failed(w)
        <4>1. UNCHANGED <<wizard, manager, uncertain, pending, projection, settings>> /\ busy' \in BOOLEAN
          BY <3>5 DEF ResolutionFailed, Failed
        <4> QED BY <3>1, <4>1
      <3> QED BY <2>7, <3>3, <3>4, <3>5
    <2> QED BY <1>12, <2>1, <2>2, <2>3, <2>4, <2>5, <2>6, <2>7 DEF Thread
  <1> QED BY <1>1, <1>2, <1>3, <1>4, <1>5, <1>6, <1>7, <1>9, <1>10, <1>11, <1>12
          DEF Next, SettingsStep, SaveStarts

(***************************************************************************)
(* An instance that is refused is released.                                *)
(***************************************************************************)
LEMMA InitReleased == Init => ReleaseInv
  BY DEF Init, ReleaseInv

LEMMA NextReleased == TypeInv /\ ReleaseInv /\ [Next]_vars => ReleaseInv'
  <1> SUFFICES ASSUME TypeInv, ReleaseInv, [Next]_vars PROVE ReleaseInv'
    OBVIOUS
  <1>1. worker \in [Workers -> WorkerVal]
    BY DEF TypeInv, ManagerTyped
  <1>2. CASE UNCHANGED <<busy, uncertain, worker>>
    BY <1>2 DEF ReleaseInv
  <1>3. CASE ~busy' \/ uncertain'
    BY <1>3 DEF ReleaseInv
  <1>4. CASE \E w \in Workers : worker'[w].pc \in Reporting
    BY <1>4 DEF ReleaseInv
  <1>5. ASSUME NEW w \in Workers, worker[w].pc \notin Reporting, UNCHANGED <<busy, uncertain>>,
               \A v \in Workers \ {w} : worker'[v] = worker[v]
        PROVE  ReleaseInv'
    BY <1>5 DEF ReleaseInv
  <1>6. CASE UNCHANGED vars \/ InWizard \/ OpenInstance \/ RefreshPressed \/ ReadSummary \/ ReadRest
             \/ ReadFails \/ SettingsStep \/ ChangedElsewhere
    BY <1>2, <1>6 DEF SettingsStep, vars, authority, InWizard, OpenInstance, RefreshPressed,
       ReadSummary, ReadRest, ReadFails, EditSettings, SavePressed, ReadCandidate, PreviewFails,
       SaveRefused, CancelSettings, ChangedElsewhere
  <1>7. ASSUME NEW r \in read, ApplyRefresh(r) PROVE ReleaseInv'
    BY <1>2, <1>3, <1>7 DEF ApplyRefresh, authority
  <1>8. ASSUME NEW w \in Workers,
               Change(w) \/ EditAccess(w) \/ SaveStarts(w) \/ StartCreate(w) \/ Thread(w)
        PROVE  ReleaseInv'
    <2>1. CASE Change(w) \/ EditAccess(w) \/ SaveStarts(w) \/ StartCreate(w)
      <3>1. worker'[w].pc = "started"
        BY <1>1, <2>1 DEF Change, EditAccess, SaveStarts, SaveSettings, StartCreate,
           StartMutation, Given, Unborn
      <3> QED BY <1>4, <3>1 DEF Reporting
    <2>2. CASE Invalid(w) \/ Launch(w) \/ LaunchFails(w) \/ Answer(w) \/ TimedOut(w) \/ Deploy(w)
      <3>1. worker'[w].pc \in Reporting
        BY <1>1, <2>2 DEF Invalid, Launch, LaunchFails, Answer, TimedOut, Deploy, Become,
           WorkerVal, Reporting
      <3> QED BY <1>4, <3>1
    <2>3. CASE ProcessEnds(w)
      <3>1. worker' = worker \/ worker' = [worker EXCEPT ![w].ok = TRUE]
        BY <2>3 DEF ProcessEnds
      <3>2. \A v \in Workers : worker'[v].pc = worker[v].pc
        BY <1>1, <3>1 DEF WorkerVal
      <3> QED BY <2>3, <3>2 DEF ProcessEnds, authority, ReleaseInv
    <2>4. CASE MarkUnknown(w)
      BY <1>3, <2>4 DEF MarkUnknown
    <2>5. CASE Await(w) \/ Awaited(w) \/ ResolutionFailed(w)
      <3>1. worker[w].pc \notin Reporting /\ UNCHANGED <<busy, uncertain>>
        BY <2>5 DEF Await, Awaited, ResolutionFailed, Reporting, authority
      <3>2. \A v \in Workers \ {w} : worker'[v] = worker[v]
        BY <1>1, <2>5 DEF Await, Awaited, ResolutionFailed, Become, End
      <3> QED BY <1>5, <3>1, <3>2
    <2>6. CASE Resolved(w) \/ Succeeded(w) \/ Failed(w) \/ CreateFinished(w)
      BY <1>3, <2>6 DEF Resolved, Succeeded, Failed, CreateFinished
    <2> QED BY <1>8, <2>1, <2>2, <2>3, <2>4, <2>5, <2>6 DEF Thread
  <1> QED BY <1>6, <1>7, <1>8 DEF Next, SettingsStep, SaveStarts

(***************************************************************************)
(* What is saved is saved over what it was edited from.                    *)
(***************************************************************************)
LEMMA HistoryChanges ==
    Next => \/ UNCHANGED history
            \/ \E w \in Workers : ProcessEnds(w)
            \/ ChangedElsewhere
  BY DEF Next, Thread, InWizard, OpenInstance, RefreshPressed, ReadSummary, ReadRest, ReadFails,
     ApplyRefresh, EditSettings, SavePressed, ReadCandidate, PreviewFails, SaveRefused,
     CancelSettings, Change, EditAccess, SaveSettings, StartMutation, StartCreate, Invalid,
     Launch, LaunchFails, Answer, TimedOut, MarkUnknown, Await, Awaited, Resolved,
     ResolutionFailed, Succeeded, Failed, Deploy, CreateFinished, manager

LEMMA VersionGrows ==
    TypeInv /\ [Next]_vars =>
        /\ version \in Nat /\ version' \in Nat /\ version <= version'
        /\ history' = history => version' = version
  <1> SUFFICES ASSUME TypeInv, [Next]_vars
               PROVE  /\ version \in Nat /\ version' \in Nat /\ version <= version'
                      /\ history' = history => version' = version
    OBVIOUS
  <1>1. history \in Seq(Contents) /\ version \in Nat
    BY DEF TypeInv, ManagerTyped, version
  <1>2. CASE UNCHANGED history
    BY <1>1, <1>2 DEF version
  <1>3. ASSUME NEW c \in Contents, Written(c)
        PROVE  version' \in Nat /\ version <= version' /\ (history' = history => version' = version)
    <2>1. version' \in {version, version + 1}
      BY <1>1, <1>3, WrittenTyped
    <2>2. history' = history => version' = version
      BY DEF version
    <2> QED BY <1>1, <2>1, <2>2
  <1>4. CASE UNCHANGED vars
    BY <1>2, <1>4 DEF vars, manager
  <1>5. ASSUME NEW w \in Workers, ProcessEnds(w)
        PROVE  UNCHANGED history \/ \E c \in Contents : Written(c)
    BY <1>5 DEF ProcessEnds
  <1>6. CASE Next
    BY <1>1, <1>2, <1>3, <1>5, <1>6, HistoryChanges DEF ChangedElsewhere
  <1> QED BY <1>4, <1>6

\* Only the steps named change what is read, shown and edited.  A new refresh
\* has a generation of its own and starts without a summary.
LEMMA ReadingChanges ==
    Next => \/ gen' = gen /\ (reading' = reading \/ reading' = None \/ ReadSummary)
            \/ gen' = gen + 1 /\ reading' = [gen |-> gen + 1, summary |-> None]
  BY DEF Next, Thread, InWizard, OpenInstance, RefreshPressed, ReadSummary, ReadRest, ReadFails,
     ApplyRefresh, EditSettings, SavePressed, ReadCandidate, PreviewFails, SaveRefused,
     CancelSettings, ChangedElsewhere, Change, EditAccess, SaveStarts, SaveSettings,
     StartMutation, StartCreate, Invalid, Launch, LaunchFails, ProcessEnds, Answer, TimedOut,
     MarkUnknown, Await, Awaited, Resolved, RefreshCurrent, ResolutionFailed, Succeeded, Failed,
     Deploy, CreateFinished, Refresh, NoRefresh, projection

LEMMA ReadChanges == Next => read' \subseteq read \/ ReadRest
  BY DEF Next, Thread, InWizard, OpenInstance, RefreshPressed, ReadSummary, ReadFails,
     ApplyRefresh, EditSettings, SavePressed, ReadCandidate, PreviewFails, SaveRefused,
     CancelSettings, ChangedElsewhere, Change, EditAccess, SaveStarts, SaveSettings,
     StartMutation, StartCreate, Invalid, Launch, LaunchFails, ProcessEnds, Answer, TimedOut,
     MarkUnknown, Await, Awaited, Resolved, ResolutionFailed, Succeeded, Failed, Deploy,
     CreateFinished, projection

LEMMA ShownChanges ==
    Next => shown' = shown \/ shown' = None \/ \E r \in read : IsCurrent(r) /\ ApplyRefresh(r)
  BY DEF Next, Thread, InWizard, OpenInstance, RefreshPressed, ReadSummary, ReadRest, ReadFails,
     ApplyRefresh, EditSettings, SavePressed, ReadCandidate, PreviewFails, SaveRefused,
     CancelSettings, ChangedElsewhere, Change, EditAccess, SaveStarts, SaveSettings,
     StartMutation, StartCreate, Invalid, Launch, LaunchFails, ProcessEnds, Answer, TimedOut,
     MarkUnknown, Await, Awaited, Resolved, ResolutionFailed, Succeeded, Failed, Deploy,
     CreateFinished, projection

LEMMA DraftChanges ==
    Next => /\ draft' = draft \/ draft' = None \/ EditSettings
            /\ previewed' \subseteq previewed \/ ReadCandidate
  <1>1. Next => draft' = draft \/ draft' = None \/ EditSettings
    BY DEF Next, Thread, InWizard, OpenInstance, RefreshPressed, ReadSummary, ReadRest, ReadFails,
       ApplyRefresh, SavePressed, ReadCandidate, PreviewFails, SaveRefused, CancelSettings,
       ChangedElsewhere, Change, EditAccess, SaveStarts, SaveSettings, StartMutation, StartCreate,
       Invalid, Launch, LaunchFails, ProcessEnds, Answer, TimedOut, MarkUnknown, Await, Awaited,
       Resolved, ResolutionFailed, Succeeded, Failed, Deploy, CreateFinished, CloseSettings,
       settings
  <1>2. Next => previewed' \subseteq previewed \/ ReadCandidate
    BY DEF Next, Thread, InWizard, OpenInstance, RefreshPressed, ReadSummary, ReadRest, ReadFails,
       ApplyRefresh, SavePressed, EditSettings, PreviewFails, SaveRefused, CancelSettings,
       ChangedElsewhere, Change, EditAccess, SaveStarts, SaveSettings, StartMutation, StartCreate,
       Invalid, Launch, LaunchFails, ProcessEnds, Answer, TimedOut, MarkUnknown, Await, Awaited,
       Resolved, ResolutionFailed, Succeeded, Failed, Deploy, CreateFinished, CloseSettings,
       settings
  <1> QED BY <1>1, <1>2

\* A worker's operation and fingerprint are given once.
GivenKept(w) ==
    /\ worker'[w].op = worker[w].op
    /\ worker'[w].expected = worker[w].expected
    /\ worker'[w].edited = worker[w].edited /\ worker'[w].base = worker[w].base

LEMMA WorkersAreGivenOnce ==
    ASSUME TypeInv, Next, NEW v \in Workers
    PROVE  \/ GivenKept(v)
           \/ worker'[v] = Over \/ worker'[v].op = "deploy"
           \/ Change(v) \/ EditAccess(v) \/ SaveStarts(v) \/ StartCreate(v)
  <1>1. worker \in [Workers -> WorkerVal]
    BY DEF TypeInv, ManagerTyped
  <1> USE DEF GivenKept
  <1>2. CASE worker' = worker
    BY <1>2
  <1>3. ASSUME NEW w \in Workers,
               Change(w) \/ EditAccess(w) \/ SaveStarts(w) \/ StartCreate(w)
        PROVE  w = v \/ worker'[v] = worker[v]
    BY <1>1, <1>3 DEF Change, EditAccess, SaveStarts, SaveSettings, StartMutation, StartCreate, Given
  <1>4. ASSUME NEW w \in Workers, NEW pc, Become(w, pc)
        PROVE  GivenKept(v)
    BY <1>1, <1>4 DEF Become, WorkerVal
  <1>5. ASSUME NEW w \in Workers, End(w)
        PROVE  worker'[v] = Over \/ worker'[v] = worker[v]
    BY <1>1, <1>5 DEF End
  <1>6. ASSUME NEW w \in Workers, ProcessEnds(w)
        PROVE  GivenKept(v)
    <2>1. worker' = worker \/ worker' = [worker EXCEPT ![w].ok = TRUE]
      BY <1>6 DEF ProcessEnds
    <2> QED BY <1>1, <2>1 DEF WorkerVal
  <1>7. ASSUME NEW w \in Workers, Await(w)
        PROVE  GivenKept(v)
    BY <1>1, <1>7 DEF Await, WorkerVal
  <1>8. ASSUME NEW w \in Workers, Deploy(w)
        PROVE  worker'[v].op = "deploy" \/ worker'[v] = worker[v]
    BY <1>1, <1>8 DEF Deploy, WorkerVal
  <1>9. ASSUME NEW w \in Workers, Thread(w)
        PROVE  GivenKept(v) \/ worker'[v] = Over \/ worker'[v].op = "deploy"
    BY <1>4, <1>5, <1>6, <1>7, <1>8, <1>9
       DEF Thread, Invalid, Launch, LaunchFails, Answer, TimedOut, MarkUnknown, Awaited, Resolved,
           ResolutionFailed, Succeeded, Failed, CreateFinished
  <1>10. CASE InWizard \/ OpenInstance \/ RefreshPressed \/ ReadSummary \/ ReadRest \/ ReadFails
              \/ (\E r \in read : ApplyRefresh(r)) \/ SettingsStep \/ ChangedElsewhere
    BY <1>2, <1>10 DEF SettingsStep, InWizard, OpenInstance, RefreshPressed, ReadSummary,
       ReadRest, ReadFails, ApplyRefresh, EditSettings, SavePressed, ReadCandidate, PreviewFails,
       SaveRefused, CancelSettings, ChangedElsewhere
  <1> QED BY <1>3, <1>9, <1>10 DEF Next, SettingsStep, SaveStarts
LEMMA InitInOrder == Init => OrderInv
  <1> SUFFICES ASSUME Init PROVE OrderInv
    OBVIOUS
  <1>1. \A w \in Workers : worker[w].op = None
    BY DEF Init, Unborn
  <1> QED BY <1>1, ConsoleAssumption
          DEF Init, OrderInv, ReadingInOrder, ReadInOrder, ShownInOrder, DraftInOrder, SavesInOrder

LEMMA NextInOrder == TypeInv /\ OrderInv /\ [Next]_vars => OrderInv'
  <1> SUFFICES ASSUME TypeInv, OrderInv, [Next]_vars PROVE OrderInv'
    OBVIOUS
  <1> USE DEF OrderInv, ReadingInOrder, ReadInOrder, ShownInOrder, DraftInOrder, SavesInOrder
  <1>1. CASE UNCHANGED vars
    BY <1>1 DEF vars, manager, projection, settings, InOrder, version
  <1>2. CASE Next
    <2>1. /\ version \in Nat /\ version' \in Nat /\ version <= version'
          /\ history' = history => version' = version
      BY VersionGrows
    <2>2. ReadingInOrder'
      <3>1. CASE ReadSummary
        BY <2>1, <3>1 DEF ReadSummary, manager, TypeInv, ScreenTyped, ReadingVal
      <3>2. CASE reading' = reading /\ reading # None /\ reading.summary # None
        <4>1. reading.summary \in Nat
          BY <3>2 DEF TypeInv, ScreenTyped, ReadingVal
        <4> QED BY <2>1, <3>2, <4>1
      <3>3. CASE reading' = None \/ reading' = [gen |-> gen + 1, summary |-> None]
        BY <3>3
      <3> QED BY <1>2, <3>1, <3>2, <3>3, ReadingChanges
    <2>3. ReadInOrder'
      <3>1. read \subseteq ReadVal
        BY DEF TypeInv, ScreenTyped
      <3>2. ASSUME NEW r \in read PROVE r.summary <= r.declaration /\ r.declaration <= version'
        <4>1. r.summary \in Nat /\ r.declaration \in Nat
          BY <3>1 DEF ReadVal
        <4> QED BY <2>1, <4>1
      <3>3. CASE ReadRest
        <4>1. reading.summary <= version /\ version' = version /\ read' = read \cup {Seen}
          BY <2>1, <3>3 DEF ReadRest, manager
        <4> QED BY <2>1, <3>2, <4>1 DEF Seen
      <3> QED BY <1>2, <3>2, <3>3, ReadChanges
    <2>4. ShownInOrder'
      <3>1. CASE shown' = shown /\ shown # None
        <4>1. shown.summary \in Nat /\ shown.declaration \in Nat
          BY <3>1 DEF TypeInv, ScreenTyped, ShownVal
        <4> QED BY <2>1, <3>1, <4>1
      <3>2. ASSUME NEW r \in read, IsCurrent(r), ApplyRefresh(r) PROVE ShownInOrder'
        BY <2>1, <3>2 DEF ApplyRefresh, manager
      <3> QED BY <1>2, <3>1, <3>2, ShownChanges
    <2>5. DraftInOrder'
      <3>1. CASE draft' = draft /\ draft # None
        <4>1. draft.summary \in Nat /\ draft.declaration \in Nat
          BY <3>1 DEF TypeInv, ScreenTyped, ShownVal
        <4> QED BY <2>1, <3>1, <4>1
      <3>2. CASE EditSettings
        BY <2>1, <3>2 DEF EditSettings, manager
      <3> QED BY <1>2, <3>1, <3>2, DraftChanges
    <2>6. ASSUME NEW p \in previewed' PROVE InOrder(p)'
      <3>1. CASE p \in previewed
        <4>1. p.expected \in Nat /\ p.edited \in Nat /\ p.base \in Nat /\ InOrder(p)
          BY <3>1 DEF TypeInv, ScreenTyped, CandidateVal
        <4> QED BY <2>1, <4>1 DEF InOrder
      <3>2. CASE ReadCandidate /\ p = Candidate
        <4>1. draft.summary <= draft.declaration /\ draft.declaration <= version /\ version' = version
          BY <2>1, <3>2 DEF ReadCandidate, manager, TypeInv, ScreenTyped
        <4> QED BY <2>1, <3>2, <4>1 DEF Candidate, InOrder
      <3> QED BY <1>2, <2>6, <3>1, <3>2, DraftChanges DEF ReadCandidate
    <2>7. ASSUME NEW w \in Workers, worker'[w].op = "save" PROVE InOrder(worker[w])'
      <3>1. worker \in [Workers -> WorkerVal]
        BY DEF TypeInv, ManagerTyped
      <3>2. CASE GivenKept(w)
        <4>1. /\ worker[w].base \in Nat /\ worker[w].edited \in Nat /\ worker[w].expected \in Nat
              /\ InOrder(worker[w])
          BY <2>7, <3>1, <3>2 DEF WorkerVal, GivenKept
        <4> QED BY <2>1, <3>2, <4>1 DEF GivenKept, InOrder
      <3>3. CASE Change(w) \/ EditAccess(w) \/ StartCreate(w)
        BY <2>7, <3>1, <3>3 DEF Change, EditAccess, StartCreate, StartMutation, Given, Unborn
      <3>4. ASSUME NEW p \in previewed, SaveSettings(w, p) PROVE InOrder(worker[w])'
        <4>1. worker'[w] = [Unborn EXCEPT !.pc = "started", !.op = "save", !.expected = p.expected,
                                          !.edited = p.edited, !.base = p.base]
          BY <3>1, <3>4 DEF SaveSettings, StartMutation, Given
        <4>2. version' = version /\ InOrder(p)
          BY <2>1, <3>4 DEF SaveSettings, StartMutation, manager
        <4> QED BY <4>1, <4>2 DEF Unborn, InOrder
      <3>5. CASE worker'[w] = Over \/ worker'[w].op = "deploy"
        BY <2>1, <2>7, <3>5, ConsoleAssumption DEF Over, Unborn, InOrder
      <3> QED BY <1>2, <3>2, <3>3, <3>4, <3>5, WorkersAreGivenOnce DEF SaveStarts
    <2> QED BY <2>2, <2>3, <2>4, <2>5, <2>6, <2>7
  <1> QED BY <1>1, <1>2

\* The step that ends a save.  The candidate is of a version not before the one
\* edited, and that not before the summary's: between the summary's and the
\* registry's there is nothing else, or the declaration has come back.
LEMMA SavesReplace ==
    ASSUME TypeInv, OrderInv, [Next]_vars, NEW w \in running, w \notin running',
           worker[w].op = "save", history' # history
    PROVE  \/ worker[w].edited = version /\ worker[w].base = version
           \/ CameBackTo(worker[w].expected)
  <1>1. w \in Workers /\ worker \in [Workers -> WorkerVal] /\ version \in Nat
    BY DEF TypeInv, ManagerTyped, version
  <1>2. PICK v \in Workers : ProcessEnds(v)
    BY HistoryChanges DEF ChangedElsewhere, manager, vars
  <1>3. v = w /\ ProcessSaves(w)
    BY <1>2 DEF ProcessEnds
  <1>4. Fingerprint(version) = Fingerprint(worker[w].expected)
    BY <1>3 DEF ProcessSaves
  <1>5. /\ worker[w].expected <= worker[w].edited /\ worker[w].edited <= worker[w].base
        /\ worker[w].base <= version
    BY <1>1 DEF OrderInv, SavesInOrder, InOrder
  <1>6. worker[w].base \in Nat /\ worker[w].edited \in Nat /\ worker[w].expected \in Nat
    BY <1>1 DEF WorkerVal
  <1>7. CASE worker[w].expected = version
    BY <1>1, <1>5, <1>6, <1>7
  <1>8. CASE worker[w].expected # version
    <2>1. worker[w].expected < version
      BY <1>1, <1>5, <1>6, <1>8
    <2> QED BY <1>4, <2>1 DEF CameBackTo
  <1> QED BY <1>7, <1>8

(***************************************************************************)
(* The screen does not go back.                                            *)
(***************************************************************************)
LEMMA InitScreen == Init => ScreenInv
  BY DEF Init, ScreenInv

LEMMA NextScreen == TypeInv /\ OrderInv /\ ScreenInv /\ [Next]_vars => ScreenInv'
  <1> SUFFICES ASSUME TypeInv, OrderInv, ScreenInv, [Next]_vars PROVE ScreenInv'
    OBVIOUS
  <1>1. /\ gen \in Nat /\ version \in Nat
        /\ \A r \in read : r \in ReadVal /\ r.gen \in Nat /\ r.summary \in Nat
        /\ shown # None => shown.summary \in Nat /\ shown.summary <= version
    <2>1. shown # None => shown.summary \in Nat /\ shown.declaration \in Nat
      BY DEF TypeInv, ScreenTyped, ShownVal
    <2>2. gen \in Nat /\ version \in Nat
      BY DEF TypeInv, ScreenTyped, ManagerTyped, version
    <2>3. shown # None => shown.summary <= version
      BY <2>1, <2>2 DEF OrderInv, ShownInOrder
    <2> QED BY <2>1, <2>2, <2>3 DEF TypeInv, ScreenTyped, ReadVal
  <1> USE DEF ScreenInv, NotOlder
  <1>2. CASE UNCHANGED vars
    BY <1>2 DEF vars, projection
  <1>3. CASE Next /\ gen' = gen + 1 /\ reading' = [gen |-> gen + 1, summary |-> None]
    <2>1. read' \subseteq read
      BY <1>1, <1>3, ReadChanges DEF ReadRest
    <2>2. \A r \in read' : r.gen <= gen' /\ r.gen # gen'
      BY <1>1, <1>3, <2>1
    <2>3. reading'.gen = gen' /\ reading'.summary = None
      BY <1>3
    <2> QED BY <2>2, <2>3
  <1>4. CASE ReadSummary
    <2>1. reading' = [reading EXCEPT !.summary = version] /\ UNCHANGED <<gen, read, shown>>
      BY <1>4 DEF ReadSummary
    <2>2. reading'.gen = gen /\ (reading'.summary # None => NotOlder(reading'.summary))
      BY <1>1, <1>4, <2>1 DEF ReadSummary, TypeInv, ScreenTyped, ReadingVal
    <2>3. \A r \in read : r.gen # gen
      BY <1>4 DEF ReadSummary
    <2> QED BY <2>1, <2>2, <2>3
  <1>5. CASE ReadRest
    <2>1. reading' = None /\ read' = read \cup {Seen} /\ gen' = gen /\ shown' = shown
      BY <1>5 DEF ReadRest
    <2>2. Seen.gen = gen /\ NotOlder(Seen.summary) /\ \A r \in read : r.gen # gen
      BY <1>5 DEF ReadRest, Seen
    <2> QED BY <1>1, <2>1, <2>2
  <1>6. ASSUME NEW r \in read, IsCurrent(r), ApplyRefresh(r) PROVE ScreenInv'
    <2>1. /\ read' = read \ {r} /\ r.gen = gen
          /\ shown' = [summary |-> r.summary, declaration |-> r.declaration]
          /\ UNCHANGED <<gen, reading>>
      BY <1>6 DEF ApplyRefresh, IsCurrent
    <2>2. \A q \in read' : q.gen # gen
      BY <2>1
    <2> QED BY <2>1, <2>2
  <1>7. CASE /\ gen' = gen /\ (reading' = reading \/ reading' = None)
             /\ read' \subseteq read /\ (shown' = shown \/ shown' = None)
    BY <1>7
  <1> QED BY <1>2, <1>3, <1>4, <1>5, <1>6, <1>7, ReadingChanges, ReadChanges, ShownChanges

(***************************************************************************)
(* What is created is what was previewed.                                  *)
(***************************************************************************)
LEMMA InitPreviewed == Init => PreviewInv
  <1> SUFFICES ASSUME Init PROVE PreviewInv
    OBVIOUS
  <1>1. Asking \subseteq {[kind |-> "candidate", intent |-> 1, gen |-> 1]}
    BY DEF Init, WizardInit, Asking, Request
  <1>2. intent = 1 /\ wgen = 1 /\ preview = None
    BY DEF Init, WizardInit
  <1> QED BY <1>1, <1>2 DEF PreviewInv, IsCandidate

\* What a step of the wizard may add to the requests in flight.
LEMMA AskingShrinks ==
    ASSUME asked' = asked, late' \subseteq late PROVE Asking' \subseteq Asking
  BY DEF Asking

LEMMA AskingGrows ==
    ASSUME late' \subseteq late PROVE Asking' \subseteq Asking \cup {asked'}
  BY DEF Asking

LEMMA WizardStepPreviewed ==
    ASSUME TypeInv, PreviewInv, WizardStep PROVE PreviewInv'
  <1>1. /\ intent \in Nat /\ wgen \in Nat
        /\ \A q \in Asking : q \in RequestVal /\ q.intent \in Nat /\ q.gen \in Nat
    BY DEF TypeInv, WizardTyped, Asking, RequestVal
  <1> USE DEF PreviewInv, IsCandidate
  <1>2. ASSUME RequestCandidate(intent + 1), late' \subseteq late PROVE PreviewInv'
    <2>1. /\ intent' = intent + 1 /\ wgen' = wgen + 1 /\ preview' = None
          /\ asked' = [kind |-> "candidate", intent |-> intent + 1, gen |-> wgen + 1]
      BY <1>2 DEF RequestCandidate, ForgetReview, Request
    <2>2. Asking' \subseteq Asking \cup {asked'}
      BY <1>2, AskingGrows
    <2> QED BY <1>1, <2>1, <2>2
  <1>3. ASSUME asked' = asked, late' \subseteq late, UNCHANGED <<intent, wgen>>,
               UNCHANGED <<candidate, preview>> \/ preview' = None
        PROVE  PreviewInv'
    <2>1. Asking' \subseteq Asking
      BY <1>3, AskingShrinks
    <2> QED BY <1>3, <2>1
  <1>4. CASE Edit
    BY <1>2, <1>4 DEF Edit
  <1>5. CASE Review
    <2>1. PICK i \in {intent, intent + 1} : intent' = i /\ wgen' = wgen + 1
                                            /\ asked' = Request("review", i, wgen + 1)
      BY <1>5 DEF Review
    <2>2. Asking' \subseteq Asking \cup {asked'}
      BY <1>5, AskingGrows DEF Review
    <2>3. preview' = None
      BY <1>5 DEF Review, ForgetReview
    <2> QED BY <1>1, <2>1, <2>2, <2>3 DEF Request
  <1>6. CASE Back
    BY <1>3, <1>6 DEF Back
  <1>7. CASE Answered
    <2>1. PICK h \in Hosts, valid \in BOOLEAN :
            late' = late \cup {[request |-> asked, valid |-> valid, declares |-> <<asked.intent, h>>]}
      BY <1>7 DEF Answered
    <2>2. Asking' \subseteq Asking
      BY <1>7, <2>1 DEF Answered, Asking
    <2> QED BY <1>7, <2>2 DEF Answered
  <1>8. ASSUME NEW a \in late, CandidateArrives(a) PROVE PreviewInv'
    <2>1. late' \subseteq late /\ a.request \in Asking /\ a.request.kind = "candidate"
      BY <1>8 DEF CandidateArrives, Asking
    <2>2. CASE UNCHANGED <<intent, wgen, asked, candidate, preview>>
      BY <1>3, <2>1, <2>2
    <2>3. CASE Accepted(a.request) /\ UNCHANGED <<intent, wgen, asked, preview>>
      <3>1. preview' = None
        BY <2>1, <2>3 DEF Accepted
      <3> QED BY <1>3, <2>1, <2>3, <3>1
    <2>4. CASE RequestCandidate(intent + 1)
      BY <1>2, <2>1, <2>4
    <2> QED BY <1>8, <2>2, <2>3, <2>4 DEF CandidateArrives
  <1>9. ASSUME NEW a \in late, ReviewArrives(a) PROVE PreviewInv'
    <2>1. /\ late' \subseteq late /\ a.request \in Asking /\ a.request.kind = "review"
          /\ UNCHANGED <<intent, wgen, asked>>
      BY <1>9 DEF ReviewArrives, Asking
    <2>2. CASE UNCHANGED <<candidate, preview>> \/ preview' = None
      BY <1>3, <2>1, <2>2
    <2>3. CASE SameEdits(a.request) /\ candidate' = a.declares /\ preview' = a.declares
      <3>1. \A q \in Asking : ~IsCandidate(q)
        BY <1>1, <2>1, <2>3 DEF SameEdits
      <3>2. Asking' \subseteq Asking
        BY <2>1, AskingShrinks
      <3> QED BY <2>1, <2>3, <3>1, <3>2
    <2> QED BY <1>9, <2>2, <2>3 DEF ReviewArrives, ForgetReview
  <1> QED BY <1>4, <1>5, <1>6, <1>7, <1>8, <1>9 DEF WizardStep

LEMMA NextPreviewed == TypeInv /\ PreviewInv /\ [Next]_vars => PreviewInv'
  <1> SUFFICES ASSUME TypeInv, PreviewInv, [Next]_vars PROVE PreviewInv'
    OBVIOUS
  <1>1. CASE UNCHANGED wizard
    BY <1>1 DEF wizard, PreviewInv, IsCandidate, Asking
  <1>2. CASE LeaveWizard
    <2>1. Asking' = {} /\ preview' = None
      BY <1>2 DEF LeaveWizard, ForgetReview, Asking
    <2> QED BY <2>1 DEF PreviewInv
  <1>3. CASE WizardStep
    BY <1>3, WizardStepPreviewed
  <1>4. CASE UNCHANGED vars
    BY <1>1, <1>4 DEF vars
  <1>5. CASE Next
    <2>1. UNCHANGED wizard \/ LeaveWizard \/ WizardStep
      BY <1>5 DEF Next, Thread, InWizard, OpenInstance, RefreshPressed, ReadSummary, ReadRest,
         ReadFails, ApplyRefresh, EditSettings, SavePressed, ReadCandidate, PreviewFails,
         SaveRefused, CancelSettings, ChangedElsewhere, Change, EditAccess, SaveStarts,
         SaveSettings, StartMutation, StartCreate, Invalid, Launch, LaunchFails, ProcessEnds,
         Answer, TimedOut, MarkUnknown, Await, Awaited, Resolved, ResolutionFailed, Succeeded,
         Failed, Deploy, CreateFinished
    <2> QED BY <1>1, <1>2, <1>3, <2>1
  <1> QED BY <1>4, <1>5
(***************************************************************************)
(* The theorems.                                                           *)
(***************************************************************************)
THEOREM ConsoleInvariant == Spec => []ConsoleInv
  <1>1. Init => ConsoleInv
    BY InitTyped, InitReleased, InitInOrder, InitScreen, InitPreviewed DEF ConsoleInv
  <1>2. ConsoleInv /\ [Next]_vars => ConsoleInv'
    BY NextTyped, NextReleased, NextInOrder, NextScreen, NextPreviewed DEF ConsoleInv
  <1> QED BY <1>1, <1>2, PTL DEF Spec

\* The variables of the interface, its threads and the wizard keep their types.
THEOREM ConsoleTypeCorrect == Spec => []ConsoleTypeOK
  <1>1. ConsoleInv => ConsoleTypeOK
    <2> SUFFICES ASSUME ConsoleInv PROVE ConsoleTypeOK
      OBVIOUS
    <2>1. {open, reviewing, offered, busy, uncertain, previewing} \subseteq BOOLEAN
      BY Zenon DEF ConsoleInv, TypeInv, WizardTyped, AuthorityTyped, ScreenTyped
    <2>2. history \in Seq(Contents) /\ running \subseteq Workers /\ pending \in Workers \cup {None}
      BY DEF ConsoleInv, TypeInv, ManagerTyped, AuthorityTyped
    <2>3. \A w \in Workers : worker[w].pc \in Pc /\ worker[w].event \in Workers \cup {None}
      BY DEF ConsoleInv, TypeInv, ManagerTyped, WorkerVal
    <2>4. \A r \in read : r.gen <= gen
      BY DEF ConsoleInv, ScreenInv
    <2>5. shown # None => DOMAIN shown = {"summary", "declaration"}
      BY DEF ConsoleInv, TypeInv, ScreenTyped, ShownVal
    <2> QED BY <2>1, <2>2, <2>3, <2>4, <2>5 DEF ConsoleTypeOK
  <1> QED BY <1>1, ConsoleInvariant, PTL

\* An instance refused to the operator is let go by a thread that still runs,
\* or by the next refresh, unless a manager process could not be launched.
THEOREM RefusalsAreReleased == Spec => []RefusalIsReleased
  <1>1. ConsoleInv => RefusalIsReleased
    <2> SUFFICES ASSUME ConsoleInv, busy, ~uncertain, ~\E w \in Workers : Active(w)
                 PROVE  \E w \in Workers : worker[w].pc = "dead"
      BY DEF RefusalIsReleased
    <2>1. PICK w \in Workers : worker[w].pc \in Reporting
      BY DEF ConsoleInv, ReleaseInv
    <2>2. worker[w].pc = "dead"
      BY <2>1 DEF Active, Reporting
    <2> QED BY <2>2
  <1> QED BY <1>1, ConsoleInvariant, PTL

\* A save replaces the declaration its operator edited and its candidate was
\* made from, whoever changes it between the two reads of the refresh, the edits,
\* the candidate's read and the save: unless it was changed and then changed back.
THEOREM SavesReplaceWhatWasEdited == Spec => ReplacesWhatWasEdited
  <1>1. ConsoleInv /\ [Next]_vars =>
          [\A w \in running \ running' :
              worker[w].op = "save" /\ history' # history =>
                  \/ worker[w].edited = version /\ worker[w].base = version
                  \/ CameBackTo(worker[w].expected)]_vars
    BY SavesReplace DEF ConsoleInv
  <1> QED BY <1>1, ConsoleInvariant, PTL DEF Spec, ReplacesWhatWasEdited

\* A screen never shows an older declaration than it has shown, in whatever
\* order the refreshes are read and arrive.
THEOREM ScreensDoNotGoBack == Spec => ShownNeverGoesBack
  <1>1. ConsoleInv /\ [Next]_vars =>
          [(shown # None /\ shown' # None) => shown'.summary >= shown.summary]_vars
    <2> SUFFICES ASSUME ConsoleInv, Next, shown # None, shown' # None
                 PROVE  shown'.summary >= shown.summary
      BY DEF vars
    <2>1. shown.summary \in Nat
      BY DEF ConsoleInv, TypeInv, ScreenTyped, ShownVal
    <2>2. ASSUME NEW r \in read, IsCurrent(r), ApplyRefresh(r)
          PROVE  shown'.summary >= shown.summary
      <3>1. shown'.summary = r.summary
        BY <2>2 DEF ApplyRefresh
      <3> QED BY <2>2, <3>1 DEF ConsoleInv, ScreenInv, NotOlder, IsCurrent
    <2> QED BY <2>1, <2>2, ShownChanges
  <1> QED BY <1>1, ConsoleInvariant, PTL DEF Spec, ShownNeverGoesBack

\* The declaration created is the one whose plan is on the screen, in whatever
\* order the answers arrive that were asked for while it was edited.
THEOREM CreatedIsPreviewed == Spec => CreatesWhatWasPreviewed
  <1>1. ConsoleInv /\ [Next]_vars =>
          [\A w \in Workers : worker[w].op = None /\ worker'[w].op = "create" =>
              candidate = preview]_vars
    <2> SUFFICES ASSUME ConsoleInv, Next, NEW w \in Workers,
                        worker[w].op = None, worker'[w].op = "create"
                 PROVE  candidate = preview
      BY DEF vars
    <2>1. StartCreate(w)
      <3>1. worker \in [Workers -> WorkerVal]
        BY DEF ConsoleInv, TypeInv, ManagerTyped
      <3>2. ~GivenKept(w) /\ worker'[w].op # "deploy"
        BY ConsoleAssumption DEF GivenKept
      <3>3. worker'[w] # Over
        BY ConsoleAssumption DEF Over, Unborn
      <3>4. ASSUME NEW op \in {"change", "access", "save"}, NEW expected, NEW edited, NEW base,
                   Given(w, op, expected, edited, base)
            PROVE  FALSE
        BY <3>1, <3>4 DEF Given, Unborn
      <3>5. ~(Change(w) \/ EditAccess(w) \/ SaveStarts(w))
        BY <3>4 DEF Change, EditAccess, SaveStarts, SaveSettings, StartMutation
      <3> QED BY <3>2, <3>3, <3>5, WorkersAreGivenOnce DEF ConsoleInv
    <2> QED BY <2>1 DEF StartCreate, ConsoleInv, PreviewInv
  <1> QED BY <1>1, ConsoleInvariant, PTL DEF Spec, CreatesWhatWasPreviewed
=============================================================================
