------------------------------ MODULE Console ------------------------------
(***************************************************************************)
(* The terminal interface, for one instance: its event loop, the threads   *)
(* it starts and the manager processes they run.  An action named after a  *)
(* handler is one turn of the event loop, and the operator may press a     *)
(* button between any two of them.  A refresh runs several processes one   *)
(* after the other; a mutation runs one, waits 180 seconds for it and then *)
(* leaves it to run.                                                       *)
(***************************************************************************)
EXTENDS Wizard, FiniteSets, Sequences

CONSTANTS
    Workers,        \* threads that run a mutation, each once
    Contents,       \* what the declaration may say; the fingerprint tells them apart
    MaxVersion,     \* bound on the declaration's changes by others
    MaxRefresh,     \* bound on the refreshes the operator asks for
    MaxSaves        \* bound on the saves on their way to the event loop at once

ASSUME ConsoleAssumption ==
    /\ {MaxVersion, MaxRefresh, MaxSaves} \subseteq Nat \ {0}
    /\ None \notin Workers \cup {"create", "save"}

VARIABLES
    history,        \* the declarations the registry has held; the last is the one it holds
    busy,           \* the instance is in busy_instances
    uncertain,      \* it is in uncertain_instances
    running,        \* workers whose manager process has not ended
    pending,        \* the worker whose event is in _pending_mutations, or None
    worker,
    gen,            \* generation of the instance's screen
    reading,        \* the refresh being read, or None
    read,           \* refreshes on their way to the event loop
    shown,          \* versions of the summary and the declaration shown, or None
    draft,          \* what was shown of the settings being edited on top of it, or None
    previewing,     \* a candidate with the edits is being asked for
    previewed       \* saves of a candidate, on their way to the event loop

\* A version is the place of a declaration in the history: what tells the reads
\* of one apart here, and nothing the code has.
version == Len(history)
Fingerprint(n) == history[n]

manager == <<history, running>>
settings == <<draft, previewing, previewed>>
authority == <<busy, uncertain, pending>>
projection == <<gen, reading, read, shown>>
vars == <<wizard, manager, authority, worker, projection, settings>>

Unborn == [pc |-> "new", op |-> None, expected |-> 0, edited |-> 0, base |-> 0, ok |-> FALSE,
           event |-> None]
Over == [Unborn EXCEPT !.pc = "over"]

Init ==
    /\ WizardInit
    /\ IF open THEN history = <<>> ELSE \E c \in Contents : history = <<c>>
    /\ busy = FALSE /\ uncertain = FALSE /\ pending = None
    /\ running = {} /\ worker = [w \in Workers |-> Unborn]
    /\ gen = 0 /\ reading = None /\ read = {} /\ shown = None
    /\ draft = None /\ previewing = FALSE /\ previewed = {}

OnInstance == ~open /\ draft = None
Become(w, pc) == worker' = [worker EXCEPT ![w].pc = pc]
End(w) == worker' = [worker EXCEPT ![w] = Over]

(***************************************************************************)
(* Refreshing the instance's screen.  The fingerprint that edits carry is  *)
(* the summary's; the settings edited are the declaration's.               *)
(***************************************************************************)
Refresh == gen' = gen + 1 /\ reading' = [gen |-> gen + 1, summary |-> None]
NoRefresh == UNCHANGED <<gen, reading>>

RefreshPressed ==
    /\ OnInstance /\ gen < MaxRefresh /\ Refresh
    /\ UNCHANGED <<wizard, manager, authority, worker, read, shown, settings>>

ReadSummary ==
    /\ reading # None /\ reading.summary = None
    /\ reading' = [reading EXCEPT !.summary = version]
    /\ UNCHANGED <<wizard, manager, authority, worker, gen, read, shown, settings>>

SeenDeclarationFirst ==
    [gen |-> reading.gen, summary |-> version, declaration |-> reading.summary]
Seen == [gen |-> reading.gen, summary |-> reading.summary, declaration |-> version]

\* show(), the reads after it, and the check that it is not cancelled
ReadRest ==
    /\ reading # None /\ reading.summary # None
    /\ read' = read \cup {Seen} /\ reading' = None
    /\ UNCHANGED <<wizard, manager, authority, worker, gen, shown, settings>>

ReadFails ==
    /\ reading # None /\ reading' = None
    /\ UNCHANGED <<wizard, manager, authority, worker, gen, read, shown, settings>>

IsAny(r) == r \in read
IsCurrent(r) == r.gen = gen

\* mark_authority_verified: no event, or one that is set
ProcessKnownOver == pending \notin running

ApplyRefresh(r) ==
    /\ r \in read /\ read' = read \ {r}
    /\ \/ ~IsCurrent(r) /\ UNCHANGED <<shown, authority>>
       \/ /\ IsCurrent(r) /\ shown' = [summary |-> r.summary, declaration |-> r.declaration]
          /\ IF uncertain /\ ProcessKnownOver
             THEN uncertain' = FALSE /\ busy' = FALSE /\ pending' = None
             ELSE UNCHANGED authority
    /\ UNCHANGED <<wizard, manager, worker, gen, reading, settings>>

(***************************************************************************)
(* Starting mutations.                                                     *)
(***************************************************************************)
Given(w, op, expected, edited, base) ==
    worker' = [worker EXCEPT ![w] = [Unborn EXCEPT
        !.pc = "started", !.op = op, !.expected = expected, !.edited = edited, !.base = base]]

Refused == busy \/ uncertain

StartMutation(w, op, expected, edited, base) ==
    /\ worker[w].pc = "new" /\ ~Refused
    /\ busy' = TRUE
    /\ Given(w, op, expected, edited, base)
    /\ UNCHANGED <<wizard, manager, uncertain, pending, projection>>

\* start, stop, restart, remove, an apply of the plan reviewed
Change(w) ==
    OnInstance /\ StartMutation(w, "change", 0, 0, 0) /\ UNCHANGED settings

\* An access entry edited in a dialogue takes the fingerprint of the summary
\* that is on the screen when the dialogue is closed.
EditAccess(w) ==
    OnInstance /\ shown # None /\ StartMutation(w, "access", shown.summary, 0, 0)
    /\ UNCHANGED settings

EditSettings ==
    /\ OnInstance /\ shown # None /\ draft' = shown
    /\ UNCHANGED <<wizard, manager, authority, worker, projection, previewing, previewed>>

(***************************************************************************)
(* Saving the settings edited.  A thread has the manager put the edits on  *)
(* top of the declaration it finds now, the candidate, and plan it; the    *)
(* event loop then saves the candidate against the fingerprint shown.  A   *)
(* thread that is cancelled, by Save pressed again or by the screen going, *)
(* sends nothing any more, but what it has sent arrives.                   *)
(***************************************************************************)
SavePressed ==
    /\ draft # None /\ previewing' = TRUE
    /\ UNCHANGED <<wizard, manager, authority, worker, projection, draft, previewed>>

Candidate == [expected |-> draft.summary, edited |-> draft.declaration, base |-> version]

ReadCandidate ==
    /\ previewing /\ previewing' = FALSE
    /\ Cardinality(previewed) < MaxSaves /\ previewed' = previewed \cup {Candidate}
    /\ UNCHANGED <<wizard, manager, authority, worker, projection, draft>>

\* the candidate or its plan is refused, or says errors: the draft stays
PreviewFails ==
    /\ previewing /\ previewing' = FALSE
    /\ UNCHANGED <<wizard, manager, authority, worker, projection, draft, previewed>>

SaveSettings(w, p) ==
    /\ p \in previewed /\ previewed' = previewed \ {p}
    /\ StartMutation(w, "save", p.expected, p.edited, p.base)
    /\ UNCHANGED <<draft, previewing>>

SaveRefused(p) ==
    /\ p \in previewed /\ Refused /\ previewed' = previewed \ {p}
    /\ UNCHANGED <<wizard, manager, authority, worker, projection, draft, previewing>>

CloseSettings == draft' = None /\ previewing' = FALSE

CancelSettings ==
    /\ draft # None /\ CloseSettings
    /\ UNCHANGED <<wizard, manager, authority, worker, projection, previewed>>

StartCreate(w) ==
    /\ open /\ reviewing /\ offered /\ preview # None
    /\ worker[w].pc = "new" /\ ~busy
    /\ busy' = TRUE
    /\ Given(w, "create", 0, 0, 0)
    /\ UNCHANGED <<wizard, manager, uncertain, pending, projection, settings>>

(***************************************************************************)
(* A mutation's thread and its process.                                    *)
(***************************************************************************)
Calling == {w \in Workers : worker[w].pc = "calling"}

\* the declaration is refused before anything is saved
Invalid(w) ==
    /\ worker[w].pc = "started" /\ worker[w].op \in {"create", "save"}
    /\ Become(w, "failed")
    /\ UNCHANGED <<wizard, manager, authority, projection, settings>>

Launch(w) ==
    /\ worker[w].pc = "started" /\ Calling = {}
    /\ running' = running \cup {w} /\ Become(w, "calling")
    /\ UNCHANGED <<wizard, history, authority, projection, settings>>

\* OSError, which no handler of the threads catches
LaunchFails(w) ==
    /\ worker[w].pc = "started" /\ Calling = {}
    /\ Become(w, "dead")
    /\ UNCHANGED <<wizard, manager, authority, projection, settings>>

\* What the process does, under the manager's own locks, and its end.  The
\* process has the work done by one on the host, and fails when the answer of
\* that one is lost, saved or not.  An update compares what the declaration
\* says with what the fingerprint it is given says, and not who wrote it.
ProcessSaves(w) ==
    \/ worker[w].op = "create" /\ version = 0
    \/ worker[w].op \in {"save", "access"} /\ Fingerprint(version) = Fingerprint(worker[w].expected)
    \/ worker[w].op = "change" \* the lifecycle asked for is another one

\* A declaration that says what the one there says leaves it as it is.
Written(c) ==
    history' = IF version > 0 /\ c = Fingerprint(version) THEN history ELSE Append(history, c)

ProcessEnds(w) ==
    /\ w \in running /\ running' = running \ {w}
    /\ \/ UNCHANGED <<history, worker>>
       \/ /\ ProcessSaves(w) /\ \E c \in Contents : Written(c)
          /\ worker' \in {worker, [worker EXCEPT ![w].ok = TRUE]}
       \/ /\ worker[w].op = "deploy" /\ UNCHANGED history
          /\ worker' = [worker EXCEPT ![w].ok = TRUE]
    /\ UNCHANGED <<wizard, authority, projection, settings>>

Answer(w) ==
    /\ worker[w].pc = "calling" /\ w \notin running
    /\ Become(w, IF worker[w].ok THEN "succeeded" ELSE "failed")
    /\ UNCHANGED <<wizard, manager, authority, projection, settings>>

TimedOut(w) ==
    /\ worker[w].pc = "calling" /\ w \in running
    /\ pending' = w
    /\ Become(w, IF worker[w].op \in {"create", "deploy"} THEN "failed" ELSE "unknown")
    /\ UNCHANGED <<wizard, manager, busy, uncertain, projection, settings>>

ForgetUnknown(w) ==
    /\ worker[w].pc = "unknown" /\ Become(w, "marked")
    /\ UNCHANGED <<wizard, manager, authority, projection, settings>>

MarkUnknown(w) ==
    /\ worker[w].pc = "unknown"
    /\ uncertain' = TRUE /\ Become(w, "marked")
    /\ UNCHANGED <<wizard, manager, busy, pending, projection, settings>>

\* wait_for_uncertain_mutation looks the event up once
Await(w) ==
    /\ worker[w].pc = "marked"
    /\ worker' = [worker EXCEPT ![w].pc = "awaiting", ![w].event = pending]
    /\ UNCHANGED <<wizard, manager, authority, projection, settings>>

Awaited(w) ==
    /\ worker[w].pc = "awaiting" /\ worker[w].event \notin running
    /\ pending' = IF pending = worker[w].event THEN None ELSE pending
    /\ Become(w, "resolved") \/ Become(w, "unresolved")
    /\ UNCHANGED <<wizard, manager, busy, uncertain, projection, settings>>

(***************************************************************************)
(* What the event loop does with the outcome.                              *)
(***************************************************************************)
RefreshCurrent == IF OnInstance THEN Refresh ELSE NoRefresh

Resolved(w) ==
    /\ worker[w].pc = "resolved" /\ End(w)
    /\ uncertain' = FALSE /\ busy' = FALSE
    /\ RefreshCurrent
    /\ UNCHANGED <<wizard, manager, pending, read, shown, settings>>

ResolutionFailed(w) ==
    /\ worker[w].pc = "unresolved" /\ End(w)
    /\ UNCHANGED <<wizard, manager, authority, projection, settings>>

Succeeded(w) ==
    /\ worker[w].pc = "succeeded" /\ worker[w].op \in {"change", "access", "save"} /\ End(w)
    /\ busy' = FALSE
    /\ IF worker[w].op = "save" THEN CloseSettings ELSE UNCHANGED <<draft, previewing>>
    /\ IF ~open /\ draft' = None THEN Refresh ELSE NoRefresh
    /\ UNCHANGED <<wizard, manager, uncertain, pending, read, shown, previewed>>

Failed(w) ==
    /\ worker[w].pc = "failed" /\ worker[w].op # "deploy" /\ End(w)
    /\ busy' = FALSE
    /\ UNCHANGED <<wizard, manager, uncertain, pending, projection, settings>>

\* The wizard's thread goes on: the declaration is deployed if that was asked
\* for and the plan is still the one reviewed.
Deploy(w) ==
    /\ worker[w].pc = "succeeded" /\ worker[w].op = "create"
    /\ worker' = [worker EXCEPT ![w].pc = "started", ![w].op = "deploy", ![w].ok = FALSE]
    /\ UNCHANGED <<wizard, manager, authority, projection, settings>>

CreateFinished(w) ==
    /\ \/ worker[w].pc = "succeeded" /\ worker[w].op \in {"create", "deploy"}
       \/ worker[w].pc = "failed" /\ worker[w].op = "deploy"
    /\ End(w) /\ busy' = FALSE
    /\ LeaveWizard /\ shown' = None /\ read' = {} /\ CloseSettings /\ Refresh
    /\ UNCHANGED <<manager, uncertain, pending, previewed>>

(***************************************************************************)
(* The operator's other moves, and other users of the manager.             *)
(***************************************************************************)
OpenInstance ==
    /\ open /\ version > 0
    /\ LeaveWizard /\ Refresh
    /\ UNCHANGED <<manager, authority, worker, read, shown, settings>>

ChangedElsewhere ==
    /\ version < MaxVersion /\ \E c \in Contents : Written(c)
    /\ UNCHANGED <<wizard, running, authority, worker, projection, settings>>

InWizard ==
    /\ WizardStep
    /\ UNCHANGED <<manager, authority, worker, projection, settings>>

Thread(w) ==
    \/ Invalid(w) \/ Launch(w) \/ LaunchFails(w)
    \/ ProcessEnds(w) \/ Answer(w) \/ TimedOut(w)
    \/ MarkUnknown(w) \/ Await(w) \/ Awaited(w)
    \/ Resolved(w) \/ ResolutionFailed(w) \/ Succeeded(w) \/ Failed(w)
    \/ Deploy(w) \/ CreateFinished(w)

Next ==
    \/ InWizard \/ OpenInstance
    \/ RefreshPressed \/ ReadSummary \/ ReadRest \/ ReadFails
    \/ \E r \in read : ApplyRefresh(r)
    \/ EditSettings \/ CancelSettings \/ ChangedElsewhere
    \/ SavePressed \/ ReadCandidate \/ PreviewFails
    \/ \E p \in previewed : SaveRefused(p)
    \/ \E w \in Workers, p \in previewed : SaveSettings(w, p)
    \/ \E w \in Workers : Change(w) \/ EditAccess(w) \/ StartCreate(w) \/ Thread(w)

Spec == Init /\ [][Next]_vars

(***************************************************************************)
(* Properties.                                                             *)
(***************************************************************************)
Active(w) == worker[w].pc \notin {"new", "over", "dead"}

Pc == {"new", "started", "calling", "unknown", "marked", "awaiting", "resolved",
       "unresolved", "succeeded", "failed", "over", "dead"}

ConsoleTypeOK ==
    /\ {open, reviewing, offered, busy, uncertain, previewing} \subseteq BOOLEAN
    /\ history \in Seq(Contents) /\ running \subseteq Workers /\ pending \in Workers \cup {None}
    /\ \A w \in Workers : worker[w].pc \in Pc /\ worker[w].event \in Workers \cup {None}
    /\ \A r \in read : r.gen <= gen
    /\ shown # None => DOMAIN shown = {"summary", "declaration"}

\* When the instance is refused to the operator and no thread is left to let
\* it go, the next refresh will: unless a process could not be launched.
RefusalIsReleased ==
    (busy /\ ~\E w \in Workers : Active(w)) =>
        uncertain \/ \E w \in Workers : worker[w].pc = "dead"

\* A save that goes through replaces the declaration its operator edited and
\* its candidate was made from, in spite of three reads at three moments:
\* unless, since the summary was read, the declaration was changed and then
\* changed back to what it said, which no fingerprint tells.
CameBackTo(n) == n < version /\ Fingerprint(n) = Fingerprint(version)

ReplacesWhatWasEdited ==
    [][\A w \in running \ running' :
        worker[w].op = "save" /\ history' # history =>
            \/ worker[w].edited = version /\ worker[w].base = version
            \/ CameBackTo(worker[w].expected)]_vars

\* A screen never goes back to an older declaration than it has shown.
ShownNeverGoesBack ==
    [][(shown # None /\ shown' # None) => shown'.summary >= shown.summary]_vars

\* The wizard creates the declaration whose plan the operator is looking at.
CreatesWhatWasPreviewed ==
    [][\A w \in Workers : worker[w].op = None /\ worker'[w].op = "create" =>
        candidate = preview]_vars

\* No mutation of the instance starts while the process of one whose outcome
\* is unknown still runs.
DependentSuppressed == Cardinality(running) <= 1
=============================================================================
