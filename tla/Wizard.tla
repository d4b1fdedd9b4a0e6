------------------------------- MODULE Wizard -------------------------------
(***************************************************************************)
(* The new-instance wizard of the terminal interface.  It keeps the        *)
(* operator's edits only; the manager makes the declaration out of them    *)
(* (the candidate) and plans it (the preview), in threads that answer      *)
(* late.  Starting a thread cancels the one before it, but an answer that  *)
(* passed its cancellation check may still arrive: `late` holds those.     *)
(***************************************************************************)
EXTENDS Naturals

CONSTANTS
    Hosts,          \* what the manager may find on the host when asked
    MaxIntent,      \* bound on the operator's edits
    MaxAsked,       \* bound on the requests to the manager
    None

ASSUME WizardAssumption == {MaxIntent, MaxAsked} \subseteq Nat \ {0}

VARIABLES
    open,           \* the wizard is the screen on top
    reviewing,      \* it is at its last step
    intent,         \* the operator's edits, numbered; the identity of a request
    wgen,           \* the generation of the candidate request
    asked,          \* the request being answered, or None
    late,           \* answers on their way to the event loop
    candidate,      \* candidate_payload, or None
    preview,        \* preview_payload, or None
    offered         \* the create buttons are enabled

wizard == <<open, reviewing, intent, wgen, asked, late, candidate, preview, offered>>

Request(kind, i, g) == [kind |-> kind, intent |-> i, gen |-> g]

WizardInit ==
    /\ open \in BOOLEAN
    /\ reviewing = FALSE /\ intent = 1 /\ wgen = 1
    /\ asked = IF open THEN Request("candidate", 1, 1) ELSE None
    /\ late = {} /\ candidate = None /\ preview = None /\ offered = FALSE

\* What has been reviewed no longer counts when the edits are submitted anew.
ForgetReview == preview' = None /\ offered' = FALSE

RequestCandidate(i) ==
    /\ intent' = i /\ wgen' = wgen + 1
    /\ asked' = Request("candidate", i, wgen + 1)
    /\ ForgetReview

\* an edit at one of the first four steps
Edit ==
    /\ open /\ ~reviewing /\ intent < MaxIntent /\ wgen < MaxAsked
    /\ RequestCandidate(intent + 1)
    /\ UNCHANGED <<open, reviewing, late, candidate>>

\* The candidate requested on leaving the fourth step is cancelled by the
\* review that the same handler asks for.
Review ==
    /\ open /\ ~reviewing /\ wgen < MaxAsked
    /\ \E i \in {intent, intent + 1} \cap 1..MaxIntent :
        /\ intent' = i /\ wgen' = wgen + 1
        /\ asked' = Request("review", i, wgen + 1)
    /\ reviewing' = TRUE /\ ForgetReview
    /\ UNCHANGED <<open, late, candidate>>

Back ==
    /\ open /\ reviewing /\ reviewing' = FALSE
    /\ UNCHANGED <<open, intent, wgen, asked, late, candidate, preview, offered>>

\* The manager has answered; both answers hold a declaration, that of a
\* review also its plan, unless the review was refused.
Answered ==
    /\ asked # None
    /\ \E h \in Hosts, valid \in BOOLEAN :
        late' = late \cup {[request |-> asked, valid |-> valid,
                            declares |-> <<asked.intent, h>>]}
    /\ asked' = None
    /\ UNCHANGED <<open, reviewing, intent, wgen, candidate, preview, offered>>

AnyAnswer(request) == TRUE
Accepted(request) == request.gen = wgen /\ request.intent = intent
SameEdits(request) == request.intent = intent

\* Another workspace than the edits were made for: the edits bound to it go.
CandidateArrives(a) ==
    /\ open /\ a \in late /\ a.request.kind = "candidate" /\ late' = late \ {a}
    /\ \/ ~(Accepted(a.request) /\ a.valid)
          /\ UNCHANGED <<intent, wgen, asked, candidate, preview, offered>>
       \/ /\ Accepted(a.request) /\ a.valid /\ candidate' = a.declares
          /\ UNCHANGED <<intent, wgen, asked, preview, offered>>
       \/ /\ Accepted(a.request) /\ a.valid /\ intent < MaxIntent /\ wgen < MaxAsked
          /\ RequestCandidate(intent + 1)
          /\ UNCHANGED candidate
    /\ UNCHANGED <<open, reviewing>>

\* The plan may conflict with another instance: shown, but not offered.
ReviewArrives(a) ==
    /\ open /\ a \in late /\ a.request.kind = "review" /\ late' = late \ {a}
    /\ \/ ~SameEdits(a.request) /\ UNCHANGED <<candidate, preview, offered>>
       \/ SameEdits(a.request) /\ ~a.valid /\ ForgetReview /\ UNCHANGED candidate
       \/ /\ SameEdits(a.request) /\ a.valid
          /\ candidate' = a.declares /\ preview' = a.declares
          /\ offered' \in BOOLEAN
    /\ UNCHANGED <<open, reviewing, intent, wgen, asked>>

\* The screen is left: its threads are cancelled with it.
LeaveWizard ==
    /\ open' = FALSE /\ reviewing' = FALSE
    /\ asked' = None /\ late' = {} /\ candidate' = None
    /\ intent' = 1 /\ wgen' = 1 /\ ForgetReview

WizardStep ==
    \/ Edit \/ Review \/ Back \/ Answered
    \/ \E a \in late : CandidateArrives(a) \/ ReviewArrives(a)
=============================================================================
