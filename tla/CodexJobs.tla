------------------------------ MODULE CodexJobs ------------------------------
(***************************************************************************)
(* One durable Codex job (codex_jobs.py): the files status.json and        *)
(* result.json, the transient systemd unit that runs the worker, and the   *)
(* callers of start, status, output and cancel.  No lock protects the      *)
(* files: the submitter, the worker and every caller read and write them   *)
(* between each other's steps.                                             *)
(***************************************************************************)
EXTENDS Naturals

CONSTANTS
    Callers,        \* processes that ask about the job once it has an id
    Hazards,        \* what may go wrong: see Hazard below
    MaxMishaps      \* bound on deaths and failures in one behaviour

VARIABLES
    bound,          \* the declaration still gives the job's execution binding
    submitter,      \* progress of start()
    status,         \* status.json
    result,         \* result.json
    unit,           \* the transient unit
    worker,         \* progress of run_worker in that unit
    fresh,          \* timestamps of status.json within INTERRUPT_GRACE_SECONDS
    caller,         \* progress of each caller
    mishaps,
    misled          \* history: an answer of systemd was wrong or came too late

vars == <<bound, submitter, status, result, unit, worker, fresh, caller, mishaps, misled>>

(* "kill": a process dies or fails to write a file.  "rebind": the         *)
(* declaration changes.  "timeout": systemd-run or systemctl stop gives up *)
(* on a request that systemd may still serve.  "query": systemctl show     *)
(* fails.  "delay": systemd, or a caller, takes longer than the grace.     *)
Hazard == {"kill", "rebind", "timeout", "query", "delay"}

ASSUME CodexJobsAssumption ==
    /\ Hazards \subseteq Hazard
    /\ MaxMishaps \in Nat

Terminal == {"succeeded", "failed", "cancelled", "interrupted"}
Waiting == {"queued", "running"}

NoStatus == [state |-> "none", started |-> FALSE]
Idle == [pc |-> "idle", op |-> "status", read |-> NoStatus, active |-> FALSE, stopped |-> FALSE]

CallerPc == {"idle", "show", "decide", "interrupt", "interrupt-result",
             "stop", "recheck", "cancel", "cancel-result"}
StatusVal == [state : {"none"} \cup Waiting \cup Terminal, started : BOOLEAN]
CallerVal == [pc : CallerPc, op : {"status", "cancel"}, read : StatusVal,
              active : BOOLEAN, stopped : BOOLEAN]

TypeOK ==
    /\ bound \in BOOLEAN
    /\ submitter \in {"new", "request", "launch", "refused", "refused-result", "answered"}
    /\ status \in StatusVal
    /\ result \in {"none"} \cup Terminal
    /\ unit \in {"absent", "enqueued", "live"}
    /\ worker \in {"none", "load", "mark", "codex", "finish-ok", "finish-bad",
                   "result-ok", "result-bad", "exit"}
    /\ fresh \in [created : BOOLEAN, started : BOOLEAN]
    /\ caller \in [Callers -> CallerVal]
    /\ mishaps \in 0..MaxMishaps
    /\ misled \in BOOLEAN

Init ==
    /\ bound = TRUE
    /\ submitter = "new"
    /\ status = NoStatus
    /\ result = "none"
    /\ unit = "absent"
    /\ worker = "none"
    /\ fresh = [created |-> FALSE, started |-> FALSE]
    /\ caller = [c \in Callers |-> Idle]
    /\ mishaps = 0
    /\ misled = FALSE

Mishap(h) ==
    /\ h \in Hazards
    /\ mishaps < MaxMishaps
    /\ mishaps' = mishaps + 1

SetStatus(s) == status' = [status EXCEPT !.state = s]

(***************************************************************************)
(* start()                                                                 *)
(***************************************************************************)
\* Preflight, the job directory and request.json.
WriteRequest ==
    /\ submitter = "new"
    /\ bound
    /\ submitter' = "request"
    /\ UNCHANGED <<bound, status, result, unit, worker, fresh, caller, mishaps, misled>>

WriteQueued ==
    /\ submitter = "request"
    /\ submitter' = "launch"
    /\ status' = [state |-> "queued", started |-> FALSE]
    /\ fresh' = [fresh EXCEPT !.created = TRUE]
    /\ UNCHANGED <<bound, result, unit, worker, caller, mishaps, misled>>

Launch ==
    /\ submitter = "launch"
    /\ unit' = "enqueued"
    /\ submitter' = "answered"
    /\ UNCHANGED <<bound, status, result, worker, fresh, caller, mishaps, misled>>

\* systemd-run exits non-zero, or times out with its request already queued.
LaunchRefused ==
    /\ submitter = "launch"
    /\ \/ Mishap("kill") /\ UNCHANGED <<unit, misled>>
       \/ Mishap("timeout") /\ unit' = "enqueued" /\ misled' = TRUE
    /\ submitter' = "refused"
    /\ UNCHANGED <<bound, status, result, worker, fresh, caller>>

RecordLaunchFailure ==
    /\ \/ /\ submitter = "refused"
          /\ submitter' = "refused-result"
          /\ SetStatus("failed")
          /\ UNCHANGED result
       \/ /\ submitter = "refused-result"
          /\ submitter' = "answered"
          /\ result' = "failed"
          /\ UNCHANGED status
    /\ UNCHANGED <<bound, unit, worker, fresh, caller, mishaps, misled>>

\* The submitter dies; its job directory is found by its name.
SubmitterDies ==
    /\ submitter \notin {"new", "answered"}
    /\ Mishap("kill")
    /\ submitter' = "answered"
    /\ UNCHANGED <<bound, status, result, unit, worker, fresh, caller, misled>>

Submit == WriteQueued \/ Launch \/ RecordLaunchFailure

(***************************************************************************)
(* The transient unit and run_worker                                       *)
(***************************************************************************)
StartUnit ==
    /\ unit = "enqueued"
    /\ unit' = "live"
    /\ worker' = "load"
    /\ UNCHANGED <<bound, submitter, status, result, fresh, caller, mishaps, misled>>

\* --collect: the unit is gone as soon as its process is.
UnitGone == unit' = "absent" /\ worker' = "none"

LoadBinding ==
    /\ worker = "load"
    /\ IF bound THEN worker' = "mark" /\ UNCHANGED unit ELSE UnitGone
    /\ UNCHANGED <<bound, submitter, status, result, fresh, caller, mishaps, misled>>

MarkRunning ==
    /\ worker = "mark"
    /\ worker' = "codex"
    /\ status' = [state |-> "running", started |-> TRUE]
    /\ fresh' = [fresh EXCEPT !.started = TRUE]
    /\ UNCHANGED <<bound, submitter, result, unit, caller, mishaps, misled>>

\* The Codex process exits 0, exits otherwise, or could not be executed.
CodexExits ==
    /\ worker = "codex"
    /\ worker' \in {"finish-ok", "finish-bad"}
    /\ UNCHANGED <<bound, submitter, status, result, unit, fresh, caller, mishaps, misled>>

Verdict(w) == IF w \in {"finish-ok", "result-ok"} THEN "succeeded" ELSE "failed"

FinishStatus ==
    /\ worker \in {"finish-ok", "finish-bad"}
    /\ worker' = IF worker = "finish-ok" THEN "result-ok" ELSE "result-bad"
    /\ SetStatus(Verdict(worker))
    /\ UNCHANGED <<bound, submitter, result, unit, fresh, caller, mishaps, misled>>

FinishResult ==
    /\ worker \in {"result-ok", "result-bad"}
    /\ worker' = "exit"
    /\ result' = Verdict(worker)
    /\ UNCHANGED <<bound, submitter, status, unit, fresh, caller, mishaps, misled>>

WorkerExits ==
    /\ worker = "exit"
    /\ UnitGone
    /\ UNCHANGED <<bound, submitter, status, result, fresh, caller, mishaps, misled>>

\* The worker fails to write, is killed, or the host goes down.
WorkerDies ==
    /\ unit # "absent"
    /\ Mishap("kill")
    /\ UnitGone
    /\ UNCHANGED <<bound, submitter, status, result, fresh, caller, misled>>

Work == StartUnit \/ LoadBinding \/ MarkRunning \/ FinishStatus \/ FinishResult \/ WorkerExits

(***************************************************************************)
(* status(), output() and cancel()                                         *)
(***************************************************************************)
Goto(c, pc) == caller' = [caller EXCEPT ![c].pc = pc]
Answer(c) == caller' = [caller EXCEPT ![c] = Idle]

\* _load_binding, then the read of status.json; either may raise.
Call(c, op) ==
    /\ caller[c].pc = "idle"
    /\ submitter = "answered"
    /\ bound
    /\ status.state # "none"
    /\ caller' = [caller EXCEPT ![c] = [Idle EXCEPT !.pc = "show", !.op = op, !.read = status]]
    /\ UNCHANGED <<bound, submitter, status, result, unit, worker, fresh, mishaps, misled>>

\* _unit_snapshot: what systemd says now; a failed query says "unknown".
Active == unit = "live"

Show(c) ==
    /\ caller[c].pc = "show"
    /\ \/ /\ caller' = [caller EXCEPT ![c].pc = "decide", ![c].active = Active]
          /\ UNCHANGED <<mishaps, misled>>
       \/ /\ Mishap("query")
          /\ misled' = TRUE
          /\ caller' = [caller EXCEPT ![c].pc = "decide", ![c].active = FALSE]
    /\ UNCHANGED <<bound, submitter, status, result, unit, worker, fresh>>

NoGrace(read) == FALSE
EndlessGrace(read) == TRUE
WithinGrace(read) == IF read.started THEN fresh.started ELSE fresh.created

NotInterrupted(c) ==
    caller[c].active \/ (caller[c].read.state \in Waiting /\ WithinGrace(caller[c].read))

\* The rest of _reconciled_status, and cancel's branch on what it returns.
Decide(c) ==
    /\ caller[c].pc = "decide"
    /\ \/ result # "none" /\ Answer(c)
       \/ /\ result = "none" /\ NotInterrupted(c)
          /\ IF caller[c].op = "cancel" THEN Goto(c, "stop") ELSE Answer(c)
       \/ result = "none" /\ ~NotInterrupted(c) /\ Goto(c, "interrupt")
    /\ UNCHANGED <<bound, submitter, status, result, unit, worker, fresh, mishaps, misled>>

PersistInterrupted(c) ==
    /\ \/ /\ caller[c].pc = "interrupt"
          /\ status' = [caller[c].read EXCEPT !.state = "interrupted"]
          /\ Goto(c, "interrupt-result")
          /\ UNCHANGED result
       \/ /\ caller[c].pc = "interrupt-result"
          /\ result' = "interrupted"
          /\ Answer(c)
          /\ UNCHANGED status
    /\ UNCHANGED <<bound, submitter, unit, worker, fresh, mishaps, misled>>

\* systemctl stop: it fails for a unit that is not loaded.
Stop(c) ==
    /\ caller[c].pc = "stop"
    /\ caller' = [caller EXCEPT ![c].pc = "recheck", ![c].stopped = unit # "absent"]
    /\ UnitGone
    /\ UNCHANGED <<bound, submitter, status, result, fresh, mishaps, misled>>

TimeoutTakenForStop(c) ==
    /\ caller[c].pc = "stop"
    /\ Mishap("timeout")
    /\ caller' = [caller EXCEPT ![c].pc = "recheck", ![c].stopped = TRUE]
    /\ UnitGone \/ UNCHANGED <<unit, worker>>
    /\ UNCHANGED <<bound, submitter, status, result, fresh, misled>>

StopTimesOut(c) ==
    /\ caller[c].pc = "stop"
    /\ Mishap("timeout")
    /\ Answer(c)
    /\ UnitGone \/ UNCHANGED <<unit, worker>>
    /\ UNCHANGED <<bound, submitter, status, result, fresh, misled>>

ResultNotReread(c) ==
    /\ caller[c].pc = "recheck"
    /\ IF ~caller[c].stopped
       THEN Answer(c)
       ELSE caller' = [caller EXCEPT ![c].pc = "cancel", ![c].read = status]
    /\ UNCHANGED <<bound, submitter, status, result, unit, worker, fresh, mishaps, misled>>

\* "A fast worker may have completed": its result wins over the cancellation.
Recheck(c) ==
    /\ caller[c].pc = "recheck"
    /\ IF result # "none" \/ ~caller[c].stopped
       THEN Answer(c)
       ELSE caller' = [caller EXCEPT ![c].pc = "cancel", ![c].read = status]
    /\ UNCHANGED <<bound, submitter, status, result, unit, worker, fresh, mishaps, misled>>

PersistCancelled(c) ==
    /\ \/ /\ caller[c].pc = "cancel"
          /\ status' = [caller[c].read EXCEPT !.state = "cancelled"]
          /\ Goto(c, "cancel-result")
          /\ UNCHANGED result
       \/ /\ caller[c].pc = "cancel-result"
          /\ result' = "cancelled"
          /\ Answer(c)
          /\ UNCHANGED status
    /\ UNCHANGED <<bound, submitter, unit, worker, fresh, mishaps, misled>>

CallerDies(c) ==
    /\ caller[c].pc # "idle"
    /\ Mishap("kill")
    /\ Answer(c)
    /\ UNCHANGED <<bound, submitter, status, result, unit, worker, fresh, misled>>

Proceed(c) ==
    \/ Show(c) \/ Decide(c) \/ PersistInterrupted(c)
    \/ Stop(c) \/ Recheck(c) \/ PersistCancelled(c)

(***************************************************************************)
(* The environment                                                         *)
(***************************************************************************)
(* The grace exists because a unit may not be observable yet when          *)
(* systemd-run returns: unless "delay", the unit becomes active, and a     *)
(* caller that looked before it did has decided, before the grace ends.    *)
Observable ==
    /\ submitter = "answered"
    /\ unit # "enqueued"
    /\ \A c \in Callers : caller[c].pc = "decide" => caller[c].active \/ ~Active

GraceEnds ==
    /\ \E t \in {"created", "started"} :
          /\ fresh[t]
          /\ fresh' = [fresh EXCEPT ![t] = FALSE]
          /\ \/ (t = "created" => Observable) /\ UNCHANGED <<mishaps, misled>>
             \/ t = "created" /\ ~Observable /\ Mishap("delay") /\ misled' = TRUE
    /\ UNCHANGED <<bound, submitter, status, result, unit, worker, caller>>

\* The declaration's execution path, GitHub directory or presence changes.
Rebind ==
    /\ IF bound THEN Mishap("rebind") ELSE UNCHANGED mishaps
    /\ bound' = ~bound
    /\ UNCHANGED <<submitter, status, result, unit, worker, fresh, caller, misled>>

Next ==
    \/ WriteRequest \/ Submit \/ LaunchRefused \/ SubmitterDies
    \/ Work \/ CodexExits \/ WorkerDies
    \/ \E c \in Callers :
          \/ \E op \in {"status", "cancel"} : Call(c, op)
          \/ Proceed(c) \/ StopTimesOut(c) \/ CallerDies(c)
    \/ GraceEnds \/ Rebind

Spec == Init /\ [][Next]_vars

(* Every command has a timeout, systemd runs what it queued, the clock     *)
(* advances, and somebody keeps asking for the status of the job.          *)
FairSpec ==
    /\ Spec
    /\ WF_vars(Submit) /\ WF_vars(Work) /\ WF_vars(GraceEnds)
    /\ \A c \in Callers : WF_vars(Proceed(c))
    /\ WF_vars(\E c \in Callers : Call(c, "status"))

(***************************************************************************)
(* Properties                                                              *)
(***************************************************************************)
\* Once cancel() has answered "cancelled", no process of the job is left and none
\* will be started: the unit was stopped first, whatever systemd answered before.
CancelledIsStopped == result = "cancelled" => unit = "absent"

\* A job with a terminal result runs no Codex process any more, as long as systemd
\* answers truly and in time.
EndedJobIsStopped == (~misled /\ result # "none") => worker # "codex"

\* What the worker reports of its Codex process is what the job's result stays:
\* neither a cancellation nor a status call that raced with it replaces it.
WorkerVerdictKept ==
    [][(~misled' /\ result \in {"succeeded", "failed"}) => (result' = result)]_vars

\* A submitted job whose Codex process does not run for ever gets a result,
\* whatever died on the way, once its binding holds and somebody asks for it.
JobEnds ==
    (<>[]bound /\ WF_vars(CodexExits)) => (unit # "absent" ~> result # "none")
=============================================================================
