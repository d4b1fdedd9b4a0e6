------------------------------- MODULE Reboot -------------------------------
(***************************************************************************)
(* Host reboots: `host reboot` writes a checkpoint, asks the privileged    *)
(* bridge whether it may, asks it to, and records what it answered, if the *)
(* host is still there; `host reboot-check` compares the boot identity     *)
(* with the checkpoint's and looks for the instances that ran before, one  *)
(* read after the other, while operators declare and apply and units come  *)
(* and go.  There is one checkpoint file and no lock.                      *)
(***************************************************************************)
EXTENDS Naturals

CONSTANTS
    Instances,
    Requesters,     \* processes that run `host reboot`
    Checkers,       \* processes that run `host reboot-check`
    Fragile,        \* units that stop by themselves
    MaxRequests,    \* bound on the checkpoints created
    MaxBoots,       \* bound on boot identities
    MaxEdits,       \* bound on changes of declarations
    MaxDeclaration, \* declarations of an instance to be running: 1..MaxDeclaration
    None

Units == {"mcp", "tunnel"}

\* A declaration, told by its fingerprint; 0 where the instance is not to run.
Declarations == 0..MaxDeclaration

Verdicts == {"reconciled", "boot_observed_waiting_recovery"}
CheckpointState ==
    Verdicts \cup {"prepared", "authorization_failed", "requesting", "request_failed",
                   "request_accepted"}

\* What a process may find in checkpoint.json.
Checkpoint ==
    [id : Nat, state : CheckpointState, before : Nat, after : Nat \cup {None},
     expected : UNION {[S -> Declarations \ {0}] : S \in SUBSET Instances}]

ASSUME RebootAssumption ==
    /\ Fragile \subseteq Units
    /\ {MaxRequests, MaxBoots, MaxEdits, MaxDeclaration} \subseteq Nat \ {0}
    /\ None \notin Nat \cup Checkpoint

VARIABLES
    boot,           \* boot identity
    rebooting,      \* the request whose reboot systemd has queued, or 0
    decl,           \* the registry
    edits,          \* changes of it so far
    deployed,       \* the declarations the unit files are of
    up,             \* active units: pairs of instance and unit
    checkpoint,     \* checkpoint.json, or None
    requests,       \* checkpoint ids given out
    req,            \* processes of `host reboot`
    chk,            \* processes of `host reboot-check`
    origin,         \* the request this boot was asked by, or 0
    declared,       \* what was declared in this boot: pairs of instance and declaration
    served,         \* what has been up in it: an instance, a unit, the declaration it is of
    drifted         \* instances declared otherwise than deployed at some time of it

host == <<boot, rebooting, origin>>
history == <<declared, served, drifted>>
instances == <<decl, edits, deployed, up, history>>
vars == <<host, instances, checkpoint, requests, req, chk>>

Expected == {i \in Instances : decl[i] # 0}
Capture == [i \in Expected |-> decl[i]]
IdleRequest == [pc |-> "idle", cp |-> None]
IdleCheck == [pc |-> "idle", cp |-> None, left |-> {}, at |-> None, ok |-> TRUE]

DeclaredNow == {<<i, decl[i]>> : i \in Instances}

Init ==
    /\ boot = 1 /\ rebooting = 0 /\ origin = 0
    /\ decl \in [Instances -> {0, 1}] /\ deployed = decl /\ edits = 0
    /\ up = Expected \X Units /\ served = {<<i, u, decl[i]>> : i \in Expected, u \in Units}
    /\ declared = DeclaredNow /\ drifted = {}
    /\ checkpoint = None /\ requests = 0
    /\ req = [r \in Requesters |-> IdleRequest]
    /\ chk = [c \in Checkers |-> IdleCheck]

(***************************************************************************)
(* request()                                                               *)
(***************************************************************************)
Become(r, pc, state) == req' = [req EXCEPT ![r].pc = pc, ![r].cp.state = state]

NewId == requests + 1

Request(r) ==
    /\ req[r].pc = "idle" /\ requests < MaxRequests
    /\ requests' = requests + 1
    /\ req' = [req EXCEPT ![r] = [pc |-> "prepare", cp |->
            [id |-> NewId, state |-> "prepared", before |-> boot, after |-> None,
             expected |-> Capture]]]
    /\ UNCHANGED <<host, instances, checkpoint, chk>>

\* _persist, and what follows it
AfterPersist == [prepare |-> "preflight", requesting |-> "bridge", answer |-> "idle"]
AnswerOnly(r) == IF req[r].pc = "answer" THEN req[r].cp ELSE checkpoint
Written(r) == req[r].cp

Persist(r) ==
    /\ req[r].pc \in DOMAIN AfterPersist
    /\ checkpoint' = Written(r)
    /\ req' = [req EXCEPT ![r] = IF req[r].pc = "answer" THEN IdleRequest
                                 ELSE [req[r] EXCEPT !.pc = AfterPersist[@]]]
    /\ UNCHANGED <<host, instances, requests, chk>>

\* the bridge is missing, cannot be run, or may not reboot; or it may
Preflight(r) ==
    /\ req[r].pc = "preflight"
    /\ Become(r, "answer", "authorization_failed") \/ Become(r, "requesting", "requesting")
    /\ UNCHANGED <<host, instances, checkpoint, requests, chk>>

\* The bridge answers, or not within 15 seconds: then nobody knows whether
\* the reboot is queued.
Bridge(r) ==
    /\ req[r].pc = "bridge"
    /\ \/ rebooting' = req[r].cp.id /\ Become(r, "answer", "request_accepted")
       \/ rebooting' \in {rebooting, req[r].cp.id} /\ Become(r, "answer", "request_failed")
    /\ UNCHANGED <<boot, origin, instances, checkpoint, requests, chk>>

RequestDies(r) ==
    /\ req[r].pc # "idle"
    /\ req' = [req EXCEPT ![r] = IdleRequest]
    /\ UNCHANGED <<host, instances, checkpoint, requests, chk>>

(***************************************************************************)
(* check()                                                                 *)
(***************************************************************************)
BootSeen(cp) == [cp EXCEPT !.after = boot]

Check(c) ==
    /\ chk[c].pc = "idle" /\ checkpoint # None
    /\ chk' = [chk EXCEPT ![c] =
            IF boot = checkpoint.before
            THEN [IdleCheck EXCEPT !.pc = "persist", !.cp = checkpoint]
            ELSE [IdleCheck EXCEPT !.pc = "reconcile", !.cp = BootSeen(checkpoint),
                                   !.left = DOMAIN checkpoint.expected]]
    /\ UNCHANGED <<host, instances, checkpoint, requests, req>>

Found(c, pc, ok) == chk' = [chk EXCEPT ![c].pc = pc, ![c].ok = @ /\ ok]

\* The declaration is compared first, and not again.
DeclaredAsBefore(c, i) == decl[i] = chk[c].cp.expected[i]

CheckInstance(c, i) ==
    /\ chk[c].pc = "reconcile" /\ i \in chk[c].left
    /\ LET next == [chk[c] EXCEPT !.left = @ \ {i}] IN
       chk' = [chk EXCEPT ![c] = IF DeclaredAsBefore(c, i)
                                 THEN [next EXCEPT !.pc = "mcp", !.at = i]
                                 ELSE [next EXCEPT !.ok = FALSE]]
    /\ UNCHANGED <<host, instances, checkpoint, requests, req>>

AfterUnit == [mcp |-> "tunnel", tunnel |-> "http"]
McpActive(c, u) == <<chk[c].at, "mcp">> \in up
UnitActive(c, u) == <<chk[c].at, u>> \in up

\* systemctl is-active, which may take too long
CheckUnit(c, u) ==
    /\ chk[c].pc = u
    /\ \E ok \in BOOLEAN : (ok => UnitActive(c, u)) /\ Found(c, AfterUnit[u], ok)
    /\ UNCHANGED <<host, instances, checkpoint, requests, req>>

\* Discovery, health and readiness: whoever answers at the declared endpoints.
CheckEndpoints(c) ==
    /\ chk[c].pc = "http" /\ \E ok \in BOOLEAN : Found(c, "reconcile", ok)
    /\ UNCHANGED <<host, instances, checkpoint, requests, req>>

CheckVerdict(c) ==
    /\ chk[c].pc = "reconcile" /\ chk[c].left = {}
    /\ chk' = [chk EXCEPT ![c].pc = "persist",
            ![c].cp.state = IF chk[c].ok THEN "reconciled" ELSE "boot_observed_waiting_recovery"]
    /\ UNCHANGED <<host, instances, checkpoint, requests, req>>

CheckPersist(c) ==
    /\ chk[c].pc = "persist"
    /\ checkpoint' = chk[c].cp
    /\ chk' = [chk EXCEPT ![c] = IdleCheck]
    /\ UNCHANGED <<host, instances, requests, req>>

CheckDies(c) ==
    /\ chk[c].pc # "idle"
    /\ chk' = [chk EXCEPT ![c] = IdleCheck]
    /\ UNCHANGED <<host, instances, checkpoint, requests, req>>

(***************************************************************************)
(* The host, its user manager and its operators.                           *)
(***************************************************************************)
HostReboots ==
    /\ boot < MaxBoots
    /\ boot' = boot + 1 /\ origin' = rebooting /\ rebooting' = 0
    /\ up' = {} /\ served' = {} /\ declared' = DeclaredNow
    /\ drifted' = {i \in Instances : decl[i] # deployed[i]}
    /\ req' = [r \in Requesters |-> IdleRequest]
    /\ chk' = [c \in Checkers |-> IdleCheck]
    /\ UNCHANGED <<decl, edits, deployed, checkpoint, requests>>

\* Units start from the files there are.
UnitStarts(i, u) ==
    /\ <<i, u>> \notin up /\ deployed[i] # 0
    /\ up' = up \cup {<<i, u>>} /\ served' = served \cup {<<i, u, deployed[i]>>}
    /\ UNCHANGED <<host, decl, edits, deployed, declared, drifted, checkpoint, requests, req, chk>>

UnitStops(i, u) ==
    /\ u \in Fragile /\ <<i, u>> \in up /\ up' = up \ {<<i, u>>}
    /\ UNCHANGED <<host, decl, edits, deployed, history, checkpoint, requests, req, chk>>

\* A declaration is written, and nothing else: also one there was before.
Redeclare(i) ==
    /\ edits < MaxEdits /\ edits' = edits + 1
    /\ \E d \in Declarations \ {decl[i]} :
        /\ decl' = [decl EXCEPT ![i] = d]
        /\ declared' = declared \cup {<<i, d>>}
    /\ drifted' = drifted \cup {i}
    /\ UNCHANGED <<host, deployed, up, served, checkpoint, requests, req, chk>>

\* It is applied: units that it renders as they are go on, the others stop.
Apply(i) ==
    /\ deployed[i] # decl[i] /\ deployed' = [deployed EXCEPT ![i] = decl[i]]
    /\ \E same \in IF decl[i] = 0 THEN {{}} ELSE SUBSET {u \in Units : <<i, u>> \in up} :
        /\ up' = up \ {<<i, u>> : u \in Units \ same}
        /\ served' = served \cup {<<i, u, decl[i]>> : u \in same}
    /\ UNCHANGED <<host, decl, edits, declared, drifted, checkpoint, requests, req, chk>>

Next ==
    \/ \E r \in Requesters :
        Request(r) \/ Persist(r) \/ Preflight(r) \/ Bridge(r) \/ RequestDies(r)
    \/ \E c \in Checkers :
        \/ Check(c) \/ CheckEndpoints(c) \/ CheckVerdict(c) \/ CheckPersist(c) \/ CheckDies(c)
        \/ \E i \in Instances : CheckInstance(c, i)
        \/ \E u \in Units : CheckUnit(c, u)
    \/ HostReboots
    \/ \E i \in Instances, u \in Units : UnitStarts(i, u) \/ UnitStops(i, u)
    \/ \E i \in Instances : Redeclare(i) \/ Apply(i)

Spec == Init /\ [][Next]_vars

(***************************************************************************)
(* Properties.                                                             *)
(***************************************************************************)
RebootTypeOK ==
    /\ boot \in 1..MaxBoots /\ requests \in 0..MaxRequests /\ edits \in 0..MaxEdits
    /\ {rebooting, origin} \subseteq 0..requests
    /\ {decl, deployed} \subseteq [Instances -> Declarations]
    /\ up \subseteq Instances \X Units
    /\ declared \subseteq Instances \X Declarations
    /\ served \subseteq Instances \X Units \X Declarations /\ drifted \subseteq Instances
    /\ checkpoint \in Checkpoint \cup {None}
    /\ req \in [Requesters ->
            [pc : {"idle", "prepare", "preflight", "requesting", "bridge", "answer"},
             cp : Checkpoint \cup {None}]]
    /\ chk \in [Checkers ->
            [pc : {"idle", "reconcile", "mcp", "tunnel", "http", "persist"},
             cp : Checkpoint \cup {None}, left : SUBSET Instances,
             at : Instances \cup {None}, ok : BOOLEAN]]

\* A unit of i has been up in this boot, and as d renders it, unless in this
\* boot the declaration was not, or not yet, the one that is applied.
HasBeenUp(i, u, d) ==
    \E of \in IF i \in drifted THEN Declarations ELSE {d} : <<i, u, of>> \in served

CameBack(i, d) == <<i, d>> \in declared /\ \A u \in Units : HasBeenUp(i, u, d)

\* `reconciled` is not said of the boot that runs unless in this boot every
\* instance that ran before was declared as it was then and has been up with
\* both its units: as declared then, but for the exception in HasBeenUp, since
\* check() compares declarations, never what is deployed, and looks at the
\* units later.
ReconciledWasServed ==
    (checkpoint # None /\ checkpoint.state = "reconciled" /\ checkpoint.after = boot) =>
        \A i \in DOMAIN checkpoint.expected : CameBack(i, checkpoint.expected[i])

\* After a reboot that a request asked for there is a checkpoint, and it
\* shows the boot has changed, until a request is made in the new boot.
RebootNoticed ==
    origin # 0 =>
        /\ checkpoint # None
        /\ checkpoint.before < boot \/ checkpoint.id > origin
=============================================================================
