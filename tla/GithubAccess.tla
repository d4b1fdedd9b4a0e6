---------------------------- MODULE GithubAccess ----------------------------
(***************************************************************************)
(* GitHub access of an instance.  `configure` provisions the profile and   *)
(* has gh log in to it from the terminal, `verify` asks GitHub and the     *)
(* instance's MCP server who is logged in and writes that down; both hold  *)
(* the instance's operation lock.  `status` takes the record as evidence   *)
(* as long as the context it was made in is the one it finds.              *)
(***************************************************************************)
EXTENDS Naturals, SessionContinuity

CONSTANTS
    Accounts,
    Targets,        \* repository, deployment and MCP endpoint declared
    Unknown,        \* no account was asked for, or no answer came
    None

ASSUME GithubAssumption == None \notin Procs /\ {Unknown, None} \cap Accounts = {}

VARIABLES
    declared,       \* of the declaration, what a verification depends on
    profile,        \* the managed profile's directory
    credential,     \* the account logged in to it, or None
    record,         \* the verification record, or None
    writes,         \* records written so far
    holder,         \* who holds the operation lock, or None
    logins,         \* logins that run without a helper
    op,             \* the operations
    exposed         \* the credential may have changed and nobody looked

github == <<declared, profile, credential, record, writes, holder, logins, op, exposed>>
state == <<declared, profile, credential, record, writes, logins, exposed>>

NoOp == [pc |-> "new", kind |-> None, context |-> None, began |-> 0, seen |-> Unknown,
         login |-> FALSE, session |-> FALSE]

Settings == [mode : {"managed", "other"}, target : Targets]

GithubInit ==
    /\ declared \in Settings
    /\ profile = "absent" /\ credential = None
    /\ record = None /\ writes = 0 /\ holder = None /\ logins = {}
    /\ op = [p \in Procs |-> NoOp] /\ exposed = FALSE

In(p, pc) == op[p].pc = pc
Op(p, next) == op' = [op EXCEPT ![p] = next]
Step(p, pc) == Op(p, [op[p] EXCEPT !.pc = pc])

AlwaysFree == TRUE
Free == holder = None

Begin(p, kind) ==
    /\ Op(p, [NoOp EXCEPT !.pc = "lock", !.kind = kind])
    /\ UNCHANGED <<state, holder, server>>

OperationLock(p) ==
    /\ In(p, "lock") /\ Free /\ holder' = p
    /\ Step(p, IF op[p].kind = "verify" THEN "sample" ELSE "provision")
    /\ UNCHANGED <<state, server>>

\* after two seconds: the status as it is
Busy(p) ==
    /\ In(p, "lock") /\ ~Free /\ Step(p, "over")
    /\ UNCHANGED <<state, holder, server>>

Release(p) == Step(p, "over") /\ holder' = None

(***************************************************************************)
(* configure                                                               *)
(***************************************************************************)
\* The profile is a directory first and the manager's own when its marker is
\* there; a directory without a marker is nobody's to use.
EnsureProfile(p) ==
    /\ In(p, "provision")
    /\ \/ declared.mode # "managed" /\ Release(p) /\ UNCHANGED profile
       \/ /\ declared.mode = "managed" /\ profile = "absent" /\ profile' = "unmarked"
          /\ Step(p, "mark") /\ UNCHANGED holder
       \/ declared.mode = "managed" /\ profile = "unmarked" /\ Release(p) /\ UNCHANGED profile
       \/ /\ declared.mode = "managed" /\ profile = "ready"
          /\ Step(p, "helper") /\ UNCHANGED <<profile, holder>>
    /\ UNCHANGED <<declared, credential, record, writes, logins, exposed, server>>

MarkProfile(p) ==
    /\ In(p, "mark") /\ profile' = "ready" /\ Step(p, "helper")
    /\ UNCHANGED <<declared, credential, record, writes, holder, logins, exposed, server>>

\* No terminal, or no usable gh: nothing is asked.
NothingAsked(p) ==
    /\ In(p, "helper") /\ Release(p)
    /\ UNCHANGED <<state, server>>

\* The operator enters nothing, or a token that is handed to gh.
Enter(p) ==
    /\ In(p, "helper")
    /\ \/ Step(p, "sample")
       \/ Op(p, [op[p] EXCEPT !.pc = "login", !.login = TRUE])
    /\ UNCHANGED <<state, holder, server>>

\* What was stored is verified whatever became of the login.
AfterSuccess(ok) == IF ok THEN "sample" ELSE "helper"
AfterLogin(ok) == "sample"

\* gh succeeds, or fails, or is stopped after 120 seconds; a gh that is
\* stopped may have stored the token already.
LoginEnds(p) ==
    /\ In(p, "login")
    /\ \E ok \in BOOLEAN, a \in Accounts \cup {credential} :
        /\ ok => a \in Accounts
        /\ credential' = a /\ Step(p, AfterLogin(ok))
    /\ UNCHANGED <<declared, profile, record, writes, holder, logins, exposed, server>>

\* After 130 seconds the helper is killed; the gh it started is not.
HelperKilled(p) ==
    /\ In(p, "login") /\ Step(p, "sample")
    /\ logins' = logins \cup {p} /\ exposed' = TRUE
    /\ UNCHANGED <<declared, profile, credential, record, writes, holder, server>>

LateLogin(p) ==
    /\ p \in logins /\ logins' = logins \ {p}
    /\ credential' \in Accounts \cup {credential}
    /\ UNCHANGED <<declared, profile, record, writes, holder, op, exposed, server>>

(***************************************************************************)
(* verify                                                                  *)
(***************************************************************************)
\* The managed profile counts where it is used; other changes of the
\* declaration, and changes that are taken back, do not count.
Context ==
    [mode |-> declared.mode, target |-> declared.target,
     profile |-> IF declared.mode = "managed" THEN profile ELSE "not applicable"]
ProfileReady == declared.mode = "managed" /\ profile = "ready"

\* GitHub is asked about a managed profile that is in order, with a usable gh.
Sample(p) ==
    /\ In(p, "sample")
    /\ \E asked \in BOOLEAN :
        /\ asked => ProfileReady
        /\ Op(p, [op[p] EXCEPT !.pc = IF asked THEN "identity" ELSE "write",
                               !.context = Context, !.began = writes, !.seen = Unknown])
    /\ UNCHANGED <<state, holder, server>>

AskGithub(p) ==
    /\ In(p, "identity")
    /\ \E a \in {credential, Unknown} :
        Op(p, [op[p] EXCEPT !.pc = IF a \in Accounts THEN "mcp" ELSE "write", !.seen = a])
    /\ UNCHANGED <<state, holder, server>>

\* The account asked for again through the MCP server, in a session of its own.
McpSession(p) ==
    /\ In(p, "mcp")
    /\ \/ /\ Open(<<p, "V">>)
          /\ \/ Op(p, [op[p] EXCEPT !.pc = "delete", !.session = stateful])
             \/ Step(p, "write")
       \/ Step(p, "write") /\ UNCHANGED sessions
    /\ UNCHANGED <<state, holder, stateful, commands, cont>>

McpDelete(p) ==
    /\ In(p, "delete") /\ Op(p, [op[p] EXCEPT !.pc = "write", !.session = FALSE])
    /\ sessions' \in {sessions, sessions \ (IF op[p].session THEN {<<p, "V">>} ELSE {})}
    /\ UNCHANGED <<state, holder, stateful, commands, cont>>

\* What status says of a record that is not older than five minutes.
ContextValid == record # None /\ record.context = Context

ContextNow(p) == Context
ContextProbed(p) == op[p].context

WriteRecord(p) ==
    /\ In(p, "write") /\ Release(p)
    /\ record' = [context |-> ContextProbed(p), account |-> op[p].seen, began |-> op[p].began]
    /\ writes' = writes + 1
    /\ UNCHANGED <<declared, profile, credential, logins, exposed, server>>

(***************************************************************************)
(* Mishaps.                                                                *)
(***************************************************************************)
InLock(p) == holder = p
Unseen(p) == op[p].login \/ exposed

\* The process dies, or the record cannot be written: the lock goes with it,
\* a login it has started goes on.
Dies(p) ==
    /\ InLock(p) /\ Release(p)
    /\ exposed' = Unseen(p)
    /\ logins' = IF In(p, "login") THEN logins \cup {p} ELSE logins
    /\ UNCHANGED <<declared, profile, credential, record, writes, server>>

Redeclare ==
    /\ declared' \in Settings \ {declared}
    /\ UNCHANGED <<profile, credential, record, writes, holder, logins, op, exposed, server>>

GithubStep(p) ==
    \/ OperationLock(p) \/ Busy(p)
    \/ EnsureProfile(p) \/ MarkProfile(p) \/ NothingAsked(p) \/ Enter(p) \/ LoginEnds(p)
    \/ HelperKilled(p) \/ LateLogin(p)
    \/ Sample(p) \/ AskGithub(p) \/ McpSession(p) \/ McpDelete(p) \/ WriteRecord(p)
    \/ Dies(p)

\* Evidence is never replaced by evidence of an earlier time.
LatestEvidenceWins ==
    [][record' # record => record'.began = writes]_github

\* Evidence that status takes for valid names the account that is logged in,
\* if any, unless a login was left running, or a configure did not live to
\* verify what it did.
ValidEvidenceHolds ==
    (Free /\ ~exposed /\ ContextValid) =>
        record.account \in IF declared.mode = "managed" THEN {credential, Unknown} ELSE {Unknown}
=============================================================================
