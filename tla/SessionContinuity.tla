------------------------- MODULE SessionContinuity -------------------------
(***************************************************************************)
(* The session continuity probe: a manager process opens a protocol        *)
(* session with the instance's MCP server, starts a command in it, finds   *)
(* out whether a second session can handle that command, and cleans up.    *)
(* Every request may fail, be served without its answer coming back, or    *)
(* meet a server that has been restarted and knows nothing any more.       *)
(***************************************************************************)
CONSTANT Procs          \* manager processes

VARIABLES
    stateful,           \* the server hands out protocol sessions
    sessions,           \* the server's: pairs of a process and a name
    commands,           \* processes whose command the server is running
    cont                \* the probes

server == <<stateful, sessions, commands>>

NoProbe == [pc |-> "new", local |-> TRUE, mine |-> FALSE, fresh |-> FALSE, handle |-> FALSE,
            limited |-> FALSE, result |-> "unavailable", cleanup |-> "unknown"]

ContinuityInit ==
    /\ stateful \in BOOLEAN /\ sessions = {} /\ commands = {}
    /\ cont = [p \in Procs |-> NoProbe]

At(p, pc) == cont[p].pc = pc
Now(p, next) == cont' = [cont EXCEPT ![p] = next]
Goto(p, pc) == Now(p, [cont[p] EXCEPT !.pc = pc])
Failed(p) == [cont[p] EXCEPT !.pc = "finally", !.result = "failed"]

Open(s) == sessions' = sessions \cup (IF stateful THEN {s} ELSE {})

\* The server knows the session a request is made in, if it has any.
Knows(s) == stateful => s \in sessions

\* Any step may raise without having had an effect, and goes to `finally`.
Raises(p) ==
    /\ \E pc \in {"initialize", "exec", "own", "fresh", "cross", "kill"} : At(p, pc)
    /\ Now(p, Failed(p))
    /\ UNCHANGED server

\* Nothing is deployed, or there is no directory to try it in.
StartProbe(p) ==
    /\ \/ \E local \in BOOLEAN : Now(p, [NoProbe EXCEPT !.pc = "initialize", !.local = local])
       \/ Now(p, [NoProbe EXCEPT !.pc = "over"])
    /\ UNCHANGED server

Initialize(p) ==
    /\ At(p, "initialize") /\ Open(<<p, "A">>)
    /\ \/ Now(p, [cont[p] EXCEPT !.pc = "exec", !.mine = stateful])
       \/ Now(p, Failed(p))
    /\ UNCHANGED <<stateful, commands>>

\* The handle of a stateless server's command is not kept for `finally`.
ExecCommand(p) ==
    /\ At(p, "exec") /\ Knows(<<p, "A">>)
    /\ commands' = commands \cup {p}
    /\ \/ Now(p, [cont[p] EXCEPT !.pc = "own", !.handle = stateful])
       \/ Now(p, Failed(p))
    /\ UNCHANGED <<stateful, sessions>>

\* write_stdin and read_output
Interact(p) ==
    /\ At(p, "own") /\ Knows(<<p, "A">>)
    /\ Goto(p, IF stateful THEN "fresh" ELSE "kill")
    /\ UNCHANGED server

FreshSession(p) ==
    /\ At(p, "fresh")
    /\ \/ /\ sessions' = sessions \cup {<<p, "B">>}
          /\ \/ Now(p, [cont[p] EXCEPT !.pc = "cross", !.fresh = TRUE])
             \/ Now(p, Failed(p))
       \/ /\ Now(p, [cont[p] EXCEPT !.pc = "kill", !.limited = TRUE])
          /\ UNCHANGED sessions
    /\ UNCHANGED <<stateful, commands>>

\* What the fresh session was allowed to do with the command of the other.
CrossSession(scopes) == scopes = {"cross_session"}
SomeCrossSession(scopes) == "cross_session" \in scopes

CrossKill(p) ==
    /\ At(p, "cross") /\ <<p, "B">> \in sessions
    /\ \E talk, kill \in {"cross_session", "session_scoped", "unavailable"} :
        /\ commands' = IF kill = "cross_session" THEN commands \ {p} ELSE commands
        /\ \/ Now(p, IF CrossSession({talk, kill})
                     THEN [cont[p] EXCEPT !.pc = "done", !.handle = FALSE]
                     ELSE [cont[p] EXCEPT !.pc = "kill", !.limited = TRUE])
           \/ Now(p, Failed(p))
    /\ UNCHANGED <<stateful, sessions>>

KillSession(p) ==
    /\ At(p, "kill") /\ Knows(<<p, "A">>)
    /\ commands' = commands \ {p}
    /\ \/ Now(p, [cont[p] EXCEPT !.pc = "done", !.handle = FALSE])
       \/ Now(p, Failed(p))
    /\ UNCHANGED <<stateful, sessions>>

Done(p) ==
    /\ At(p, "done")
    /\ Now(p, [cont[p] EXCEPT !.pc = "finally",
                    !.result = IF cont[p].limited THEN "passed_with_limitations" ELSE "passed"])
    /\ UNCHANGED server

(***************************************************************************)
(* finally                                                                 *)
(***************************************************************************)
DeleteFresh(p) ==
    /\ At(p, "finally") /\ cont[p].fresh
    /\ sessions' \in {sessions, sessions \ {<<p, "B">>}}
    /\ Now(p, [cont[p] EXCEPT !.fresh = FALSE])
    /\ UNCHANGED <<stateful, commands>>

LastKill(p) ==
    /\ At(p, "finally") /\ ~cont[p].fresh /\ cont[p].handle
    /\ commands' \in {commands, commands \ {p}}
    /\ Now(p, [cont[p] EXCEPT !.handle = FALSE])
    /\ UNCHANGED <<stateful, sessions>>

\* A public endpoint need not support it.
DeleteMine(p) ==
    /\ At(p, "finally") /\ ~cont[p].fresh /\ ~cont[p].handle /\ cont[p].mine
    /\ \/ /\ sessions' = sessions \ {<<p, "A">>}
          /\ \E answer \in {"passed", "failed"} :
                Now(p, [cont[p] EXCEPT !.mine = FALSE, !.cleanup = answer])
       \/ /\ Now(p, [cont[p] EXCEPT !.mine = FALSE,
                        !.cleanup = IF cont[p].local THEN "failed" ELSE "unavailable"])
          /\ UNCHANGED sessions
    /\ UNCHANGED <<stateful, commands>>

ResultAsItIs(p) == cont[p].result

\* A stateless server's probe has nothing to clean up, and returns before
\* the cleanup is looked at.
Verdict(p) ==
    IF stateful /\ cont[p].local /\ cont[p].result = "passed" /\ cont[p].cleanup # "passed"
    THEN "failed"
    ELSE cont[p].result

Return(p) ==
    /\ At(p, "finally") /\ ~cont[p].fresh /\ ~cont[p].handle /\ ~cont[p].mine
    /\ Now(p, [cont[p] EXCEPT !.pc = "over", !.result = Verdict(p)])
    /\ UNCHANGED server

ContinuityStep(p) ==
    \/ Initialize(p) \/ ExecCommand(p) \/ Interact(p) \/ FreshSession(p) \/ CrossKill(p)
    \/ KillSession(p) \/ Done(p) \/ Raises(p)
    \/ DeleteFresh(p) \/ LastKill(p) \/ DeleteMine(p) \/ Return(p)

(***************************************************************************)
(* The server: a command has a time limit of its own; a restart, by the    *)
(* guard or the operator, ends its sessions and commands.                  *)
(***************************************************************************)
CommandExpires ==
    /\ \E p \in commands : commands' = commands \ {p}
    /\ UNCHANGED <<stateful, sessions, cont>>

ServerRestarts ==
    /\ sessions' = {} /\ commands' = {}
    /\ UNCHANGED <<stateful, cont>>

\* A probe that says it passed has left no command running and, unless it
\* says that it may have, no session of the server's open.
PassedMeansReclaimed ==
    \A p \in Procs : At(p, "over") =>
        /\ cont[p].result # "failed" => p \notin commands
        /\ cont[p].result = "passed" /\ cont[p].local => <<p, "A">> \notin sessions
=============================================================================
