---------------------------- MODULE InstanceHost ----------------------------
(***************************************************************************)
(* The host of ONE declared instance: its declaration in the registry, the *)
(* resources the manager generates for it, what is on disk, and the        *)
(* user-systemd manager that runs its services.  The reconciler            *)
(* (HostApply) and the admission guard act on this state concurrently.     *)
(***************************************************************************)
EXTENDS Naturals, FiniteSets

CONSTANTS
    Configs,    \* the configurations a declaration may hold
    Absent,     \* no such file / unit not loaded
    Foreign,    \* a file without this instance's ownership marker
    None        \* not running

VARIABLES
    desired,    \* registry declaration
    file,       \* content of every managed path
    contents,   \* children of the state directory other than .owner
    enabled,    \* units enabled at boot
    cached,     \* unit definitions systemd has loaded
    running,    \* what each active unit was started from
    guardpc     \* the oneshot admission-guard service

hostVars == <<desired, file, contents, enabled, cached, running, guardpc>>

(* Generated resources.  Profile directory, launcher, GitHub, agent and    *)
(* access resources are reconciled as the tunnel profile is: plain files.  *)
StateDir == "state-dir"
Owner    == "state-owner"
Profile  == "tunnel-profile"
Mcp      == "mcp-unit"
Tunnel   == "tunnel-unit"
GuardSvc == "admission-guard-unit"
Timer    == "admission-guard-timer"

Resource == {StateDir, Owner, Profile, Mcp, Tunnel, GuardSvc, Timer}
GuardResource == {GuardSvc, Timer}
Unit == {Mcp, Tunnel, GuardSvc, Timer}
Service == {Mcp, Tunnel, Timer}      \* the units that stay active once started

(* The declaration fields the generator tells apart.  "access" stands for  *)
(* everything only the MCP unit renders.  The tunnel's binary and          *)
(* environment file, which no generated file renders, are left out.        *)
ConfigField == {"mcp", "access", "health", "healthHost"}

ASSUME ConfigsAreRecords ==
    \A c \in Configs : c = [f \in ConfigField |-> c[f]]

McpUnitFields == {"mcp", "access"}
TunnelUnitFields == {"mcp", "health"}
ProfileFields == {"mcp", "health", "healthHost"}

Fields(r) ==
    CASE r = Mcp -> McpUnitFields
      [] r = Tunnel -> TunnelUnitFields
      [] r = Profile -> ProfileFields
      [] OTHER -> {}

\* The content the generator renders for a resource.
Text(r, c) == [f \in Fields(r) |-> c[f]]
Texts == UNION {{Text(r, c) : r \in Resource} : c \in Configs}
FileValue == Texts \cup {Absent, Foreign}

ASSUME SentinelsAreNotTexts ==
    /\ Absent # Foreign
    /\ None \notin {Absent, Foreign}
    /\ {Absent, Foreign, None} \cap Texts = {}

\* What a process was started from: see Launch.
Process == [unit : FileValue, profile : FileValue]

ASSUME NoneIsNoProcess == None \notin Process

Declaration ==
    [dep : {"present", "absent"}, run : {"running", "stopped"},
     guard : BOOLEAN, cfg : Configs]

\* The domain rejects deployment=absent with runtime=running.
ValidDeclaration == {d \in Declaration : d.dep = "absent" => d.run = "stopped"}

ASSUME NoneIsNoDeclaration == None \notin Declaration

Bundle(d) == IF d.guard THEN Resource ELSE Resource \ GuardResource

EnableWhenPresent == Service
ActiveWhenRunning == Service

(***************************************************************************)
(* The user-systemd manager (external), as the generated units use it:     *)
(* the tunnel unit has Requires=/After= the MCP unit, the timer starts the *)
(* oneshot guard service.                                                  *)
(***************************************************************************)
Def(u) == IF cached[u] # Absent THEN cached[u] ELSE file[u]

\* What a process is started from; the tunnel also reads its profile.
Launch(u) ==
    [unit |-> Def(u),
     profile |-> IF u = Tunnel THEN file[Profile] ELSE Absent]

IsActive(u) == IF u = GuardSvc THEN guardpc # "off" ELSE running[u] # None

Startable(u) ==
    /\ Def(u) # Absent
    /\ u = Tunnel => running[Mcp] # None \/ Def(Mcp) # Absent

AfterStart(u) ==
    [v \in Service |->
        IF running[v] # None THEN running[v]
        ELSE IF v = u \/ (u = Tunnel /\ v = Mcp) THEN Launch(v)
        ELSE None]

AfterRestart(u) ==
    [v \in Service |->
        IF \/ v = u
           \/ u = Mcp /\ v = Tunnel /\ running[Tunnel] # None
           \/ u = Tunnel /\ v = Mcp /\ running[Mcp] = None
        THEN Launch(v)
        ELSE running[v]]

AfterStop(S) ==
    [v \in Service |->
        IF v \in S \/ (v = Tunnel /\ Mcp \in S) THEN None ELSE running[v]]

\* A loaded definition stays in use until the next daemon-reload.
Loaded(S) == [u \in Unit |-> IF u \in S THEN Def(u) ELSE cached[u]]
Reloaded(files) == [u \in Unit |-> files[u]]

\* Services append their log below the state directory when it exists.
WithLog == IF file[StateDir] = Absent THEN contents ELSE contents \cup {"runtime"}

\* The endpoints the active services listen on: the MCP server takes its
\* endpoint from its unit, the tunnel its health listener from the profile.
McpEndpoint ==
    IF running[Mcp] = None \/ running[Mcp].unit \in {Absent, Foreign} THEN {}
    ELSE {running[Mcp].unit["mcp"]}
HealthEndpoint ==
    IF running[Tunnel] = None \/ running[Tunnel].profile \in {Absent, Foreign} THEN {}
    ELSE {<<running[Tunnel].profile["healthHost"], running[Tunnel].profile["health"]>>}

HostTypeOK ==
    /\ desired \in ValidDeclaration
    /\ file \in [Resource -> FileValue]
    /\ contents \subseteq {"runtime", "unknown"}
    /\ enabled \subseteq Unit
    /\ cached \in [Unit -> FileValue]
    /\ running \in [Service -> Process \cup {None}]
    /\ guardpc \in {"off", "probe", "persisted", "restarted"}
=============================================================================
