------------------------------ MODULE Planner -------------------------------
(***************************************************************************)
(* ReconciliationPlanner.plan as sets of resources and units: what a plan  *)
(* for declaration d would do, computed from the observed host alone.      *)
(* "applied" is the ownership evidence of the last successful apply; it    *)
(* only serves to recognise guard units the declaration no longer has.     *)
(***************************************************************************)
EXTENDS InstanceHost

VARIABLE applied

(* HostResourceObserver.observe_resource *)
ObserveUnmarked(r, d) ==
    IF file[r] = Absent THEN "absent"
    ELSE IF file[r] = Text(r, d.cfg) THEN "exact"
    ELSE "different"
Observe(r, d) ==
    IF file[r] = Absent THEN "absent"
    ELSE IF file[r] = Foreign THEN "foreign"
    ELSE IF r = StateDir /\ file[Owner] \in {Absent, Foreign} THEN "foreign"
    ELSE IF file[r] = Text(r, d.cfg) THEN "exact"
    ELSE "different"

Present(d) == d.dep = "present"
Running(d) == d.run = "running"

(* stale_applied_guard_resources: installed guard units the applied        *)
(* evidence lists and the bundle no longer contains.                       *)
NeverStale(d) == {}
Stale(d) ==
    IF applied = None THEN {}
    ELSE {r \in GuardResource :
            /\ Present(applied)
            /\ r \in Bundle(applied)
            /\ r \notin Bundle(d)
            /\ file[r] # Absent}

StaleConflict(d) ==
    \E r \in Stale(d) : file[r] # Text(r, applied.cfg)

(* _file_operations *)
Creates(d) == {r \in Bundle(d) : Present(d) /\ Observe(r, d) = "absent"}
Updates(d) == {r \in Bundle(d) : Present(d) /\ Observe(r, d) = "different"}
Removes(d) ==
    {r \in Bundle(d) : ~Present(d) /\ Observe(r, d) \in {"exact", "different"}}
        \cup Stale(d)
FileConflict(d) == \E r \in Bundle(d) : Observe(r, d) = "foreign"
Changed(d) == Creates(d) \cup Updates(d)

(* _unit_operations *)
BundleUnits(d) == Bundle(d) \cap Unit
Wanted(d) == IF Present(d) /\ Running(d)
             THEN BundleUnits(d) \cap ActiveWhenRunning ELSE {}

\* A unit whose file is gone is reported as not enabled.
EnabledUnits == {u \in enabled : file[u] # Absent}

Enables(d) ==
    IF Present(d) THEN (BundleUnits(d) \cap EnableWhenPresent) \ EnabledUnits ELSE {}
Starts(d) == {u \in Wanted(d) : ~IsActive(u)}
Restarts(d) ==
    {u \in Wanted(d) :
        /\ IsActive(u)
        /\ u \in Changed(d) \/ (u = Tunnel /\ Mcp \in Changed(d))}
Stops(d) == {u \in (BundleUnits(d) \ Wanted(d)) \cup (Stale(d) \cap Unit) : IsActive(u)}
Disables(d) ==
    ((IF Present(d) THEN {} ELSE BundleUnits(d)) \cup (Stale(d) \cap Unit)) \cap EnabledUnits

(* _listener_conflicts: an endpoint that is already served must be served  *)
(* by this instance's own unit.  Only the MCP unit may differ from its     *)
(* rendering while it serves.                                              *)
ServedByExactUnit(d) == Observe(Mcp, d) = "exact"
ServedByOwnMcp(d) ==
    \/ Observe(Mcp, d) = "exact"
    \/ /\ Observe(Mcp, d) = "different"
       /\ Def(Mcp) \notin {Absent, Foreign}
       /\ Def(Mcp)["mcp"] = d.cfg["mcp"]

ListenerConflict(d) ==
    \/ d.cfg["mcp"] \in McpEndpoint /\ ~ServedByOwnMcp(d)
    \/ /\ <<d.cfg["healthHost"], d.cfg["health"]>> \in HealthEndpoint
       /\ Observe(Tunnel, d) # "exact"

Conflict(d) ==
    \/ Present(d) /\ ListenerConflict(d)
    \/ FileConflict(d)
    \/ StaleConflict(d)

PlanValid(d) == ~Conflict(d)

AllNoop(d) ==
    /\ Changed(d) = {} /\ Removes(d) = {} /\ Enables(d) = {}
    /\ Starts(d) = {} /\ Restarts(d) = {} /\ Stops(d) = {} /\ Disables(d) = {}
=============================================================================
