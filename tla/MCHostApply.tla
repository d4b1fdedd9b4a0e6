---------------------------- MODULE MCHostApply ----------------------------
(***************************************************************************)
(* Instances of HostApply for TLC.                                         *)
(***************************************************************************)
EXTENDS HostApply

\* The base configuration, an edit that moves the health port and what only
\* the MCP unit renders, and the two edits that a running tunnel withstands.
Base == [f \in ConfigField |-> 1]
Moved == [Base EXCEPT !["access"] = 2, !["health"] = 2]
PortEdit == [Base EXCEPT !["mcp"] = 2]
HostEdit == [Base EXCEPT !["healthHost"] = 2]

OneConfig == {Base}
FourConfigs == {Base, Moved, PortEdit, HostEdit}
=============================================================================
