---------------------------- MODULE MCStackRedeploy ----------------------------
(* Small instances of StackRedeploy for TLC. *)
EXTENDS StackRedeploy, TLC

CONSTANTS app, web, own

\* A project on the host whose folder has the name of Keepup's project, a project
\* of Portainer's, and Keepup, in Portainer's volume or on the host.
OwnAt(place) == (app :> "host") @@ (web :> "volume") @@ (own :> place)
OwnFolder == (app :> own) @@ (web :> web) @@ (own :> own)
Paths == (app :> 1) @@ (web :> 1) @@ (own :> 2)

\* Images are published while requests to Portainer time out; nothing is published
\* and everything else may fail; or what timed out may fail later.
ThreeWorlds ==
    {[faults |-> {"timeout"}, file |-> OwnAt("volume"), releases |-> 1],
     [faults |-> {"command", "ps", "endpoint"}, file |-> OwnAt("host"), releases |-> 0],
     [faults |-> {"timeout", "command"}, file |-> OwnAt("volume"), releases |-> 0]}
===============================================================================
