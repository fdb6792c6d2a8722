-------------------------- MODULE MCContainerInventory --------------------------
(* Small instances of ContainerInventory for TLC. *)
EXTENDS ContainerInventory, TLC

CONSTANTS a, x1, x2, k1, k2, p1, k

\* A host that runs a project of Portainer's, a container of no project, and Keepup
\* with a sibling in a project of its own that Portainer may know too.
OnOneHost == (x1 :> a) @@ (x2 :> a) @@ (k1 :> a) @@ (k2 :> a)
TwoProjects == (x1 :> p1) @@ (x2 :> NoProject) @@ (k1 :> k) @@ (k2 :> k)
BothPaths == (p1 :> 1) @@ (k :> 2)

\* The host has an agent and its settings are edited; or it has none, is still
\* configured by stack names and scanned twice at once; or it has one and what the code does not guard against
\* happens.
ThreeWorlds ==
    {[may |-> {"save", "edit host", "connect", "list", "portainer fails", "ps fails", "host fails"},
      agents |-> {a}, scans |-> {1}],
     [may |-> {"old settings", "connect", "list", "portainer fails", "host fails"},
      agents |-> {}, scans |-> {1, 2}],
     [may |-> {"old settings", "list", "recreate", "endpoint fails", "ps fails"},
      agents |-> {a}, scans |-> {1}]}
===============================================================================
