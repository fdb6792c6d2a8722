---------------------------- MODULE MCProxmoxServers ----------------------------
(* A small instance of ProxmoxServers for TLC. *)
EXTENDS ProxmoxServers

CONSTANTS u1, u2, b1, b2, n1, m1, c2

\* A node and a virtual machine on u1, a container on u2.
ThreeGuests == {n1, m1, c2}
OwnerOf == (n1 :> u1) @@ (m1 :> u1) @@ (c2 :> u2)
KindOf == (n1 :> "node") @@ (m1 :> "vm") @@ (c2 :> "lxc")

\* URLs with hosts of their own, and with the same host (another port).
OwnSlug == (u1 :> b1) @@ (u2 :> b2)
SameSlug == (u1 :> b1) @@ (u2 :> b1)

\* A new installation in its wizard; an upgraded one with its admin pages; one
\* that is set up, reset and set up again.
ThreeWorlds ==
    {[may |-> {"wizard"}, slug |-> SameSlug],
     [may |-> {"upgraded", "admin", "crash"}, slug |-> OwnSlug],
     [may |-> {"wizard", "admin", "reset"}, slug |-> SameSlug]}
===============================================================================
