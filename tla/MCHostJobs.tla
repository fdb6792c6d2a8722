-------------------------------- MODULE MCHostJobs -------------------------------
(* A small instance of HostJobs for TLC. *)
EXTENDS HostJobs, TLC

CONSTANTS n1, n2, c1

\* The node Keepup runs on, another one and a container; edited, they are plain hosts.
NodesAndContainer == (n1 :> "node") @@ (n2 :> "node") @@ (c1 :> "lxc")
===============================================================================
