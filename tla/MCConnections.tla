----------------------------- MODULE MCConnections -----------------------------
(* A small instance of Connections for TLC. *)
EXTENDS Connections, TLC

CONSTANTS u1, u2, h1, h2, own, ca

TwoUrls == {u1, u2}
TwoNames == {h1, h2}
TwoCerts == {own, ca}

\* Two Proxmox servers of different names; Portainer and Proxmox at ports of the same.
ThreeLayouts ==
    {[kind |-> <<"proxmox", "proxmox">>, name |-> (u1 :> h1 @@ u2 :> h2), cert |-> (u1 :> own @@ u2 :> ca), old |-> {u1}],
     [kind |-> <<"proxmox", "portainer">>, name |-> (u1 :> h1 @@ u2 :> h1), cert |-> (u1 :> own @@ u2 :> own), old |-> {u1}],
     [kind |-> <<"pbs", "portainer">>, name |-> (u1 :> h1 @@ u2 :> h2), cert |-> (u1 :> own @@ u2 :> ca), old |-> {u1}]}
===============================================================================
