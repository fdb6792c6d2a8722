------------------------- MODULE MCAutoUpdateScheduler -------------------------
(* Small instances of AutoUpdateScheduler for TLC. *)
EXTENDS AutoUpdateScheduler, TLC

CONSTANTS h1, h2, p1, j1

\* One stack, served by Portainer.
OneId == p1 :> j1
OnH1 == p1 :> h1
===============================================================================
