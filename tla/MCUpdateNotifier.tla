---------------------------- MODULE MCUpdateNotifier ----------------------------
(* A small instance of UpdateNotifier for TLC. *)
EXTENDS UpdateNotifier, TLC

CONSTANTS s1, i1, i2, portainer

\* One Portainer stack of two images.
TwoImages == s1 :> {i1, i2}
OnPortainer == s1 :> portainer
===============================================================================
