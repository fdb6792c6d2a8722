-------------------------- MODULE MCStandaloneUpdate --------------------------
(* A small instance of StandaloneUpdate for TLC. *)
EXTENDS StandaloneUpdate

\* Anything may go wrong, or anything but the rollback and the connection.
AnyOrForward == {Faults, Faults \ {"rm_new", "restore", "start", "connection"}}
===============================================================================
