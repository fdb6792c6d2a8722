----------------------------- MODULE MCActivityLog -----------------------------
(* A small instance of ActivityLog for TLC. *)
EXTENDS ActivityLog, TLC

CONSTANTS l1, l2

\* One entry with a day, one whose ran_at cannot be parsed.
MixedAt == (l1 :> 0) @@ (l2 :> Garbled)
===============================================================================
