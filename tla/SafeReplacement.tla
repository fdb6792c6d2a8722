---------------------------- MODULE SafeReplacement ----------------------------
(***************************************************************************)
(* What the replacement of a container promises, whatever commands it is   *)
(* made of.  inPlace: a container known to be good answers to the name.    *)
(* aside: the original is kept under another name.  The original is moved  *)
(* aside; then either a replacement is confirmed in its place, and only    *)
(* then may the original be dropped, or the original is put back.  A       *)
(* confirmed replacement is never taken away again while the original is   *)
(* still aside.                                                            *)
(***************************************************************************)
VARIABLES inPlace, aside

vars == <<inPlace, aside>>

Init == inPlace = TRUE /\ aside = FALSE

MoveAside == inPlace /\ ~aside /\ inPlace' = FALSE /\ aside' = TRUE

Confirm == ~inPlace /\ aside /\ inPlace' = TRUE /\ UNCHANGED aside

Drop == inPlace /\ aside /\ aside' = FALSE /\ UNCHANGED inPlace

PutBack == ~inPlace /\ aside /\ inPlace' = TRUE /\ aside' = FALSE

Next == MoveAside \/ Confirm \/ Drop \/ PutBack

Spec == Init /\ [][Next]_vars
================================================================================
