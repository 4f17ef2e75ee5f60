------------------------------- MODULE MCLogin -------------------------------
(* LoginWindow with two users, one of whom may be logged in automatically. *)
EXTENDS LoginWindow
=============================================================================
