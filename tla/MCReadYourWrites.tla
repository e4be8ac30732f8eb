-------------------------- MODULE MCReadYourWrites --------------------------
(* Small instances of ReadYourWrites for TLC. *)
EXTENDS ReadYourWrites
=============================================================================
