---------------------------- MODULE MCAesdSocket ----------------------------
(* Model-checking instance of AesdSocket. *)
EXTENDS AesdSocket
=============================================================================
