---------------------------- MODULE MCAesdSocket ----------------------------
(***************************************************************************)
(* Model-checking instances of AesdSocket: a few clients, one signal.      *)
(***************************************************************************)
EXTENDS AesdSocket

CONSTANTS c1, c2, c3
=============================================================================
