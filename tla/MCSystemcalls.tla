--------------------------- MODULE MCSystemcalls ---------------------------
(***************************************************************************)
(* Model-checking instances of Systemcalls: two calls one after the other. *)
(***************************************************************************)
EXTENDS Systemcalls

Checked == {"do_system", "do_exec_redirect"}
Unchecked == {"do_exec"}
=============================================================================
