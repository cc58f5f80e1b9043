-------------------------- MODULE MCCircularBuffer --------------------------
(***************************************************************************)
(* Model-checking instance of CircularBuffer.                              *)
(***************************************************************************)
EXTENDS CircularBuffer

=============================================================================
