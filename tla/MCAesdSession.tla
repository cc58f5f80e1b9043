--------------------------- MODULE MCAesdSession ---------------------------
(***************************************************************************)
(* Model-checking instances of AesdSession: two or three peers, one of     *)
(* which seeks.                                                            *)
(***************************************************************************)
EXTENDS AesdSession

CONSTANTS c1, c2, c3, a, s1, s2, nl

Digits == {0, 1}

(* Two writers, one with text after its newline and one that sends nothing *)
(* but a newline, and a peer that seeks, then writes.  In the build for a  *)
(* regular file, which forgets nothing, they send less.                    *)
Peers == {c1, c2, c3}
MixedScript ==
  (TRUE :> ((c1 :> <<a, nl, a>>) @@ (c2 :> <<nl>>) @@ (c3 :> <<s1, s2, 0, 1, nl>>)))
  @@ (FALSE :> ((c1 :> <<a, nl>>) @@ (c2 :> <<>>) @@ (c3 :> <<s1, s2, 0, 1, nl>>)))

(* A peer that sends one seek command, and nothing else.                   *)
SeekScript == TRUE :> (c1 :> <<s1, s2, 0, 0, nl>>)
=============================================================================
