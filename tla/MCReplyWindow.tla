---------------------------- MODULE MCReplyWindow ----------------------------
(* Model values and symmetry for the runs of ReplyWindow: the requests are     *)
(* interchangeable.                                                            *)
EXTENDS ReplyWindow

CONSTANTS h1, h2

Symmetry == Permutations(Hooks)
=============================================================================
