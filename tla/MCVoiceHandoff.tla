---------------------------- MODULE MCVoiceHandoff ----------------------------
(* Model values for the runs of VoiceHandoff: d owns m and w, e owns q; m is not  *)
(* in force.                                                                     *)
EXTENDS VoiceHandoff, TLC

CONSTANTS t1, r1, r2, c, x, m, w, q, d, e

Owned == d :> {m, w} @@ e :> {q}

Asked(kind, case, number, doc) == [kind |-> kind, case |-> case, number |-> number, doc |-> doc]

\* The unanswered call of a case with a document that is not the policy's, its
\* cession with the one that is, and a coupon for another policy, without document.
Voice == {Asked("no_answer", c, m, e), Asked("case", c, m, d), Asked("link", x, w, None)}

Symmetry == Permutations(Calls)
=============================================================================
