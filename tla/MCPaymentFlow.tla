--------------------------- MODULE MCPaymentFlow ---------------------------
(* Model values and symmetry for the runs of PaymentFlow. The jobs, and the  *)
(* taps, are interchangeable: no definition names one of them.               *)
EXTENDS PaymentFlow, TLC

CONSTANTS j1, j2, p1, p2, p3, t1, t2

Symmetry == Permutations(Jobs) \cup Permutations(Taps)
=============================================================================
