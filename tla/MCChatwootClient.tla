-------------------------- MODULE MCChatwootClient --------------------------
(* Model values for the runs of ChatwootClient.                              *)
EXTENDS ChatwootClient, TLC

CONSTANTS j1, j2, j3, j4, j5, j6, j7, s1, s2, negada

TwoStages == <<s1, s2>>

KindOf == (j1 :> "mirrorIn") @@ (j2 :> "escalation") @@ (j3 :> "status") @@ (j4 :> "mark")
          @@ (j5 :> "sync") @@ (j6 :> "sweep") @@ (j7 :> "mirrorOut")
KindsOf == [j \in Jobs |-> KindOf[j]]
=============================================================================
