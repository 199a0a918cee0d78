---------------------------- MODULE MCConversation ----------------------------
(* Model values for the run of Conversation: d owns m, q and v, which is not in *)
(* force.                                                                        *)
EXTENDS Conversation, TLC

CONSTANTS t1, t2, m, q, v, d

Owned == d :> {m, q, v}
=============================================================================
