----------------------------- MODULE ExportedLog -----------------------------
(***************************************************************************)
(* What the audit log promises whoever reads the files: entries are only   *)
(* appended, a line is written once in the order of the entries and again  *)
(* only after a failure, none is skipped, and each is written in the end.  *)
(* AuditChain implements it with a lock, a hash chain and a cursor file.   *)
(***************************************************************************)
EXTENDS Integers

CONSTANT Contents   \* what an entry can say

VARIABLES
  log,        \* the entries: an id and what it says
  exported,   \* ids with a line
  repeated,   \* ids with more than one line
  failed      \* has anything failed?

vars == <<log, exported, repeated, failed>>

Init == log = {} /\ exported = {} /\ repeated = {} /\ failed = FALSE

\* Ids increase, and may leave gaps.
Append ==
  /\ \E e \in log' :
       /\ e.id \in Nat /\ e.content \in Contents
       /\ log' = log \cup {e}
       /\ \A d \in log : d.id < e.id
  /\ UNCHANGED <<exported, repeated, failed>>

\* The first line of an entry: after those of all the earlier ones.
Export(e) ==
  /\ e.id \notin exported
  /\ \A d \in log : d.id < e.id => d.id \in exported
  /\ exported' = exported \cup {e.id}
  /\ UNCHANGED <<log, repeated, failed>>

Repeat(e) ==
  /\ failed /\ e.id \in exported
  /\ repeated' = repeated \cup {e.id}
  /\ UNCHANGED <<log, exported, failed>>

Fail == failed' = TRUE /\ UNCHANGED <<log, exported, repeated>>

ExportNext == \E e \in log : Export(e)

Next == Append \/ ExportNext \/ (\E e \in log : Repeat(e)) \/ Fail

SafeSpec == Init /\ [][Next]_vars
Spec     == SafeSpec /\ WF_vars(ExportNext)
=============================================================================
