------------------------- MODULE PaymentFlowProofs -------------------------
(***************************************************************************)
(* For every number of cases, jobs, taps, executions of the scheduler and  *)
(* faults, and with any overlap: types are kept, no case is approved       *)
(* before cartera tapped "aprobar", and no client is told of a             *)
(* confirmation before a case was recorded as approved.                    *)
(*                                                                         *)
(* Neither statement is inductive: the thread and the runs carry the       *)
(* decision and the text for several steps, and a replay of the thread by  *)
(* another tap carries them further. The invariant below says that each of *)
(* these carriers got them from a tap, or from an approval on record. That *)
(* the notice of an escalation follows a recorded reminder needs no more   *)
(* than the types and what a tick selects (EscalationIsLate). How often a  *)
(* reminder or a notice is repeated is counted: every sending over the     *)
(* first is owed to an execution beside, or to a fault.                    *)
(***************************************************************************)
EXTENDS PaymentFlow, FiniteSetTheorems, TLAPS

\* A run that carries a decision to approve, or the text of a confirmation.
RunOK(s) == /\ s.act = "aprobar" \/ s.at = "confirming" => Approved
            /\ s.msg = "confirmed" => approvals # {}

\* The same of the checkpoint.
ThreadOK == /\ thread.next = "confirming" => Approved
            /\ thread.msg = "confirmed" => approvals # {}

ApprovalInv == /\ \A r \in Runs : RunOK(run[r])
               /\ ThreadOK
               /\ approvals # {} => Approved
               /\ ConfirmationFollowsApproval

IInv == TypeOK /\ ApprovalInv

-----------------------------------------------------------------------------
(* Facts about the helpers *)

LEMMA ConstantsTyped ==
  /\ IdleRun \in Run /\ NoRow \in CaseRow
  /\ IdleRun.act = "none" /\ IdleRun.msg = "none" /\ IdleRun.at = "idle"
BY DEF IdleRun, Run, NoRow, CaseRow, Statuses, Messages, Actions, Nodes

\* A checkpoint keeps the types when the node left a well-typed run.
LEMMA CheckpointTyped ==
  ASSUME TypeOK, NEW r \in Runs, NEW s \in Run, NEW next \in Nodes \cup {"end"},
         Checkpoint(r, s, next)
  PROVE  thread' \in Thread /\ run' \in [Runs -> Run]
<1>1. thread' \in Thread
  BY DEF Checkpoint, Thread, Run
<1>2. [IdleRun EXCEPT !.at = "done"] \in Run
  BY DEF IdleRun, Run, Statuses, Messages
<1>3. [s EXCEPT !.found = NoCase, !.st = "none", !.n = 0] \in Run
  BY DEF Run, Statuses
<1> QED BY <1>1, <1>2, <1>3 DEF Checkpoint, TypeOK

\* Nothing un-taps or un-approves: what a carrier rests on stays.
LEMMA Monotone ==
  ASSUME tapped \subseteq tapped', approvals \subseteq approvals'
  PROVE  /\ Approved => Approved'
         /\ approvals # {} => approvals' # {}
BY DEF Approved

\* A checkpoint keeps ApprovalInv when the node left a run that satisfies it.
LEMMA CheckpointApproval ==
  ASSUME TypeOK, ApprovalInv, NEW r \in Runs, NEW s \in Run,
         NEW next \in Nodes \cup {"end"}, Checkpoint(r, s, next),
         tapped' = tapped, told' = told, approvals \subseteq approvals',
         approvals' # {} => Approved,
         s.act = "aprobar" \/ s.at = "confirming" => Approved,
         next = "confirming" => Approved,
         s.msg = "confirmed" => approvals' # {}
  PROVE  ApprovalInv'
<1>1. Approved' = Approved BY DEF Approved
<1>2. ThreadOK'
  BY <1>1 DEF Checkpoint, ThreadOK
<1>3. \A q \in Runs : RunOK(run[q])'
  <2>1. TAKE q \in Runs
  <2>2. CASE q # r
    <3>1. run'[q] = run[q] BY <2>2 DEF Checkpoint, TypeOK
    <3> QED BY <1>1, <3>1 DEF ApprovalInv, RunOK
  <2>3. CASE q = r
    <3>1. CASE s.at = "done"
      <4>1. run'[r] = [IdleRun EXCEPT !.at = "done"]
        BY <3>1 DEF Checkpoint, TypeOK
      <4>2. run'[r].act = "none" /\ run'[r].at = "done" /\ run'[r].msg = "none"
        BY <4>1 DEF IdleRun
      <4> QED BY <2>3, <4>2 DEF RunOK
    <3>2. CASE s.at # "done"
      <4>1. run'[r] = [s EXCEPT !.found = NoCase, !.st = "none", !.n = 0]
        BY <3>2 DEF Checkpoint, TypeOK
      <4>2. run'[r].act = s.act /\ run'[r].at = s.at /\ run'[r].msg = s.msg
        BY <4>1 DEF Run
      <4> QED BY <1>1, <2>3, <4>2 DEF RunOK
    <3> QED BY <3>1, <3>2
  <2> QED BY <2>2, <2>3
<1>4. ConfirmationFollowsApproval'
  BY DEF ApprovalInv, ConfirmationFollowsApproval
<1> QED BY <1>1, <1>2, <1>3, <1>4 DEF ApprovalInv

\* A step that only moves run r to a run that satisfies RunOK.
LEMMA RunApproval ==
  ASSUME TypeOK, ApprovalInv, NEW r \in Runs, NEW s \in Run,
         run' = [run EXCEPT ![r] = s], RunOK(s),
         UNCHANGED <<tapped, told, approvals>>,
         thread'.next = "confirming" => thread.next = "confirming",
         thread'.msg = thread.msg
  PROVE  ApprovalInv'
<1>1. Approved' = Approved BY DEF Approved
<1>2. \A q \in Runs : RunOK(run[q])'
  BY <1>1 DEF RunOK, ApprovalInv, TypeOK
<1> QED BY <1>1, <1>2 DEF ApprovalInv, ThreadOK, ConfirmationFollowsApproval

\* A step that touches none of the carriers.
LEMMA FrameApproval ==
  ASSUME ApprovalInv, UNCHANGED <<run, thread, tapped, told, approvals>>
  PROVE  ApprovalInv'
BY DEF ApprovalInv, RunOK, ThreadOK, ConfirmationFollowsApproval, Approved

\* The initial state satisfies the invariant.
LEMMA InitInv == Init => IInv
<1> SUFFICES ASSUME Init PROVE IInv OBVIOUS
<1>1. created \in 0 .. MaxCases /\ db \in [Cases -> CaseRow]
  BY ConstantsTyped, CasesAssumption DEF Init
<1>2. thread \in Thread /\ run \in [Runs -> Run]
  BY ConstantsTyped DEF Init, Thread, Messages
<1>3. tick \in [Ticks -> [plan : [Cases -> {"none"} \cup Todo \cup Done],
                          n : [Cases -> Nat]]]
  BY DEF Init, IdleTick
<1>4. TypeOK
  BY <1>1, <1>2, <1>3 DEF Init, TypeOK
<1>5. ApprovalInv
  BY ConstantsTyped
  DEF Init, ApprovalInv, RunOK, ThreadOK, ConfirmationFollowsApproval
<1> QED BY <1>4, <1>5 DEF IInv

\* Types, for a step that only moves run r and the checkpoint.
LEMMA RunTyped ==
  ASSUME TypeOK, NEW r \in Runs, NEW s \in Run, run' = [run EXCEPT ![r] = s],
         thread' \in Thread,
         UNCHANGED <<dbVars, tick, clock, cartera, client, alerts>>, faults' \in Nat
  PROVE  TypeOK'
BY DEF TypeOK, dbVars, clock, cartera, client, alerts

-----------------------------------------------------------------------------
(* The steps of a job, and of a tap that replays them *)

LEMMA JobStartInv ==
  ASSUME IInv, NEW j \in Jobs, NEW f \in Files, JobStart(j, f) PROVE IInv'
<1> DEFINE s == [IdleRun EXCEPT !.at = "receive", !.case = thread.case,
                                !.msg = thread.msg, !.file = f]
<1>1. /\ j \in Runs /\ s \in Run /\ s.act = "none" /\ s.at = "receive"
      /\ s.msg = thread.msg
  BY DEF IInv, TypeOK, Runs, IdleRun, Run, Thread, Nodes, Statuses
<1>2. run' = [run EXCEPT ![j] = s] BY DEF JobStart
<1>3. thread' \in Thread /\ thread'.next = "receive" /\ thread'.msg = thread.msg
  BY DEF IInv, TypeOK, JobStart, Thread, Nodes
<1>4. TypeOK'
  BY <1>1, <1>2, <1>3, RunTyped DEF IInv, JobStart, TypeOK
<1>5. RunOK(s) BY <1>1 DEF RunOK, IInv, ApprovalInv, ThreadOK
<1>6. ApprovalInv'
  BY <1>1, <1>2, <1>3, <1>5, RunApproval
  DEF IInv, JobStart, cartera, client
<1> QED BY <1>4, <1>6 DEF IInv

\* A run that ends by an exception, or is put back to be run again.
LEMMA EndInv ==
  ASSUME IInv, NEW r \in Runs, NEW at \in {"dead", "idle", "done"},
         run' = [run EXCEPT ![r] = [IdleRun EXCEPT !.at = at]],
         UNCHANGED <<dbVars, thread, tick, clock, cartera, client, alerts>>,
         faults' \in Nat
  PROVE  IInv'
<1> DEFINE s == [IdleRun EXCEPT !.at = at]
<1>1. s \in Run /\ s.act = "none" /\ s.at = at /\ s.msg = "none"
  BY DEF IdleRun, Run, Nodes, Statuses, Messages
<1>2. TypeOK' BY <1>1, RunTyped DEF IInv, TypeOK
<1>3. RunOK(s) BY <1>1 DEF RunOK
<1>4. ApprovalInv'
  BY <1>1, <1>3, RunApproval DEF IInv, cartera, client
<1> QED BY <1>2, <1>4 DEF IInv

\* A step inside a node: the run moves on with the same decision and text.
LEMMA MoveInv ==
  ASSUME IInv, NEW r \in Runs, NEW s \in Run,
         run' = [run EXCEPT ![r] = s], s.at # "confirming",
         s.act = run[r].act, s.msg = run[r].msg,
         UNCHANGED <<dbVars, thread, tick, clock, faults, cartera, client, alerts>>
  PROVE  IInv'
<1>1. TypeOK' BY RunTyped DEF IInv, TypeOK
<1>2. RunOK(s) BY DEF IInv, ApprovalInv, RunOK
<1>3. ApprovalInv' BY <1>2, RunApproval DEF IInv, cartera, client
<1> QED BY <1>1, <1>3 DEF IInv

LEMMA FindCaseInv == ASSUME IInv, NEW r \in Runs, FindCase(r) PROVE IInv'
<1> DEFINE st == IF ReusableCase = NoCase THEN "none" ELSE db[ReusableCase].status
           s == [run[r] EXCEPT !.at = "store", !.found = ReusableCase, !.st = st]
<1>1. ReusableCase \in {NoCase} \cup Cases
  BY CasesAssumption DEF IInv, TypeOK, ReusableCase, Cases, NoCase
<1>2. st \in Statuses
  BY <1>1 DEF IInv, TypeOK, CaseRow, Statuses
<1>3. s \in Run /\ s.at = "store" /\ s.act = run[r].act /\ s.msg = run[r].msg
  <2>1. run[r] \in Run BY DEF IInv, TypeOK
  <2> QED BY <1>1, <1>2, <2>1 DEF Run
<1>4. run' = [run EXCEPT ![r] = s]
  BY DEF FindCase
<1> QED BY <1>3, <1>4, MoveInv DEF FindCase

LEMMA LoadCaseInv == ASSUME IInv, NEW r \in Runs, LoadCase(r) PROVE IInv'
<1> DEFINE c == run[r].case
           s == [run[r] EXCEPT !.at = "send", !.st = db[c].status, !.n = db[c].atts]
<1>1. c \in Cases BY DEF IInv, TypeOK, LoadCase, Run
<1>2. s \in Run /\ s.at = "send" /\ s.act = run[r].act /\ s.msg = run[r].msg
  <2>1. run[r] \in Run /\ db[c] \in CaseRow BY <1>1 DEF IInv, TypeOK
  <2>2. db[c].status \in Statuses /\ db[c].atts \in Nat BY <2>1 DEF CaseRow
  <2> QED BY <2>1, <2>2 DEF Run
<1>3. run' = [run EXCEPT ![r] = s]
  BY DEF LoadCase
<1> QED BY <1>2, <1>3, MoveInv DEF LoadCase

LEMMA SendMediaInv == ASSUME IInv, NEW r \in Runs, SendMedia(r) PROVE IInv'
<1> DEFINE s == [run[r] EXCEPT !.at = "record"]
<1>1. s \in Run /\ s.at = "record" /\ s.act = run[r].act /\ s.msg = run[r].msg
  <2>1. run[r] \in Run BY DEF IInv, TypeOK
  <2> QED BY <2>1 DEF Run
<1>2. run' = [run EXCEPT ![r] = s]
  BY DEF SendMedia
<1>3. run[r].case \in {NoCase} \cup Cases /\ run[r].n \in Nat
  BY DEF IInv, TypeOK, Run
<1>4. TypeOK'
  BY <1>1, <1>2, <1>3 DEF IInv, TypeOK, SendMedia, dbVars, clock, client, alerts
<1>5. RunOK(s) BY <1>1 DEF IInv, ApprovalInv, RunOK
<1>6. ApprovalInv'
  BY <1>1, <1>2, <1>5, RunApproval DEF IInv, SendMedia, client
<1> QED BY <1>4, <1>6 DEF IInv

\* A step that ends a node: the rows it wrote are typed, the checkpoint and the
\* run it leaves carry a decision or a confirmation only if they may.
LEMMA NodeInv ==
  ASSUME IInv, NEW r \in Runs, NEW s \in Run, NEW next \in Nodes \cup {"end"},
         Checkpoint(r, s, next),
         created' \in 0 .. MaxCases, db' \in [Cases -> CaseRow], faults' \in Nat,
         UNCHANGED <<tick, clock, cartera, told, alerts>>,
         approvals \subseteq approvals', approvals' \subseteq Cases,
         refiled' \subseteq Cases,
         approvals' # {} => Approved,
         s.act = "aprobar" \/ s.at = "confirming" => Approved,
         next = "confirming" => Approved,
         s.msg = "confirmed" => approvals' # {}
  PROVE  IInv'
<1>1. thread' \in Thread /\ run' \in [Runs -> Run]
  BY CheckpointTyped DEF IInv
<1>2. TypeOK'
  BY <1>1 DEF IInv, TypeOK, clock, cartera, alerts
<1>3. ApprovalInv'
  BY CheckpointApproval DEF IInv, cartera
<1> QED BY <1>2, <1>3 DEF IInv

\* What a run may carry, it may carry on.
LEMMA RunFacts ==
  ASSUME IInv, NEW r \in Runs
  PROVE  /\ run[r] \in Run
         /\ run[r].act = "aprobar" \/ run[r].at = "confirming" => Approved
         /\ run[r].msg = "confirmed" => approvals # {}
         /\ approvals \subseteq Cases /\ (approvals # {} => Approved)
         /\ refiled \subseteq Cases
BY DEF IInv, TypeOK, ApprovalInv, RunOK

\* An update of one row keeps the table typed.
LEMMA RowTyped ==
  ASSUME TypeOK, NEW c, NEW row, c \in Cases => row \in CaseRow,
         db' = [db EXCEPT ![c] = row]
  PROVE  db' \in [Cases -> CaseRow]
BY DEF TypeOK

LEMMA StoreInNewCaseInv == ASSUME IInv, NEW r \in Runs, StoreInNewCase(r) PROVE IInv'
<1> DEFINE c == created + 1
           row == [db[c] EXCEPT !.status = "forwarded", !.atts = 1]
           s == [run[r] EXCEPT !.at = "forward", !.case = c]
<1>1. c \in Cases /\ c \in 0 .. MaxCases
  BY CasesAssumption DEF IInv, TypeOK, StoreInNewCase, Cases
<1>2. s \in Run /\ s.at = "forward" /\ s.act = run[r].act /\ s.msg = run[r].msg
  BY <1>1, RunFacts DEF Run, Nodes
<1>3. db' \in [Cases -> CaseRow]
  <2>1. db[c] \in CaseRow BY <1>1 DEF IInv, TypeOK
  <2>2. row \in CaseRow BY <2>1 DEF CaseRow, Statuses
  <2> QED BY <2>2, RowTyped DEF StoreInNewCase, IInv
<1>4. Checkpoint(r, s, "forward") /\ created' = c BY DEF StoreInNewCase
<1> QED
  BY <1>1, <1>2, <1>3, <1>4, RunFacts, NodeInv
  DEF StoreInNewCase, IInv, TypeOK, client, Nodes

LEMMA StoreInFoundCaseInv ==
  ASSUME IInv, NEW r \in Runs, StoreInFoundCase(r) PROVE IInv'
<1> DEFINE c == run[r].found
           row == [db[c] EXCEPT !.atts = db[c].atts + 1,
                                !.status = OrmSet(run[r].st, "forwarded", db[c].status)]
           s == [run[r] EXCEPT !.at = "forward", !.case = c]
<1>1. c \in Cases BY RunFacts DEF StoreInFoundCase, Run
<1>2. s \in Run /\ s.at = "forward" /\ s.act = run[r].act /\ s.msg = run[r].msg
  BY <1>1, RunFacts DEF Run, Nodes
<1>3. db' \in [Cases -> CaseRow]
  <2>1. db[c] \in CaseRow BY <1>1 DEF IInv, TypeOK
  <2>2. /\ OrmSet(run[r].st, "forwarded", db[c].status) \in Statuses
        /\ db[c].atts + 1 \in Nat
    BY <2>1 DEF CaseRow, Statuses, OrmSet
  <2>3. row \in CaseRow BY <2>1, <2>2 DEF CaseRow
  <2> QED BY <2>3, RowTyped DEF StoreInFoundCase, IInv
<1>4. Checkpoint(r, s, "forward") BY DEF StoreInFoundCase
<1> QED
  BY <1>2, <1>3, <1>4, RunFacts, NodeInv
  DEF StoreInFoundCase, IInv, TypeOK, client, Nodes

LEMMA RejectFileInv == ASSUME IInv, NEW r \in Runs, RejectFile(r) PROVE IInv'
<1> DEFINE s == [run[r] EXCEPT !.at = "forward"]
<1>1. s \in Run /\ s.at = "forward" /\ s.act = run[r].act /\ s.msg = run[r].msg
  BY RunFacts DEF Run, Nodes
<1>2. Checkpoint(r, s, "forward") BY DEF RejectFile
<1> QED
  BY <1>1, <1>2, RunFacts, NodeInv
  DEF RejectFile, IInv, TypeOK, client, dbVars, Nodes

LEMMA SuspendedIs ==
  ASSUME IInv, NEW r \in Runs
  PROVE  LET s == [run[r] EXCEPT !.at = Suspended(r)]
         IN  /\ s \in Run /\ s.at \in {"done", "dispatch"}
             /\ s.act = run[r].act /\ s.msg = run[r].msg
BY RunFacts DEF Run, Suspended

LEMMA DeferInv == ASSUME IInv, NEW r \in Runs, Defer(r) PROVE IInv'
<1> DEFINE c == run[r].case
           row == [db[c] EXCEPT !.status = "awaiting_cartera", !.due = "future"]
           s == [run[r] EXCEPT !.at = Suspended(r)]
<1>1. c \in Cases BY RunFacts DEF Defer, Run
<1>2. /\ s \in Run /\ s.at \in {"done", "dispatch"}
      /\ s.act = run[r].act /\ s.msg = run[r].msg
  BY SuspendedIs
<1>3. db' \in [Cases -> CaseRow]
  <2>1. db[c] \in CaseRow BY <1>1 DEF IInv, TypeOK
  <2>2. row \in CaseRow BY <2>1 DEF CaseRow, Statuses
  <2> QED BY <2>2, RowTyped DEF Defer, IInv
<1>4. Checkpoint(r, s, "awaiting") BY DEF Defer
<1> QED
  BY <1>2, <1>3, <1>4, RunFacts, NodeInv DEF Defer, IInv, TypeOK, client, Nodes

LEMMA RecordForwardInv ==
  ASSUME IInv, NEW r \in Runs, RecordForward(r) PROVE IInv'
<1> DEFINE c == run[r].case
           row == [db[c] EXCEPT !.status = OrmSet(run[r].st, "awaiting_cartera", db[c].status),
                                !.wamid = TRUE, !.due = "future"]
           s == [run[r] EXCEPT !.at = Suspended(r)]
<1>1. /\ s \in Run /\ s.at \in {"done", "dispatch"}
      /\ s.act = run[r].act /\ s.msg = run[r].msg
  BY SuspendedIs
<1>2. db' \in [Cases -> CaseRow]
  <2>1. c \in Cases => db[c] \in CaseRow BY DEF IInv, TypeOK
  <2>2. c \in Cases => row \in CaseRow BY <2>1 DEF CaseRow, Statuses, OrmSet
  <2> QED BY <2>2, RowTyped DEF RecordForward, IInv
<1>3. Checkpoint(r, s, "awaiting") BY DEF RecordForward
<1> QED
  BY <1>1, <1>2, <1>3, RunFacts, NodeInv
  DEF RecordForward, IInv, TypeOK, client, Nodes

LEMMA SendMediaFailsInv ==
  ASSUME IInv, NEW r \in Runs, SendMediaFails(r) PROVE IInv'
<1> DEFINE c == run[r].case
           row == [db[c] EXCEPT !.status = OrmSet(run[r].st, "escalated", db[c].status),
                                !.escalated = TRUE]
           s == [run[r] EXCEPT !.at = Suspended(r)]
<1>1. /\ s \in Run /\ s.at \in {"done", "dispatch"}
      /\ s.act = run[r].act /\ s.msg = run[r].msg
  BY SuspendedIs
<1>2. db' \in [Cases -> CaseRow]
  <2>1. c \in Cases => db[c] \in CaseRow BY DEF IInv, TypeOK
  <2>2. c \in Cases => row \in CaseRow BY <2>1 DEF CaseRow, Statuses, OrmSet
  <2> QED BY <2>2, RowTyped DEF SendMediaFails, IInv
<1>3. Checkpoint(r, s, "awaiting") /\ faults' \in Nat
  BY DEF SendMediaFails, Fault, IInv, TypeOK
<1> QED
  BY <1>1, <1>2, <1>3, RunFacts, NodeInv
  DEF SendMediaFails, IInv, TypeOK, client, Nodes

-----------------------------------------------------------------------------
(* The steps of a tap *)

\* A tap on a case that is still open: its own decision is now in `tapped`.
LEMMA TapInv ==
  ASSUME IInv, NEW p \in Taps, NEW c \in Cases, NEW a \in Actions, Tap(p, c, a)
  PROVE  IInv'
<1> DEFINE s == IF db[c].status \in Terminal THEN [IdleRun EXCEPT !.at = "done"]
                ELSE [IdleRun EXCEPT !.at = "resume", !.on = c, !.act = a]
<1>1. p \in Runs /\ run' = [run EXCEPT ![p] = s] BY DEF Runs, Tap
<1>2. s \in Run /\ s.act \in {"none", a} /\ s.at \in {"done", "resume"} /\ s.msg = "none"
  BY DEF IdleRun, Run, Nodes, Statuses, Messages, Actions
<1>3. tapped' = tapped \cup {<<c, a>>} BY DEF Tap
<1>4. TypeOK'
  BY <1>1, <1>2, <1>3 DEF IInv, TypeOK, Tap, dbVars, clock, client, alerts
<1>5. Approved => Approved' BY <1>3 DEF Approved
<1>6. a = "aprobar" => Approved' BY <1>3 DEF Approved
<1>7. \A r \in Runs : RunOK(run[r])'
  <2>1. TAKE r \in Runs
  <2>2. CASE r = p
    BY <1>1, <1>2, <1>6, <2>2 DEF RunOK, IInv, TypeOK
  <2>3. CASE r # p
    <3>1. run'[r] = run[r] /\ approvals' = approvals
      BY <1>1, <2>3 DEF IInv, TypeOK, Tap, client
    <3> QED BY <1>5, <3>1 DEF IInv, ApprovalInv, RunOK
  <2> QED BY <2>2, <2>3
<1>8. ApprovalInv'
  BY <1>5, <1>7 DEF IInv, ApprovalInv, ThreadOK, ConfirmationFollowsApproval, Tap, client
<1> QED BY <1>4, <1>8 DEF IInv

\* The resumed run takes what the checkpoint holds; it keeps its decision only.
LEMMA ResumeInv == ASSUME IInv, NEW p \in Taps, Resume(p) PROVE IInv'
<1> DEFINE s == [run[p] EXCEPT
               !.case = thread.case, !.msg = thread.msg, !.file = thread.file,
               !.act = IF thread.next = "awaiting" THEN run[p].act ELSE "none",
               !.at  = IF thread.next = "end" THEN "dispatch" ELSE thread.next]
<1>1. p \in Runs BY DEF Runs
<1>2. run[p] \in Run /\ thread \in Thread BY <1>1, RunFacts DEF IInv, TypeOK
<1>3. run' = [run EXCEPT ![p] = s] BY DEF Resume
<1>4. s \in Run
  <2>1. /\ thread.case \in {NoCase} \cup Cases /\ thread.msg \in Messages
        /\ thread.file \in Files \cup {"none"} /\ thread.next \in Nodes \cup {"end"}
    BY <1>2 DEF Thread
  <2>2. run[p].act \in Actions \cup {"none"} BY <1>2 DEF Run
  <2>3. (IF thread.next = "end" THEN "dispatch" ELSE thread.next)
          \in Nodes \cup {"dispatch"}
    BY <2>1
  <2>4. (IF thread.next = "awaiting" THEN run[p].act ELSE "none")
          \in Actions \cup {"none"}
    BY <2>2
  <2>5. ASSUME NEW case \in {NoCase} \cup Cases, NEW msg \in Messages,
               NEW file \in Files \cup {"none"}, NEW act \in Actions \cup {"none"},
               NEW at \in Nodes \cup {"dispatch"}
        PROVE  [run[p] EXCEPT !.case = case, !.msg = msg, !.file = file,
                              !.act = act, !.at = at] \in Run
    BY <1>2 DEF Run
  <2> QED BY <2>1, <2>3, <2>4, <2>5
<1>5. /\ s.act \in {"none", run[p].act} /\ s.msg = thread.msg
      /\ s.at = "confirming" => thread.next = "confirming"
  BY <1>2 DEF Run
<1>6. RunOK(s)
  BY <1>1, <1>5, RunFacts DEF RunOK, IInv, ApprovalInv, ThreadOK
<1>7. TypeOK'
  BY <1>1, <1>3, <1>4, RunTyped DEF Resume, IInv, TypeOK
<1>8. ApprovalInv'
  BY <1>1, <1>3, <1>4, <1>6, RunApproval DEF Resume, IInv, cartera, client
<1> QED BY <1>7, <1>8 DEF IInv

\* What a decision leaves of the run.
LEMMA Decided ==
  ASSUME NEW k \in Run, NEW place \in {"dispatch", "confirming", "escalate"}
  PROVE  LET s == [k EXCEPT !.act = "none", !.at = place]
         IN  s \in Run /\ s.act = "none" /\ s.msg = k.msg /\ s.at = place
<1> DEFINE h == [k EXCEPT !.act = "none"]
           s == [h EXCEPT !.at = place]
<1>1. h \in Run /\ h.act = "none" /\ h.msg = k.msg
  BY DEF Run
<1>2. place \in Nodes \cup {"dispatch"}
  BY DEF Nodes
<1>3. s \in Run /\ s.act = h.act /\ s.msg = h.msg /\ s.at = place
  <2> HIDE DEF h
  <2> QED BY <1>1, <1>2 DEF Run
<1>4. s = [k EXCEPT !.act = "none", !.at = place]
  BY DEF Run
<1> QED BY <1>1, <1>3, <1>4

\* Only the action "aprobar" routes to node_confirming.
LEMMA DecideInv == ASSUME IInv, NEW p \in Taps, Decide(p) PROVE IInv'
<1> DEFINE node == NodeAfter(run[p].act)
           place == IF node = "awaiting" THEN "dispatch" ELSE node
           s == [run[p] EXCEPT !.act = "none", !.at = place]
<1>1. p \in Runs BY DEF Runs
<1>2. run[p] \in Run BY <1>1, RunFacts
<1>3. /\ node \in {"confirming", "escalate", "awaiting"}
      /\ node = "confirming" => run[p].act = "aprobar"
  BY DEF NodeAfter
<1>4. /\ s \in Run /\ s.act = "none" /\ s.msg = run[p].msg
      /\ s.at = "confirming" => node = "confirming"
  <2>1. /\ place \in {"dispatch", "confirming", "escalate"}
        /\ place = "confirming" => node = "confirming"
    BY <1>3
  <2> HIDE DEF node, place
  <2> QED BY <1>2, <2>1, Decided
<1>5. Checkpoint(p, s, node) BY DEF Decide
<1> QED
  BY <1>1, <1>3, <1>4, <1>5, RunFacts, NodeInv
  DEF Decide, IInv, TypeOK, client, dbVars, Nodes

\* node_confirming: the case is on record when the text enters the thread.
LEMMA ConfirmInv == ASSUME IInv, NEW r \in Runs, Confirm(r) PROVE IInv'
<1> DEFINE c == run[r].case
           s == [run[r] EXCEPT !.msg = "confirmed", !.at = "dispatch"]
<1>1. c \in Cases BY RunFacts DEF Confirm, Run
<1>2. s \in Run /\ s.at = "dispatch" /\ s.act = run[r].act /\ s.msg = "confirmed"
  BY RunFacts DEF Run, Messages
<1>3. db' \in [Cases -> CaseRow]
  <2>1. db[c] \in CaseRow BY <1>1 DEF IInv, TypeOK
  <2>2. [db[c] EXCEPT !.status = "approved"] \in CaseRow
    BY <2>1 DEF CaseRow, Statuses
  <2> QED BY <2>2, RowTyped DEF Confirm, IInv
<1>4. Checkpoint(r, s, "end") /\ approvals' = approvals \cup {c} BY DEF Confirm
<1>5. Approved BY RunFacts DEF Confirm
<1> QED
  BY <1>1, <1>2, <1>3, <1>4, <1>5, RunFacts, NodeInv
  DEF Confirm, IInv, TypeOK, Nodes

LEMMA EscalateCaseInv == ASSUME IInv, NEW r \in Runs, EscalateCase(r) PROVE IInv'
<1> DEFINE c == run[r].case
           row == [db[c] EXCEPT !.status = "escalated", !.escalated = TRUE]
           s == [run[r] EXCEPT !.msg = "handed_over", !.at = "dispatch"]
<1>1. c \in Cases BY RunFacts DEF EscalateCase, Run
<1>2. s \in Run /\ s.at = "dispatch" /\ s.act = run[r].act /\ s.msg = "handed_over"
  BY RunFacts DEF Run, Messages
<1>3. db' \in [Cases -> CaseRow]
  <2>1. db[c] \in CaseRow BY <1>1 DEF IInv, TypeOK
  <2>2. row \in CaseRow BY <2>1 DEF CaseRow, Statuses
  <2> QED BY <2>2, RowTyped DEF EscalateCase, IInv
<1>4. Checkpoint(r, s, "end") BY DEF EscalateCase
<1> QED
  BY <1>2, <1>3, <1>4, RunFacts, NodeInv DEF EscalateCase, IInv, TypeOK, client, Nodes

\* What the client is told is what the run carried.
LEMMA DispatchInv == ASSUME IInv, NEW p \in Taps, Dispatch(p) PROVE IInv'
<1> DEFINE s == [IdleRun EXCEPT !.at = "done"]
<1>1. p \in Runs /\ run' = [run EXCEPT ![p] = s] BY DEF Runs, Dispatch
<1>2. s \in Run /\ s.act = "none" /\ s.at = "done" /\ s.msg = "none"
  BY DEF IdleRun, Run, Nodes, Statuses, Messages
<1>3. run[p] \in Run /\ (run[p].msg = "confirmed" => approvals # {})
  BY <1>1, RunFacts
<1>4. \A n \in told' : n \in told \/ n = <<run[p].on, run[p].msg>>
  BY DEF Dispatch
<1>5. TypeOK'
  BY <1>1, <1>2, <1>3, <1>4
  DEF IInv, TypeOK, Dispatch, Run, dbVars, clock, cartera, alerts
<1>6. Approved' = Approved /\ approvals' = approvals /\ thread' = thread
  BY DEF Dispatch, Approved, cartera
<1>7. ConfirmationFollowsApproval'
  BY <1>3, <1>4, <1>6 DEF IInv, ApprovalInv, ConfirmationFollowsApproval
<1>8. \A r \in Runs : RunOK(run[r])'
  BY <1>1, <1>2, <1>6 DEF IInv, TypeOK, ApprovalInv, RunOK
<1> QED BY <1>5, <1>6, <1>7, <1>8 DEF IInv, ApprovalInv, ThreadOK

-----------------------------------------------------------------------------
(* The scheduler, cartera's texts and time: none touches what ApprovalInv reads *)

LEMMA ResendButtonsInv == ASSUME IInv, ResendButtons PROVE IInv'
<1>1. TypeOK'
  BY DEF IInv, TypeOK, ResendButtons, dbVars, clock, client, alerts
<1>2. ApprovalInv'
  BY FrameApproval DEF IInv, ResendButtons, client
<1> QED BY <1>1, <1>2 DEF IInv

LEMMA DiesInv == ASSUME IInv, NEW r \in Runs, Dies(r) PROVE IInv'
<1>1. PICK at \in {"dead", "idle"} :
        run' = [run EXCEPT ![r] = [IdleRun EXCEPT !.at = at]]
  BY DEF Dies
<1>2. faults' \in Nat BY DEF IInv, TypeOK, Dies, Fault
<1> QED BY <1>1, <1>2, EndInv DEF Dies

\* What a step of the scheduler leaves typed.
LEMMA TickInv ==
  ASSUME IInv, NEW t \in Ticks, NEW x,
         tick' = [tick EXCEPT ![t] = x],
         x \in [plan : [Cases -> {"none"} \cup Todo \cup Done], n : [Cases -> Nat]],
         created' = created, db' \in [Cases -> CaseRow], faults' \in Nat,
         buttons' \subseteq {NoCase} \cup Cases, seen' \in [Cases -> Nat],
         reminders' \in [Cases -> Nat], notices' \in [Cases -> Nat],
         UNCHANGED <<thread, run, clock, tapped, client>>
  PROVE  IInv'
<1>1. TypeOK' BY DEF IInv, TypeOK, clock, client
<1>2. ApprovalInv' BY FrameApproval DEF IInv, client
<1> QED BY <1>1, <1>2 DEF IInv

LEMMA TickSelectInv == ASSUME IInv, NEW t \in Ticks, TickSelect(t) PROVE IInv'
<1> DEFINE x == [plan |-> [c \in Cases |-> PlanFor(c)], n |-> [c \in Cases |-> db[c].atts]]
<1>1. \A c \in Cases : PlanFor(c) \in {"none"} \cup Todo \cup Done
  BY DEF PlanFor, Todo
<1>2. \A c \in Cases : db[c].atts \in Nat
  BY DEF IInv, TypeOK, CaseRow
<1>3. x \in [plan : [Cases -> {"none"} \cup Todo \cup Done], n : [Cases -> Nat]]
  BY <1>1, <1>2
<1> QED
  BY <1>3, TickInv
  DEF TickSelect, IInv, TypeOK, dbVars, cartera, alerts

\* A handled row: one entry of the plan says how.
LEMMA HandleTyped ==
  ASSUME TypeOK, NEW t \in Ticks, NEW c \in Cases, NEW todo, NEW done \in Done,
         Handle(t, c, todo, done)
  PROVE  \E x \in [plan : [Cases -> {"none"} \cup Todo \cup Done], n : [Cases -> Nat]] :
           tick' = [tick EXCEPT ![t] = x]
<1> DEFINE x == [tick[t] EXCEPT !.plan[c] = done]
<1>1. tick[t] \in [plan : [Cases -> {"none"} \cup Todo \cup Done], n : [Cases -> Nat]]
  BY DEF TypeOK
<1>2. x \in [plan : [Cases -> {"none"} \cup Todo \cup Done], n : [Cases -> Nat]]
  BY <1>1
<1>3. tick' = [tick EXCEPT ![t] = x] BY DEF Handle
<1> QED BY <1>2, <1>3

LEMMA TickRowInv ==
  ASSUME IInv, NEW t \in Ticks, NEW c \in Cases,
         TickRow(t, c) \/ TickForwardFails(t, c)
  PROVE  IInv'
<1>1. CASE TickForward(t, c)
  <2>1. PICK x \in [plan : [Cases -> {"none"} \cup Todo \cup Done], n : [Cases -> Nat]] :
          tick' = [tick EXCEPT ![t] = x]
    BY <1>1, HandleTyped DEF TickForward, Done, IInv
  <2>2. seen' \in [Cases -> Nat]
    BY <1>1 DEF TickForward, IInv, TypeOK
  <2> QED
    BY <1>1, <2>1, <2>2, TickInv DEF TickForward, IInv, TypeOK, dbVars, alerts
<1>2. CASE TickForwardFails(t, c)
  <2>1. PICK x \in [plan : [Cases -> {"none"} \cup Todo \cup Done], n : [Cases -> Nat]] :
          tick' = [tick EXCEPT ![t] = x]
    BY <1>2, HandleTyped DEF TickForwardFails, Done, IInv
  <2>2. faults' \in Nat BY <1>2 DEF TickForwardFails, Fault, IInv, TypeOK
  <2> QED
    BY <1>2, <2>1, <2>2, TickInv
    DEF TickForwardFails, IInv, TypeOK, dbVars, cartera, alerts
<1>3. CASE TickRemind(t, c)
  <2>1. PICK x \in [plan : [Cases -> {"none"} \cup Todo \cup Done], n : [Cases -> Nat]] :
          tick' = [tick EXCEPT ![t] = x]
    BY <1>3, HandleTyped DEF TickRemind, Done, IInv
  <2>2. reminders' \in [Cases -> Nat]
    BY <1>3 DEF TickRemind, IInv, TypeOK
  <2> QED
    BY <1>3, <2>1, <2>2, TickInv DEF TickRemind, IInv, TypeOK, dbVars
<1>4. CASE TickEscalate(t, c)
  <2>1. PICK x \in [plan : [Cases -> {"none"} \cup Todo \cup Done], n : [Cases -> Nat]] :
          tick' = [tick EXCEPT ![t] = x]
    BY <1>4, HandleTyped DEF TickEscalate, Done, IInv
  <2>2. notices' \in [Cases -> Nat]
    BY <1>4 DEF TickEscalate, IInv, TypeOK
  <2> QED
    BY <1>4, <2>1, <2>2, TickInv DEF TickEscalate, IInv, TypeOK, dbVars, cartera
<1> QED BY <1>1, <1>2, <1>3, <1>4 DEF TickRow

LEMMA IdleTickTyped ==
  IdleTick \in [plan : [Cases -> {"none"} \cup Todo \cup Done], n : [Cases -> Nat]]
BY DEF IdleTick

LEMMA TickCommitInv == ASSUME IInv, NEW t \in Ticks, TickCommit(t) PROVE IInv'
<1>1. \A row \in CaseRow : \A did : Updated(row, did) \in CaseRow
  BY DEF Updated, CaseRow, Statuses
<1>2. db' \in [Cases -> CaseRow] BY <1>1 DEF TickCommit, IInv, TypeOK
<1> QED
  BY <1>2, IdleTickTyped, TickInv
  DEF TickCommit, IInv, TypeOK, cartera, alerts

LEMMA TickAbortInv == ASSUME IInv, NEW t \in Ticks, TickAbort(t) PROVE IInv'
<1>1. faults' \in Nat BY DEF TickAbort, Fault, IInv, TypeOK
<1> QED
  BY <1>1, IdleTickTyped, TickInv
  DEF TickAbort, IInv, TypeOK, dbVars, cartera, alerts

LEMMA TimeInv ==
  ASSUME IInv, OpenOrClose \/ \E c \in Cases : Elapse(c) \/ BecomeDue(c)
  PROVE  IInv'
<1>1. CASE OpenOrClose
  <2>1. TypeOK'
    BY <1>1 DEF IInv, TypeOK, OpenOrClose, dbVars, cartera, client, alerts
  <2> QED BY <1>1, <2>1, FrameApproval DEF IInv, OpenOrClose, cartera, client
<1>2. ASSUME NEW c \in Cases, Elapse(c) PROVE IInv'
  <2>1. age' \in [Cases -> 0 .. 2]
    <3>1. age \in [Cases -> 0 .. 2] BY DEF IInv, TypeOK
    <3>2. age[c] \in 0 .. 2 /\ age[c] < 2 BY <1>2, <3>1 DEF Elapse
    <3>3. age[c] + 1 \in 0 .. 2 BY <3>2
    <3> QED BY <1>2, <3>1, <3>3 DEF Elapse
  <2>2. TypeOK'
    BY <1>2, <2>1 DEF IInv, TypeOK, Elapse, dbVars, cartera, client, alerts
  <2> QED BY <1>2, <2>2, FrameApproval DEF IInv, Elapse, cartera, client
<1>3. ASSUME NEW c \in Cases, BecomeDue(c) PROVE IInv'
  <2>1. [db[c] EXCEPT !.due = "past"] \in CaseRow
    <3>1. db[c] \in CaseRow BY DEF IInv, TypeOK
    <3> QED BY <3>1 DEF CaseRow
  <2>2. db' \in [Cases -> CaseRow]
    BY <1>3, <2>1 DEF IInv, TypeOK, BecomeDue
  <2>3. TypeOK'
    BY <1>3, <2>2 DEF IInv, TypeOK, BecomeDue, clock, cartera, client, alerts
  <2> QED BY <1>3, <2>3, FrameApproval DEF IInv, BecomeDue, cartera, client
<1> QED BY <1>1, <1>2, <1>3

-----------------------------------------------------------------------------
(* Every step *)

LEMMA ReceiveInv == ASSUME IInv, NEW r \in Runs, Receive(r) PROVE IInv'
<1>1. CASE DownloadTooLarge(r)
  BY <1>1, EndInv DEF DownloadTooLarge, IInv, TypeOK
<1> QED
  BY <1>1, FindCaseInv, StoreInNewCaseInv, StoreInFoundCaseInv, RejectFileInv
  DEF Receive

LEMMA ForwardInv == ASSUME IInv, NEW r \in Runs, Forward(r) PROVE IInv'
<1>1. CASE ForwardWithoutCase(r)
  BY <1>1, EndInv DEF ForwardWithoutCase, IInv, TypeOK
<1>2. CASE AttachmentsRaise(r)
  BY <1>2, EndInv DEF AttachmentsRaise, IInv, TypeOK
<1> QED
  BY <1>1, <1>2, DeferInv, LoadCaseInv, SendMediaInv, RecordForwardInv,
     SendMediaFailsInv
  DEF Forward

LEMMA NextInv == IInv /\ [Next]_vars => IInv'
<1> SUFFICES ASSUME IInv, [Next]_vars PROVE IInv' OBVIOUS
<1>1. ASSUME NEW j \in Jobs, NEW f \in Files, JobStart(j, f) PROVE IInv'
  BY <1>1, JobStartInv
<1>2. ASSUME NEW r \in Runs, Receive(r) \/ Forward(r) \/ Dies(r) PROVE IInv'
  BY <1>2, ReceiveInv, ForwardInv, DiesInv
<1>3. ASSUME NEW p \in Taps, TapStep(p) PROVE IInv'
  BY <1>3, ResumeInv, DecideInv, ConfirmInv, EscalateCaseInv, DispatchInv
  DEF TapStep, Runs
<1>4. ASSUME NEW p \in Taps, NEW c \in Cases, NEW a \in Actions, Tap(p, c, a)
      PROVE  IInv'
  BY <1>4, TapInv
<1>5. CASE ResendButtons BY <1>5, ResendButtonsInv
<1>6. ASSUME NEW t \in Ticks, TickSelect(t) \/ TickCommit(t) \/ TickAbort(t)
      PROVE  IInv'
  BY <1>6, TickSelectInv, TickCommitInv, TickAbortInv
<1>7. ASSUME NEW t \in Ticks, NEW c \in Cases,
             TickRow(t, c) \/ TickForwardFails(t, c)
      PROVE  IInv'
  BY <1>7, TickRowInv
<1>8. CASE OpenOrClose \/ \E c \in Cases : Elapse(c) \/ BecomeDue(c)
  BY <1>8, TimeInv
<1>9. CASE UNCHANGED vars
  <2>1. TypeOK'
    BY <1>9 DEF IInv, TypeOK, vars, dbVars, clock, cartera, client, alerts
  <2> QED BY <1>9, <2>1, FrameApproval DEF IInv, vars, cartera, client
<1> QED BY <1>1, <1>2, <1>3, <1>4, <1>5, <1>6, <1>7, <1>8, <1>9 DEF Next

-----------------------------------------------------------------------------
(* The reminder comes before the escalation *)

\* The stamp of a reminder, or of a notice, follows its message, and an
\* execution plans to escalate a case only when the reminder is on record.
ReminderInv == \A c \in Cases :
  /\ db[c].reminder => reminders[c] > 0
  /\ notices[c] > 0 => db[c].reminder
  /\ \A t \in Ticks :
       /\ tick[t].plan[c] = "reminded" => reminders[c] > 0
       /\ tick[t].plan[c] \in {"escalate", "escalated"} => db[c].reminder

\* No step of a run, of cartera or of time unstamps a reminder.
LEMMA OneRowKeepsReminder ==
  ASSUME TypeOK, NEW c, NEW row, c \in Cases => row.reminder = db[c].reminder,
         db' = [db EXCEPT ![c] = row]
  PROVE  \A d \in Cases : db'[d].reminder = db[d].reminder
BY DEF TypeOK

\* A row of the table keeps its reminder through an update of other columns.
LEMMA ColumnsKeepReminder ==
  ASSUME NEW row \in CaseRow, NEW st, NEW n, NEW w, NEW e, NEW d
  PROVE  /\ [row EXCEPT !.status = st, !.atts = n].reminder = row.reminder
         /\ [row EXCEPT !.atts = n, !.status = st].reminder = row.reminder
         /\ [row EXCEPT !.status = st, !.due = d].reminder = row.reminder
         /\ [row EXCEPT !.status = st, !.wamid = w, !.due = d].reminder = row.reminder
         /\ [row EXCEPT !.status = st, !.escalated = e].reminder = row.reminder
         /\ [row EXCEPT !.status = st].reminder = row.reminder
         /\ [row EXCEPT !.due = d].reminder = row.reminder
BY DEF CaseRow

LEMMA RunKeepsReminder ==
  ASSUME IInv, NEW r \in Runs, Receive(r) \/ Forward(r) \/ Dies(r) \/ TapStep(r)
  PROVE  /\ \A d \in Cases : db'[d].reminder = db[d].reminder
         /\ UNCHANGED <<tick, alerts>>
<1>0. UNCHANGED <<tick, alerts>>
  BY DEF Receive, DownloadTooLarge, FindCase, StoreInNewCase, StoreInFoundCase,
         RejectFile, Forward, ForwardWithoutCase, Defer, LoadCase, AttachmentsRaise,
         SendMedia, RecordForward, SendMediaFails, Dies, TapStep, Resume, Decide,
         Confirm, EscalateCase, Dispatch
<1>1. TypeOK /\ \A d \in Cases : db[d] \in CaseRow BY DEF IInv, TypeOK
<1>2. CASE UNCHANGED dbVars BY <1>0, <1>2 DEF dbVars
<1>3. CASE StoreInNewCase(r)
  BY <1>0, <1>1, <1>3, OneRowKeepsReminder, ColumnsKeepReminder DEF StoreInNewCase
<1>4. CASE StoreInFoundCase(r)
  BY <1>0, <1>1, <1>4, OneRowKeepsReminder, ColumnsKeepReminder DEF StoreInFoundCase
<1>5. CASE Defer(r)
  BY <1>0, <1>1, <1>5, OneRowKeepsReminder, ColumnsKeepReminder DEF Defer
<1>6. CASE RecordForward(r)
  BY <1>0, <1>1, <1>6, OneRowKeepsReminder, ColumnsKeepReminder DEF RecordForward
<1>7. CASE SendMediaFails(r)
  BY <1>0, <1>1, <1>7, OneRowKeepsReminder, ColumnsKeepReminder DEF SendMediaFails
<1>8. CASE Confirm(r)
  BY <1>0, <1>1, <1>8, OneRowKeepsReminder, ColumnsKeepReminder DEF Confirm
<1>9. CASE EscalateCase(r)
  BY <1>0, <1>1, <1>9, OneRowKeepsReminder, ColumnsKeepReminder DEF EscalateCase
<1> QED
  BY <1>0, <1>2, <1>3, <1>4, <1>5, <1>6, <1>7, <1>8, <1>9
  DEF Receive, DownloadTooLarge, FindCase,
         RejectFile, Forward, ForwardWithoutCase, LoadCase, AttachmentsRaise,
         SendMedia, Dies, TapStep, Resume, Decide, Dispatch

\* What stands on reminders that stay.
LEMMA FrameReminder ==
  ASSUME ReminderInv, \A d \in Cases : db'[d].reminder = db[d].reminder,
         UNCHANGED <<tick, alerts>>
  PROVE  ReminderInv'
BY DEF ReminderInv, alerts

\* A step of an execution that moves one row of its plan.
LEMMA HandleReminder ==
  ASSUME IInv, ReminderInv, NEW t \in Ticks, NEW c \in Cases, NEW todo, NEW done,
         Handle(t, c, todo, done), UNCHANGED dbVars,
         \A d \in Cases : reminders[d] > 0 => reminders'[d] > 0,
         \A d \in Cases : notices'[d] > 0 => notices[d] > 0 \/ db[d].reminder,
         done = "reminded" => reminders'[c] > 0,
         done \in {"escalate", "escalated"} => db[c].reminder
  PROVE  ReminderInv'
<1>1. tick \in [Ticks -> [plan : [Cases -> {"none"} \cup Todo \cup Done], n : [Cases -> Nat]]]
  BY DEF IInv, TypeOK
<1>2. \A s \in Ticks, d \in Cases :
        tick'[s].plan[d] = IF s = t /\ d = c THEN done ELSE tick[s].plan[d]
  <2> DEFINE p == [tick[t].plan EXCEPT ![c] = done]
             x == [tick[t] EXCEPT !.plan = p]
  <2>1. tick' = [tick EXCEPT ![t] = x] BY DEF Handle
  <2>2. tick[t].plan \in [Cases -> {"none"} \cup Todo \cup Done] BY <1>1
  <2>3. x.plan = p BY <1>1
  <2>4. \A d \in Cases : p[d] = IF d = c THEN done ELSE tick[t].plan[d] BY <2>2
  <2> HIDE DEF p, x
  <2> QED BY <1>1, <2>1, <2>3, <2>4
<1>3. db' = db BY DEF dbVars
<1> QED BY <1>2, <1>3 DEF ReminderInv

LEMMA TickReminder ==
  ASSUME IInv, ReminderInv, NEW t \in Ticks, NEW c \in Cases,
         TickRow(t, c) \/ TickForwardFails(t, c)
  PROVE  ReminderInv'
<1>1. reminders \in [Cases -> Nat] /\ notices \in [Cases -> Nat]
  BY DEF IInv, TypeOK
<1>2. CASE TickForward(t, c)
  BY <1>2, HandleReminder DEF TickForward, alerts
<1>3. CASE TickForwardFails(t, c)
  BY <1>3, HandleReminder DEF TickForwardFails, alerts
<1>4. CASE TickRemind(t, c)
  <2>1. reminders'[c] > 0 /\ \A d \in Cases : reminders[d] > 0 => reminders'[d] > 0
    BY <1>1, <1>4 DEF TickRemind
  <2> QED BY <1>4, <2>1, HandleReminder DEF TickRemind
<1>5. CASE TickEscalate(t, c)
  <2>1. db[c].reminder BY <1>5 DEF TickEscalate, Handle, ReminderInv
  <2>2. \A d \in Cases : d # c => notices'[d] = notices[d]
    BY <1>1, <1>5 DEF TickEscalate
  <2> QED BY <1>5, <2>1, <2>2, HandleReminder DEF TickEscalate
<1> QED BY <1>2, <1>3, <1>4, <1>5 DEF TickRow

LEMMA TickSelectReminder ==
  ASSUME IInv, ReminderInv, NEW t \in Ticks, TickSelect(t) PROVE ReminderInv'
<1>1. \A c \in Cases : PlanFor(c) \in {"escalate", "escalated"} => db[c].reminder
  BY DEF PlanFor
<1>2. \A c \in Cases : PlanFor(c) # "reminded"
  BY DEF PlanFor
<1>3. \A s \in Ticks, c \in Cases :
        tick'[s].plan[c] = IF s = t THEN PlanFor(c) ELSE tick[s].plan[c]
  BY DEF TickSelect, IInv, TypeOK
<1> QED BY <1>1, <1>2, <1>3 DEF ReminderInv, TickSelect, dbVars, alerts

LEMMA TickEndReminder ==
  ASSUME IInv, ReminderInv, NEW t \in Ticks, TickCommit(t) \/ TickAbort(t)
  PROVE  ReminderInv'
<1>1. \A s \in Ticks, c \in Cases :
        tick'[s].plan[c] = IF s = t THEN "none" ELSE tick[s].plan[c]
  BY DEF TickCommit, TickAbort, IInv, TypeOK, IdleTick
<1>2. \A c \in Cases : /\ db[c].reminder => db'[c].reminder
                       /\ db'[c].reminder => db[c].reminder \/ tick[t].plan[c] = "reminded"
  <2>1. CASE TickAbort(t) BY <2>1 DEF TickAbort, dbVars
  <2>2. CASE TickCommit(t)
    <3>1. \A row \in CaseRow : \A did :
            /\ row.reminder => Updated(row, did).reminder
            /\ Updated(row, did).reminder => row.reminder \/ did = "reminded"
      BY DEF Updated, CaseRow
    <3> QED BY <2>2, <3>1 DEF TickCommit, IInv, TypeOK
  <2> QED BY <2>1, <2>2
<1>3. UNCHANGED alerts BY DEF TickCommit, TickAbort
<1> QED BY <1>1, <1>2, <1>3 DEF ReminderInv, alerts

LEMMA NextReminder == IInv /\ ReminderInv /\ [Next]_vars => ReminderInv'
<1> SUFFICES ASSUME IInv, ReminderInv, [Next]_vars PROVE ReminderInv' OBVIOUS
<1>1. ASSUME NEW j \in Jobs, NEW f \in Files, JobStart(j, f) PROVE ReminderInv'
  BY <1>1, FrameReminder DEF JobStart, dbVars
<1>2. ASSUME NEW r \in Runs, Receive(r) \/ Forward(r) \/ Dies(r) \/ TapStep(r)
      PROVE  ReminderInv'
  BY <1>2, RunKeepsReminder, FrameReminder
<1>3. ASSUME NEW p \in Taps, NEW c \in Cases, NEW a \in Actions, Tap(p, c, a)
      PROVE  ReminderInv'
  BY <1>3, FrameReminder DEF Tap, dbVars
<1>4. CASE ResendButtons BY <1>4, FrameReminder DEF ResendButtons, dbVars
<1>5. ASSUME NEW t \in Ticks, TickSelect(t) \/ TickCommit(t) \/ TickAbort(t)
      PROVE  ReminderInv'
  BY <1>5, TickSelectReminder, TickEndReminder
<1>6. ASSUME NEW t \in Ticks, NEW c \in Cases, TickRow(t, c) \/ TickForwardFails(t, c)
      PROVE  ReminderInv'
  BY <1>6, TickReminder
<1>7. CASE OpenOrClose BY <1>7, FrameReminder DEF OpenOrClose, dbVars
<1>8. ASSUME NEW c \in Cases, Elapse(c) PROVE ReminderInv'
  BY <1>8, FrameReminder DEF Elapse, dbVars
<1>9. ASSUME NEW c \in Cases, BecomeDue(c) PROVE ReminderInv'
  BY <1>9, FrameReminder, OneRowKeepsReminder, ColumnsKeepReminder
  DEF BecomeDue, IInv, TypeOK
<1>10. CASE UNCHANGED vars BY <1>10, FrameReminder DEF vars, dbVars
<1> QED BY <1>1, <1>2, <1>3, <1>4, <1>5, <1>6, <1>7, <1>8, <1>9, <1>10 DEF Next, Runs

LEMMA InitReminder == Init => ReminderInv
BY DEF Init, ReminderInv, NoRow, IdleTick

-----------------------------------------------------------------------------
(* Every repeated message has a cause *)

\* The executions whose row for case c is at x.
Doing(x, c) == {t \in Ticks : tick[t].plan[c] = x}
Many(x, c)  == Cardinality(Doing(x, c))

\* Of n messages sent, f were rolled back at most. Before the stamp, each other
\* one is that of an execution that has yet to commit (b of them); after it, only
\* the executions that planned the message before (a of them) will send it still.
Accounted(stamp, n, a, b, f) ==
  IF stamp THEN n + a <= Overlap + f ELSE n <= b + f

CauseInv ==
  /\ Cardinality({t \in Ticks : Busy(t)}) <= Overlap
  /\ \A c \in Cases :
       /\ Accounted(db[c].reminder, reminders[c],
                    Many("remind", c), Many("reminded", c), faults)
       /\ Accounted(db[c].escalated, notices[c],
                    Many("escalate", c), Many("escalated", c), faults)

\* No step takes back the stamp of an escalation.
LEMMA OneRowKeepsEscalated ==
  ASSUME TypeOK, NEW c, NEW row, c \in Cases => (db[c].escalated => row.escalated),
         db' = [db EXCEPT ![c] = row]
  PROVE  \A d \in Cases : db[d].escalated => db'[d].escalated
BY DEF TypeOK

\* The updates of a row that the nodes make keep the stamp.
LEMMA ColumnsKeepEscalated ==
  ASSUME NEW row \in CaseRow, NEW st, NEW n, NEW w, NEW d
  PROVE  /\ [row EXCEPT !.status = st, !.atts = n].escalated = row.escalated
         /\ [row EXCEPT !.atts = n, !.status = st].escalated = row.escalated
         /\ [row EXCEPT !.status = st, !.due = d].escalated = row.escalated
         /\ [row EXCEPT !.status = st, !.wamid = w, !.due = d].escalated = row.escalated
         /\ [row EXCEPT !.status = st, !.escalated = TRUE].escalated
         /\ [row EXCEPT !.status = st].escalated = row.escalated
         /\ [row EXCEPT !.due = d].escalated = row.escalated
BY DEF CaseRow

\* So do the steps of a run.
LEMMA RunKeepsEscalated ==
  ASSUME IInv, NEW r \in Runs, Receive(r) \/ Forward(r) \/ Dies(r) \/ TapStep(r)
  PROVE  \A d \in Cases : db[d].escalated => db'[d].escalated
<1>1. TypeOK /\ \A d \in Cases : db[d] \in CaseRow BY DEF IInv, TypeOK
<1>2. CASE UNCHANGED dbVars BY <1>2 DEF dbVars
<1>3. CASE StoreInNewCase(r)
  BY <1>1, <1>3, OneRowKeepsEscalated, ColumnsKeepEscalated DEF StoreInNewCase
<1>4. CASE StoreInFoundCase(r)
  BY <1>1, <1>4, OneRowKeepsEscalated, ColumnsKeepEscalated DEF StoreInFoundCase
<1>5. CASE Defer(r)
  BY <1>1, <1>5, OneRowKeepsEscalated, ColumnsKeepEscalated DEF Defer
<1>6. CASE RecordForward(r)
  BY <1>1, <1>6, OneRowKeepsEscalated, ColumnsKeepEscalated DEF RecordForward
<1>7. CASE SendMediaFails(r)
  BY <1>1, <1>7, OneRowKeepsEscalated, ColumnsKeepEscalated DEF SendMediaFails
<1>8. CASE Confirm(r)
  BY <1>1, <1>8, OneRowKeepsEscalated, ColumnsKeepEscalated DEF Confirm
<1>9. CASE EscalateCase(r)
  BY <1>1, <1>9, OneRowKeepsEscalated, ColumnsKeepEscalated DEF EscalateCase
<1> QED
  BY <1>2, <1>3, <1>4, <1>5, <1>6, <1>7, <1>8, <1>9
  DEF Receive, DownloadTooLarge, FindCase,
         RejectFile, Forward, ForwardWithoutCase, LoadCase, AttachmentsRaise,
         SendMedia, Dies, TapStep, Resume, Decide, Dispatch

LEMMA TicksFinite ==
  ASSUME NEW S \in SUBSET Ticks
  PROVE  IsFiniteSet(S) /\ Cardinality(S) \in Nat
BY ActorsAssumption, FS_Subset, FS_CardinalityType

LEMMA ManyIs == \A x, c : IsFiniteSet(Doing(x, c)) /\ Many(x, c) \in Nat
BY TicksFinite DEF Doing, Many

LEMMA ManyIsNext == \A x, c : Many(x, c)' \in Nat
<1> SUFFICES ASSUME NEW x, NEW c PROVE Many(x, c)' \in Nat OBVIOUS
<1>1. {t \in Ticks : tick'[t].plan[c] = x} \in SUBSET Ticks OBVIOUS
<1> QED BY <1>1, TicksFinite DEF Doing, Many

\* Executions at two places of one row are different executions under way.
LEMMA CrowdIs ==
  ASSUME CauseInv, NEW c \in Cases, NEW x, NEW y, x # y, x # "none", y # "none"
  PROVE  Many(x, c) + Many(y, c) <= Overlap
<1> DEFINE U == {t \in Ticks : Busy(t)}
<1>1. IsFiniteSet(U) /\ Cardinality(U) \in Nat BY TicksFinite
<1>2. Doing(x, c) \subseteq U /\ Doing(y, c) \subseteq U BY DEF Doing, Busy
<1>3. Doing(x, c) \cap Doing(y, c) = {} BY DEF Doing
<1>4. ~(Cardinality(Doing(x, c)) + Cardinality(Doing(y, c)) > Cardinality(U))
  <2> HIDE DEF U
  <2> QED BY <1>1, <1>2, <1>3, FS_MajoritiesIntersect
<1>5. Cardinality(U) <= Overlap BY DEF CauseInv
<1> HIDE DEF U
<1> QED BY <1>1, <1>4, <1>5, ManyIs, BoundsAssumption DEF Many

\* The counters of case c, and the facts a step starts from.
LEMMA AccountsOf ==
  ASSUME IInv, CauseInv, NEW c \in Cases
  PROVE  /\ reminders[c] \in Nat /\ notices[c] \in Nat /\ faults \in Nat
         /\ Many("remind", c) + Many("reminded", c) <= Overlap
         /\ Many("escalate", c) + Many("escalated", c) <= Overlap
         /\ Accounted(db[c].reminder, reminders[c],
                      Many("remind", c), Many("reminded", c), faults)
         /\ Accounted(db[c].escalated, notices[c],
                      Many("escalate", c), Many("escalated", c), faults)
BY CrowdIs DEF IInv, TypeOK, CauseInv

\* Steps of everybody but the scheduler.
LEMMA FrameCause ==
  ASSUME IInv, CauseInv, IInv', UNCHANGED <<tick, alerts>>, faults <= faults',
         \A d \in Cases : /\ db[d].reminder => db'[d].reminder
                          /\ db[d].escalated => db'[d].escalated
  PROVE  CauseInv'
<1>1. reminders' = reminders /\ notices' = notices BY DEF alerts
<1>2. \A x, c : Many(x, c)' = Many(x, c) BY DEF Many, Doing
<1>3. faults' \in Nat BY DEF IInv, TypeOK
<1>4. ASSUME NEW c \in Cases
      PROVE  /\ Accounted(db[c].reminder, reminders[c],
                          Many("remind", c), Many("reminded", c), faults)'
             /\ Accounted(db[c].escalated, notices[c],
                          Many("escalate", c), Many("escalated", c), faults)'
  <2>1. /\ Many("remind", c) \in Nat /\ Many("reminded", c) \in Nat
        /\ Many("escalate", c) \in Nat /\ Many("escalated", c) \in Nat
    BY ManyIs
  <2>2. Accounted(db'[c].reminder, reminders[c],
                  Many("remind", c), Many("reminded", c), faults')
    BY <1>3, <2>1, AccountsOf, BoundsAssumption DEF Accounted
  <2>3. Accounted(db'[c].escalated, notices[c],
                  Many("escalate", c), Many("escalated", c), faults')
    BY <1>3, <2>1, AccountsOf, BoundsAssumption DEF Accounted
  <2> QED BY <1>1, <1>2, <2>2, <2>3 DEF Accounted
<1>5. Cardinality({t \in Ticks : Busy(t)})' <= Overlap
  BY DEF CauseInv, Busy
<1> QED BY <1>4, <1>5 DEF CauseInv

\* Who plans: every account of a stamped message stays, the others grow no debt.
LEMMA TickSelectCause ==
  ASSUME IInv, CauseInv, NEW t \in Ticks, TickSelect(t) PROVE CauseInv'
<1> DEFINE U == {u \in Ticks : Busy(u)}
<1>1. \A u \in Ticks, c \in Cases :
        tick'[u].plan[c] = IF u = t THEN PlanFor(c) ELSE tick[u].plan[c]
  BY DEF TickSelect, IInv, TypeOK
<1>2. db' = db /\ reminders' = reminders /\ notices' = notices /\ faults' = faults
  BY DEF TickSelect, dbVars, alerts
<1>3. \A c \in Cases : /\ PlanFor(c) \notin {"reminded", "escalated"}
                       /\ PlanFor(c) = "remind" => ~db[c].reminder
                       /\ PlanFor(c) = "escalate" => ~db[c].escalated
                       /\ tick[t].plan[c] = "none"
  BY DEF PlanFor, Selected, TickSelect, Busy
<1>4. ASSUME NEW c \in Cases
      PROVE  /\ Accounted(db[c].reminder, reminders[c],
                          Many("remind", c), Many("reminded", c), faults)'
             /\ Accounted(db[c].escalated, notices[c],
                          Many("escalate", c), Many("escalated", c), faults)'
  <2>1. /\ Many("reminded", c)' = Many("reminded", c)
        /\ Many("escalated", c)' = Many("escalated", c)
        /\ db[c].reminder => Many("remind", c)' = Many("remind", c)
        /\ db[c].escalated => Many("escalate", c)' = Many("escalate", c)
    <3>1. /\ Doing("reminded", c)' = Doing("reminded", c)
          /\ Doing("escalated", c)' = Doing("escalated", c)
          /\ db[c].reminder => Doing("remind", c)' = Doing("remind", c)
          /\ db[c].escalated => Doing("escalate", c)' = Doing("escalate", c)
      BY <1>1, <1>3 DEF Doing
    <3> QED BY <3>1 DEF Many
  <2>2. /\ Accounted(db[c].reminder, reminders[c],
                     Many("remind", c), Many("reminded", c), faults)
        /\ Accounted(db[c].escalated, notices[c],
                     Many("escalate", c), Many("escalated", c), faults)
    BY AccountsOf
  <2> QED BY <1>2, <2>1, <2>2 DEF Accounted
<1>5. Cardinality(U)' <= Overlap
  <2> DEFINE A == {r \in Runs : run[r].at \notin Resting}
  <2>1. IsFiniteSet(A) /\ Cardinality(A) \in Nat
    BY ActorsAssumption, FS_Subset, FS_CardinalityType DEF Runs
  <2>2. Cardinality(A) + Cardinality(U) < Overlap BY DEF TickSelect, MayStart
  <2>3. IsFiniteSet(U) /\ Cardinality(U) \in Nat BY TicksFinite
  <2>4. /\ IsFiniteSet(U \cup {t}) /\ Cardinality(U \cup {t}) \in Nat
        /\ Cardinality(U \cup {t}) <= Cardinality(U) + 1
    <3> HIDE DEF U, A
    <3>1. /\ IsFiniteSet(U \cup {t})
          /\ Cardinality(U \cup {t}) =
               IF t \in U THEN Cardinality(U) ELSE Cardinality(U) + 1
      BY <2>3, FS_AddElement
    <3>2. Cardinality(U \cup {t}) \in Nat BY <3>1, FS_CardinalityType
    <3> QED BY <2>3, <3>1, <3>2
  <2>5. U' \subseteq U \cup {t} BY <1>1 DEF Busy
  <2>6. Cardinality(U') \in Nat /\ Cardinality(U') <= Cardinality(U \cup {t})
    <3>1. U' \in SUBSET (U \cup {t}) BY <2>5
    <3> HIDE DEF U
    <3> QED BY <2>4, <3>1, FS_Subset, FS_CardinalityType
  <2>7. Cardinality(U)' = Cardinality(U') OBVIOUS
  <2> HIDE DEF U, A
  <2> QED BY <2>1, <2>2, <2>3, <2>4, <2>6, <2>7, BoundsAssumption
<1> QED BY <1>4, <1>5 DEF CauseInv

\* What the handling of one row moves.
LEMMA HandleMoves ==
  ASSUME IInv, NEW t \in Ticks, NEW c \in Cases, NEW todo \in Todo, NEW done \in Done,
         Handle(t, c, todo, done)
  PROVE  /\ \A u \in Ticks, d \in Cases :
              tick'[u].plan[d] = IF u = t /\ d = c THEN done ELSE tick[u].plan[d]
         /\ Many(todo, c)' + 1 = Many(todo, c)
         /\ Many(done, c)' = Many(done, c) + 1
         /\ \A x : x \notin {todo, done} => Many(x, c)' = Many(x, c)
         /\ \A x : \A d \in Cases : d # c => Many(x, d)' = Many(x, d)
         /\ \A u \in Ticks : Busy(u)' <=> Busy(u)
<1> DEFINE p == [tick[t].plan EXCEPT ![c] = done]
           x == [tick[t] EXCEPT !.plan = p]
<1>0. tick \in [Ticks -> [plan : [Cases -> {"none"} \cup Todo \cup Done], n : [Cases -> Nat]]]
  BY DEF IInv, TypeOK
<1>1. \A u \in Ticks, d \in Cases :
        tick'[u].plan[d] = IF u = t /\ d = c THEN done ELSE tick[u].plan[d]
  <2>1. tick' = [tick EXCEPT ![t] = x] BY DEF Handle
  <2>2. x.plan = p BY <1>0
  <2>3. \A d \in Cases : p[d] = IF d = c THEN done ELSE tick[t].plan[d] BY <1>0
  <2> HIDE DEF p, x
  <2> QED BY <1>0, <2>1, <2>2, <2>3
<1>2. /\ todo # done /\ todo # "none" /\ done # "none" /\ tick[t].plan[c] = todo
  BY DEF Handle, Todo, Done
<1>3. Many(todo, c)' + 1 = Many(todo, c)
  <2>1. Doing(todo, c)' = Doing(todo, c) \ {t} /\ t \in Doing(todo, c)
    BY <1>1, <1>2 DEF Doing
  <2>2. Cardinality(Doing(todo, c) \ {t}) = Cardinality(Doing(todo, c)) - 1
    BY <2>1, ManyIs, FS_RemoveElement
  <2> QED BY <2>1, <2>2, ManyIs DEF Many
<1>4. Many(done, c)' = Many(done, c) + 1
  <2>1. Doing(done, c)' = Doing(done, c) \cup {t} /\ t \notin Doing(done, c)
    BY <1>1, <1>2 DEF Doing
  <2>2. Cardinality(Doing(done, c) \cup {t}) = Cardinality(Doing(done, c)) + 1
    BY <2>1, ManyIs, FS_AddElement
  <2> QED BY <2>1, <2>2 DEF Many
<1>5. ASSUME NEW y, y \notin {todo, done} PROVE Many(y, c)' = Many(y, c)
  <2>1. Doing(y, c)' = Doing(y, c) BY <1>1, <1>2, <1>5 DEF Doing
  <2> QED BY <2>1 DEF Many
<1>6. ASSUME NEW y, NEW d \in Cases, d # c PROVE Many(y, d)' = Many(y, d)
  <2>1. Doing(y, d)' = Doing(y, d) BY <1>1, <1>6 DEF Doing
  <2> QED BY <2>1 DEF Many
<1>7. \A u \in Ticks : Busy(u)' <=> Busy(u) BY <1>1, <1>2 DEF Busy
<1> QED BY <1>1, <1>3, <1>4, <1>5, <1>6, <1>7

\* A row is handled: a message goes from those planned to those not yet stamped.
LEMMA HandleCause ==
  ASSUME IInv, CauseInv, NEW t \in Ticks, NEW c \in Cases, NEW todo \in Todo,
         NEW done \in Done, Handle(t, c, todo, done), db' = db,
         faults' \in Nat, faults <= faults',
         \A d \in Cases : d # c => reminders'[d] = reminders[d] /\ notices'[d] = notices[d],
         IF todo = "remind" THEN done = "reminded" /\ reminders'[c] = reminders[c] + 1
                            ELSE done # "reminded" /\ reminders'[c] = reminders[c],
         IF todo = "escalate" THEN done = "escalated" /\ notices'[c] = notices[c] + 1
                              ELSE done # "escalated" /\ notices'[c] = notices[c]
  PROVE  CauseInv'
<1>1. /\ Many(todo, c)' + 1 = Many(todo, c)
      /\ Many(done, c)' = Many(done, c) + 1
      /\ \A x : x \notin {todo, done} => Many(x, c)' = Many(x, c)
      /\ \A x : \A d \in Cases : d # c => Many(x, d)' = Many(x, d)
      /\ \A u \in Ticks : Busy(u)' <=> Busy(u)
  BY HandleMoves
<1>2. \A x, d : Many(x, d) \in Nat /\ Many(x, d)' \in Nat
  BY ManyIs, ManyIsNext
<1>3. todo \notin {"reminded", "escalated"} /\ done \notin {"remind", "escalate"}
  BY DEF Todo, Done
<1>4. ASSUME NEW d \in Cases
      PROVE  /\ Accounted(db[d].reminder, reminders[d],
                          Many("remind", d), Many("reminded", d), faults)'
             /\ Accounted(db[d].escalated, notices[d],
                          Many("escalate", d), Many("escalated", d), faults)'
  <2>0. /\ Many("remind", d) \in Nat /\ Many("reminded", d) \in Nat
        /\ Many("escalate", d) \in Nat /\ Many("escalated", d) \in Nat
        /\ Many("remind", d)' \in Nat /\ Many("reminded", d)' \in Nat
        /\ Many("escalate", d)' \in Nat /\ Many("escalated", d)' \in Nat
    BY <1>2
  <2>1. IF d = c /\ todo = "remind"
        THEN /\ Many("remind", d)' + 1 = Many("remind", d)
             /\ Many("reminded", d)' = Many("reminded", d) + 1
             /\ reminders'[d] = reminders[d] + 1
        ELSE /\ Many("remind", d)' = Many("remind", d)
             /\ Many("reminded", d)' = Many("reminded", d)
             /\ reminders'[d] = reminders[d]
    BY <1>1, <1>3
  <2>2. IF d = c /\ todo = "escalate"
        THEN /\ Many("escalate", d)' + 1 = Many("escalate", d)
             /\ Many("escalated", d)' = Many("escalated", d) + 1
             /\ notices'[d] = notices[d] + 1
        ELSE /\ Many("escalate", d)' = Many("escalate", d)
             /\ Many("escalated", d)' = Many("escalated", d)
             /\ notices'[d] = notices[d]
    BY <1>1, <1>3
  <2>3. /\ reminders[d] \in Nat /\ notices[d] \in Nat /\ faults \in Nat
        /\ Accounted(db[d].reminder, reminders[d],
                     Many("remind", d), Many("reminded", d), faults)
        /\ Accounted(db[d].escalated, notices[d],
                     Many("escalate", d), Many("escalated", d), faults)
    BY AccountsOf
  <2>4. Accounted(db'[d].reminder, reminders'[d],
                  Many("remind", d)', Many("reminded", d)', faults')
    BY <2>0, <2>1, <2>3, BoundsAssumption DEF Accounted
  <2>5. Accounted(db'[d].escalated, notices'[d],
                  Many("escalate", d)', Many("escalated", d)', faults')
    BY <2>0, <2>2, <2>3, BoundsAssumption DEF Accounted
  <2> QED BY <2>4, <2>5 DEF Accounted
<1>5. Cardinality({u \in Ticks : Busy(u)})' <= Overlap
  <2>1. {u \in Ticks : Busy(u)}' = {u \in Ticks : Busy(u)} BY <1>1
  <2> QED BY <2>1 DEF CauseInv
<1> QED BY <1>4, <1>5 DEF CauseInv

\* An execution ends: with its stamps written, or by a fault.
LEMMA TickEndCause ==
  ASSUME IInv, CauseInv, NEW t \in Ticks, TickCommit(t) \/ TickAbort(t)
  PROVE  CauseInv'
<1>1. \A u \in Ticks, c \in Cases :
        tick'[u].plan[c] = IF u = t THEN "none" ELSE tick[u].plan[c]
  BY DEF TickCommit, TickAbort, IInv, TypeOK, IdleTick
<1>2. reminders' = reminders /\ notices' = notices
  BY DEF TickCommit, TickAbort, alerts
<1>3. \A c \in Cases :
        /\ db[c].reminder => db'[c].reminder
        /\ db[c].escalated => db'[c].escalated
        /\ faults' = faults =>
             /\ tick[t].plan[c] = "reminded" => db'[c].reminder
             /\ tick[t].plan[c] = "escalated" => db'[c].escalated
  <2>1. CASE TickAbort(t)
    <3>1. db' = db /\ faults' # faults
      BY <2>1 DEF TickAbort, dbVars, Fault, IInv, TypeOK
    <3> QED BY <3>1
  <2>2. CASE TickCommit(t)
    <3>1. \A row \in CaseRow : \A did :
            /\ row.reminder \/ did = "reminded" => Updated(row, did).reminder
            /\ row.escalated \/ did = "escalated" => Updated(row, did).escalated
      BY DEF Updated, CaseRow
    <3> QED BY <2>2, <3>1 DEF TickCommit, IInv, TypeOK
  <2> QED BY <2>1, <2>2
<1>4. faults \in Nat /\ faults' \in Nat /\ (faults' = faults \/ faults' = faults + 1)
  BY DEF TickCommit, TickAbort, Fault, IInv, TypeOK
<1>5. ASSUME NEW x, x # "none", NEW c \in Cases
      PROVE  /\ Many(x, c) \in Nat /\ Many(x, c)' \in Nat
             /\ Many(x, c)' <= Many(x, c) /\ Many(x, c) <= Many(x, c)' + 1
             /\ tick[t].plan[c] # x => Many(x, c)' = Many(x, c)
  <2>1. Doing(x, c)' = Doing(x, c) \ {t} BY <1>1, <1>5 DEF Doing
  <2>2. Cardinality(Doing(x, c) \ {t}) =
          IF t \in Doing(x, c) THEN Cardinality(Doing(x, c)) - 1
                               ELSE Cardinality(Doing(x, c))
    BY ManyIs, FS_RemoveElement
  <2>3. Many(x, c)' = IF t \in Doing(x, c) THEN Many(x, c) - 1 ELSE Many(x, c)
    BY <2>1, <2>2 DEF Many
  <2>4. Many(x, c) \in Nat /\ Many(x, c)' \in Nat BY ManyIs, ManyIsNext
  <2>5. t \in Doing(x, c) <=> tick[t].plan[c] = x BY DEF Doing
  <2> QED BY <2>3, <2>4, <2>5
<1>6. ASSUME NEW c \in Cases
      PROVE  /\ Accounted(db[c].reminder, reminders[c],
                          Many("remind", c), Many("reminded", c), faults)'
             /\ Accounted(db[c].escalated, notices[c],
                          Many("escalate", c), Many("escalated", c), faults)'
  <2>1. /\ reminders[c] \in Nat /\ notices[c] \in Nat
        /\ Many("remind", c) + Many("reminded", c) <= Overlap
        /\ Many("escalate", c) + Many("escalated", c) <= Overlap
        /\ Accounted(db[c].reminder, reminders[c],
                     Many("remind", c), Many("reminded", c), faults)
        /\ Accounted(db[c].escalated, notices[c],
                     Many("escalate", c), Many("escalated", c), faults)
    BY AccountsOf
  <2>2. Accounted(db'[c].reminder, reminders[c],
                  Many("remind", c)', Many("reminded", c)', faults')
    <3>1. /\ Many("remind", c)' <= Many("remind", c)
          /\ Many("reminded", c) <= Many("reminded", c)' + 1
          /\ tick[t].plan[c] # "reminded" => Many("reminded", c)' = Many("reminded", c)
          /\ Many("remind", c) \in Nat /\ Many("remind", c)' \in Nat
          /\ Many("reminded", c) \in Nat /\ Many("reminded", c)' \in Nat
      BY <1>5
    <3>2. /\ db[c].reminder => db'[c].reminder
          /\ faults' = faults /\ tick[t].plan[c] = "reminded" => db'[c].reminder
      BY <1>3
    <3> QED BY <1>4, <2>1, <3>1, <3>2, BoundsAssumption DEF Accounted
  <2>3. Accounted(db'[c].escalated, notices[c],
                  Many("escalate", c)', Many("escalated", c)', faults')
    <3>1. /\ Many("escalate", c)' <= Many("escalate", c)
          /\ Many("escalated", c) <= Many("escalated", c)' + 1
          /\ tick[t].plan[c] # "escalated" => Many("escalated", c)' = Many("escalated", c)
          /\ Many("escalate", c) \in Nat /\ Many("escalate", c)' \in Nat
          /\ Many("escalated", c) \in Nat /\ Many("escalated", c)' \in Nat
      BY <1>5
    <3>2. /\ db[c].escalated => db'[c].escalated
          /\ faults' = faults /\ tick[t].plan[c] = "escalated" => db'[c].escalated
      BY <1>3
    <3> QED BY <1>4, <2>1, <3>1, <3>2, BoundsAssumption DEF Accounted
  <2> QED BY <1>2, <2>2, <2>3 DEF Accounted
<1>7. Cardinality({u \in Ticks : Busy(u)})' <= Overlap
  <2> DEFINE U == {u \in Ticks : Busy(u)}
             V == {u \in Ticks : \E c \in Cases : tick'[u].plan[c] # "none"}
  <2>1. U' = V BY DEF Busy
  <2>2. V \in SUBSET U BY <1>1 DEF Busy
  <2>3. IsFiniteSet(U) /\ Cardinality(U) \in Nat BY TicksFinite
  <2>4. Cardinality(V) \in Nat BY TicksFinite
  <2>5. Cardinality(U) <= Overlap BY DEF CauseInv
  <2>6. Cardinality(V) <= Cardinality(U)
    <3> HIDE DEF U, V
    <3> QED BY <2>2, <2>3, FS_Subset
  <2>7. Cardinality(V) <= Overlap
    <3> HIDE DEF U, V
    <3> QED BY <2>3, <2>4, <2>5, <2>6, BoundsAssumption
  <2> QED BY <2>1, <2>7
<1> QED BY <1>6, <1>7 DEF CauseInv

\* The rows of an execution.
LEMMA TickRowCause ==
  ASSUME IInv, CauseInv, NEW t \in Ticks, NEW c \in Cases,
         TickRow(t, c) \/ TickForwardFails(t, c)
  PROVE  CauseInv'
<1>1. faults \in Nat /\ reminders \in [Cases -> Nat] /\ notices \in [Cases -> Nat]
  BY DEF IInv, TypeOK
<1>2. CASE TickForward(t, c)
  BY <1>1, <1>2, HandleCause DEF TickForward, dbVars, alerts, Todo, Done
<1>3. CASE TickForwardFails(t, c)
  BY <1>1, <1>3, HandleCause DEF TickForwardFails, Fault, dbVars, alerts, Todo, Done
<1>4. CASE TickRemind(t, c)
  BY <1>1, <1>4, HandleCause DEF TickRemind, dbVars, Todo, Done
<1>5. CASE TickEscalate(t, c)
  BY <1>1, <1>5, HandleCause DEF TickEscalate, dbVars, Todo, Done
<1> QED BY <1>2, <1>3, <1>4, <1>5 DEF TickRow

LEMMA NextCause == IInv /\ CauseInv /\ [Next]_vars => CauseInv'
<1> SUFFICES ASSUME IInv, CauseInv, [Next]_vars PROVE CauseInv' OBVIOUS
<1>0. IInv' /\ faults \in Nat BY NextInv DEF IInv, TypeOK
<1>1. ASSUME NEW j \in Jobs, NEW f \in Files, JobStart(j, f) PROVE CauseInv'
  BY <1>0, <1>1, FrameCause DEF JobStart, dbVars
<1>2. ASSUME NEW r \in Runs, Receive(r) \/ Forward(r) \/ Dies(r) \/ TapStep(r)
      PROVE  CauseInv'
  <2>1. faults <= faults'
    <3>1. faults' = faults \/ faults' = faults + 1
      BY <1>2
      DEF Receive, DownloadTooLarge, FindCase, StoreInNewCase, StoreInFoundCase,
        RejectFile, Forward, ForwardWithoutCase, Defer, LoadCase, AttachmentsRaise,
        SendMedia, RecordForward, SendMediaFails, Dies, TapStep, Resume, Decide,
        Confirm, EscalateCase, Dispatch, Fault
    <3> QED BY <1>0, <3>1
  <2> QED BY <1>0, <1>2, <2>1, RunKeepsReminder, RunKeepsEscalated, FrameCause
<1>3. ASSUME NEW p \in Taps, NEW c \in Cases, NEW a \in Actions, Tap(p, c, a)
      PROVE  CauseInv'
  BY <1>0, <1>3, FrameCause DEF Tap, dbVars
<1>4. CASE ResendButtons BY <1>0, <1>4, FrameCause DEF ResendButtons, dbVars
<1>5. ASSUME NEW t \in Ticks, TickSelect(t) \/ TickCommit(t) \/ TickAbort(t)
      PROVE  CauseInv'
  BY <1>5, TickSelectCause, TickEndCause
<1>6. ASSUME NEW t \in Ticks, NEW c \in Cases, TickRow(t, c) \/ TickForwardFails(t, c)
      PROVE  CauseInv'
  BY <1>6, TickRowCause
<1>7. CASE OpenOrClose BY <1>0, <1>7, FrameCause DEF OpenOrClose, dbVars
<1>8. ASSUME NEW c \in Cases, Elapse(c) PROVE CauseInv'
  BY <1>0, <1>8, FrameCause DEF Elapse, dbVars
<1>9. ASSUME NEW c \in Cases, BecomeDue(c) PROVE CauseInv'
  BY <1>0, <1>9, FrameCause, OneRowKeepsReminder, ColumnsKeepReminder,
     OneRowKeepsEscalated, ColumnsKeepEscalated
  DEF BecomeDue, IInv, TypeOK
<1>10. CASE UNCHANGED vars BY <1>0, <1>10, FrameCause DEF vars, dbVars
<1> QED BY <1>1, <1>2, <1>3, <1>4, <1>5, <1>6, <1>7, <1>8, <1>9, <1>10 DEF Next, Runs

LEMMA InitCause == Init => CauseInv
<1> SUFFICES ASSUME Init PROVE CauseInv OBVIOUS
<1>1. {t \in Ticks : Busy(t)} = {} BY DEF Init, IdleTick, Busy
<1>2. Cardinality({t \in Ticks : Busy(t)}) = 0 BY <1>1, FS_EmptySet
<1>3. \A c \in Cases : \A a, b \in Nat :
        /\ Accounted(db[c].reminder, reminders[c], a, b, faults)
        /\ Accounted(db[c].escalated, notices[c], a, b, faults)
  BY DEF Init, NoRow, Accounted
<1> QED BY <1>2, <1>3, ManyIs, BoundsAssumption DEF CauseInv

-----------------------------------------------------------------------------
(* Results *)

\* The strengthened invariant holds in every reachable state.
THEOREM Invariance == Spec => []IInv
BY InitInv, NextInv, PTL DEF Spec

\* Every variable always has its type.
THEOREM TypeCorrect == Spec => []TypeOK
<1>1. IInv => TypeOK BY DEF IInv
<1> QED BY <1>1, Invariance, PTL

\* D-28: no case is approved, and no client told of a confirmation, before
\* cartera tapped "aprobar".
THEOREM ApprovalNeedsTap == Spec => []NoApprovalWithoutTap
<1>1. IInv => NoApprovalWithoutTap
  BY DEF IInv, ApprovalInv, NoApprovalWithoutTap, ConfirmationFollowsApproval
<1> QED BY <1>1, Invariance, PTL

\* node_confirming writes the approval before any client can hear of it.
THEOREM ConfirmationNeedsApproval == Spec => []ConfirmationFollowsApproval
<1>1. IInv => ConfirmationFollowsApproval BY DEF IInv, ApprovalInv
<1> QED BY <1>1, Invariance, PTL

\* D-12 after D-11: no client hears of an escalation before the reminder to
\* cartera is on record, whatever executions overlap and are rolled back.
THEOREM EscalationIsLate == Spec => []EscalationAfterReminder
<1>1. ReminderInv => EscalationAfterReminder
  BY DEF ReminderInv, EscalationAfterReminder
<1> QED BY <1>1, Invariance, InitReminder, NextReminder, PTL DEF Spec

\* D-11, D-12, for any overlap and any number of faults: every reminder and every
\* notice over the first has an execution beside it, or a rollback, to account for.
THEOREM EveryRepeatHasACause == Spec => []RepeatsHaveACause
<1>1. IInv /\ CauseInv => RepeatsHaveACause
  <2> SUFFICES ASSUME IInv, CauseInv, NEW c \in Cases
               PROVE  reminders[c] <= Overlap + faults /\ notices[c] <= Overlap + faults
    BY DEF RepeatsHaveACause
  <2>1. /\ Many("remind", c) \in Nat /\ Many("reminded", c) \in Nat
        /\ Many("escalate", c) \in Nat /\ Many("escalated", c) \in Nat
    BY ManyIs
  <2> QED BY <2>1, AccountsOf, BoundsAssumption DEF Accounted
<1> QED BY <1>1, Invariance, InitCause, NextCause, PTL DEF Spec
=============================================================================
