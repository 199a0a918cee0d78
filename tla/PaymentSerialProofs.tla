------------------------ MODULE PaymentSerialProofs ------------------------
(***************************************************************************)
(* The payment flow when one job, tap or execution of the scheduler is     *)
(* under way at a time (Overlap = 1), for every number of cases, jobs,     *)
(* taps, executions and faults and for every kind of file: one case is     *)
(* open at most, a case is approved only by a tap on its own button, and,  *)
(* but for the cases that a rejected file was forwarded for after they     *)
(* were decided, a decision is final and is the one the client is told.    *)
(*                                                                         *)
(* The thread is the phone's and not the case's, so none of this is        *)
(* inductive. The invariant says that the thread and the run under way are *)
(* always about the latest case, that every earlier one is decided, and    *)
(* that the text in the thread is that of a decision on record.            *)
(***************************************************************************)
EXTENDS PaymentFlowProofs

\* One actor at a time.
OneAtATime == Overlap = 1

\* Run r is under way.
Active(r) == run[r].at \notin Resting

\* At most one run or execution is under way.
Alone == /\ \A r, q \in Runs : Active(r) /\ Active(q) => r = q
         /\ \A r \in Runs, t \in Ticks : Active(r) => ~Busy(t)
         /\ \A t, u \in Ticks : Busy(t) /\ Busy(u) => t = u

\* The latest case is open; it is decided, or there is none.
OpenCase   == created # NoCase /\ db[created].status \notin Terminal
NoOpenCase == created = NoCase \/ db[created].status \in Terminal

\* Who may write the latest case: it is open, or a rejected file is being
\* forwarded for it.
MayWrite == OpenCase \/ created \in refiled \/ created = NoCase

\* A text in the thread is that of the decision on the latest case, or of an
\* earlier one.
Ends(c, m) == db[c].status = IF m = "confirmed" THEN "approved" ELSE "escalated"
TapDecided(c) == \E a \in {"aprobar", "rechazar"} : <<c, a>> \in tapped
TextOK(m)  ==
  m # "none" =>
    \/ DecidedBefore(created)
    \/ /\ created # NoCase /\ TapDecided(created)
       /\ created \in refiled \/ Ends(created, m)
\* What the client was told about a case follows from its decision.
ToldOK ==
  \A c \in Cases, m \in Messages :
    <<c, m>> \in told => /\ m # "none" /\ c <= created
                         /\ DecidedBefore(c) \/ c \in refiled \/ Ends(c, m)

\* What a run finds when it may write, and the text it carries.
Writes == {"resume", "forward", "send", "record", "awaiting", "confirming", "escalate"}
ValidRun(r) ==
  /\ run[r].at \in Writes => MayWrite
  /\ run[r].at = "store" /\ run[r].found # NoCase => OpenCase
  /\ TextOK(run[r].msg)
  /\ r \in Taps =>
       /\ run[r].on = created /\ created # NoCase
       /\ run[r].at \in Writes \cup {"receive"} => OpenCase
       /\ run[r].at = "store" => run[r].found # NoCase

\* The run under way works on the latest case.
SerialRun(r) ==
  /\ run[r].at # "resume" => run[r].case = created
  /\ run[r].at \in {"send", "record"} => created # NoCase
  /\ run[r].at = "store" => \/ run[r].found = created /\ created # NoCase
                            \/ run[r].found = NoCase /\ NoOpenCase
  /\ run[r].act # "none" => /\ run[r].at \in {"resume", "awaiting"}
                            /\ run[r].on = created /\ <<created, run[r].act>> \in tapped
  /\ run[r].at = "confirming" => <<created, "aprobar">> \in tapped
  /\ run[r].at = "escalate" => <<created, "rechazar">> \in tapped
RunInv(r) == Active(r) => SerialRun(r) /\ ValidRun(r)

\* Every case before the latest is decided; there is none after it.
RowsInv == /\ \A c \in Cases : c < created => db[c].status \in Terminal
           /\ \A c \in Cases : c > created => db[c].status = "none"
\* The scheduler is at work on the latest case, and it is open.
PlanInv == \A t \in Ticks, c \in Cases :
             tick[t].plan[c] # "none" => c = created /\ db[c].status \notin Terminal
\* The thread is about the latest case, and carries a decision that was tapped.
ThreadInv == /\ thread.case = created
             /\ thread.next = "confirming" => <<created, "aprobar">> \in tapped
             /\ thread.next = "escalate" => <<created, "rechazar">> \in tapped
             /\ TextOK(thread.msg)
\* What cartera and the client see.
ClientInv == /\ buttons \subseteq 1 .. created
             /\ TapDecidesItsCase
             /\ ToldOK

SerialInv == /\ Alone /\ RowsInv /\ PlanInv /\ ThreadInv /\ ClientInv
             /\ \A r \in Runs : RunInv(r)

\* A decided case keeps its status, unless a rejected file was forwarded for it.
KeepsFinal ==
  \A c \in Cases \ refiled : db[c].status \in Terminal => db'[c].status = db[c].status

-----------------------------------------------------------------------------
(* Nobody else is under way *)

Solo(r) == /\ \A q \in Runs \ {r} : ~Active(q)
           /\ \A t \in Ticks : ~Busy(t)

\* What starts finds nobody under way.
LEMMA NobodyStarted ==
  ASSUME OneAtATime, MayStart
  PROVE  /\ \A r \in Runs : ~Active(r)
         /\ \A t \in Ticks : ~Busy(t)
<1> DEFINE A == {r \in Runs : run[r].at \notin Resting}
           B == {t \in Ticks : Busy(t)}
<1>1. IsFiniteSet(A) /\ IsFiniteSet(B)
  BY ActorsAssumption, FS_Subset DEF Runs
<1>2. Cardinality(A) \in Nat /\ Cardinality(B) \in Nat
  BY <1>1, FS_CardinalityType
<1>3. Cardinality(A) + Cardinality(B) < 1
  BY DEF OneAtATime, MayStart
<1>4. A = {} /\ B = {}
  <2>1. Cardinality(A) = 0 /\ Cardinality(B) = 0 BY <1>2, <1>3
  <2> HIDE DEF A, B
  <2> QED BY <1>1, <2>1, FS_EmptySet
<1> QED BY <1>4 DEF Active

\* A run under way is the only actor.
LEMMA AloneIsSolo ==
  ASSUME Alone, NEW r \in Runs, Active(r) PROVE Solo(r)
BY DEF Alone, Solo

\* After a step of the only run under way it is still the only one.
LEMMA StaysAlone ==
  ASSUME NEW r \in Runs, Solo(r), \A q \in Runs \ {r} : run'[q] = run[q], tick' = tick
  PROVE  Alone' /\ \A q \in Runs \ {r} : ~Active(q)'
BY DEF Alone, Solo, Active, Busy

\* What a text rests on stays while the case does.
LEMMA TextStays ==
  ASSUME IInv, created' = created, tapped \subseteq tapped', refiled \subseteq refiled',
         KeepsFinal
  PROVE  \A m : TextOK(m) => TextOK(m)'
<1>1. created # NoCase => created \in Cases
  BY DEF IInv, TypeOK, Cases, NoCase
<1>2. DecidedBefore(created) => DecidedBefore(created)'
  BY DEF DecidedBefore
<1>3. TapDecided(created) => TapDecided(created)'
  BY DEF TapDecided
<1>4. \A m : created # NoCase /\ created \notin refiled /\ Ends(created, m)
              => Ends(created, m)'
  BY <1>1 DEF Ends, KeepsFinal, Terminal
<1> QED BY <1>2, <1>3, <1>4 DEF TextOK

\* What the client was told stays true to the decisions.
LEMMA ToldStays ==
  ASSUME IInv, ToldOK, created' \in Nat, created' >= created, tapped \subseteq tapped',
         refiled \subseteq refiled', KeepsFinal, told' = told
  PROVE  ToldOK'
<1>1. created \in Nat /\ \A c \in Cases : c \in Nat BY DEF IInv, TypeOK, Cases
<1>2. \A c : DecidedBefore(c) => DecidedBefore(c)'
  BY DEF DecidedBefore
<1>3. \A c \in Cases \ refiled : \A m : Ends(c, m) => Ends(c, m)'
  BY DEF Ends, KeepsFinal, Terminal
<1> QED BY <1>1, <1>2, <1>3 DEF ToldOK

\* The latest case is a case, unless there is none.
LEMMA CreatedIs ==
  ASSUME IInv PROVE created \in Nat /\ (created # NoCase => created \in Cases)
BY DEF IInv, TypeOK, Cases, NoCase

\* A step that writes the row of the latest case only.
LEMMA OneRow ==
  ASSUME IInv, NEW row, db' = [db EXCEPT ![created] = row]
  PROVE  /\ \A c \in Cases : c # created => db'[c].status = db[c].status
         /\ created # NoCase => db'[created] = row
BY CreatedIs DEF IInv, TypeOK

\* Who may write the latest case unmakes no decision but a refiled one's.
LEMMA WriteKeepsFinal ==
  ASSUME IInv, MayWrite, \A c \in Cases : c # created => db'[c].status = db[c].status
  PROVE  KeepsFinal
BY CreatedIs DEF MayWrite, OpenCase, KeepsFinal, Cases, NoCase

\* A step of the only run under way that opens no case.
LEMMA RunStep ==
  ASSUME IInv, SerialInv, NEW r \in Runs, Solo(r),
         \A q \in Runs \ {r} : run'[q] = run[q], UNCHANGED <<created, tick>>,
         tapped \subseteq tapped',
         \A c \in Cases : c # created => db'[c].status = db[c].status,
         ThreadInv', ClientInv', RunInv(r)'
  PROVE  SerialInv'
<1>1. Alone' /\ \A q \in Runs \ {r} : ~Active(q)' BY StaysAlone
<1>2. RowsInv' BY CreatedIs DEF SerialInv, RowsInv, Cases
<1>3. PlanInv' BY DEF PlanInv, Solo, Busy
<1>4. \A q \in Runs : RunInv(q)' BY <1>1 DEF RunInv
<1> QED BY <1>1, <1>2, <1>3, <1>4 DEF SerialInv

\* What a checkpoint leaves of the thread and of the run that wrote it.
LEMMA CheckpointGives ==
  ASSUME TypeOK, NEW r \in Runs, NEW s \in Run, NEW next, Checkpoint(r, s, next)
  PROVE  /\ thread'.next = next /\ thread'.case = s.case /\ thread'.msg = s.msg
         /\ \A q \in Runs \ {r} : run'[q] = run[q]
         /\ s.at = "done" => run'[r].at = "done"
         /\ s.at # "done" => /\ run'[r].at = s.at /\ run'[r].case = s.case
                             /\ run'[r].msg = s.msg /\ run'[r].act = s.act
                             /\ run'[r].on = s.on
<1>1. thread' = [next |-> next, case |-> s.case, msg |-> s.msg,
                 file |-> IF next = "receive" THEN s.file ELSE "none"]
  BY DEF Checkpoint
<1>2. \A q \in Runs \ {r} : run'[q] = run[q]
  BY DEF Checkpoint, TypeOK
<1>3. CASE s.at = "done"
  <2>1. run'[r] = [IdleRun EXCEPT !.at = "done"] BY <1>3 DEF Checkpoint, TypeOK
  <2>2. run'[r].at = "done" BY <2>1 DEF IdleRun
  <2> QED BY <1>1, <1>2, <1>3, <2>2
<1>4. CASE s.at # "done"
  <2>1. run'[r] = [s EXCEPT !.found = NoCase, !.st = "none", !.n = 0]
    BY <1>4 DEF Checkpoint, TypeOK
  <2>2. /\ run'[r].at = s.at /\ run'[r].case = s.case /\ run'[r].msg = s.msg
        /\ run'[r].act = s.act /\ run'[r].on = s.on
    BY <2>1 DEF Run
  <2> QED BY <1>1, <1>2, <1>4, <2>2
<1> QED BY <1>3, <1>4

\* The end of a node: the run goes on with the same case and, at most, the same
\* decision; what follows needs the case open, or a decision that was tapped.
LEMMA NodeStep ==
  ASSUME IInv, SerialInv, NEW r \in Runs, Active(r), run[r].at # "resume",
         NEW s \in Run, NEW next, Checkpoint(r, s, next),
         UNCHANGED <<created, tick, tapped, told, buttons>>,
         \A c \in Cases : c # created => db'[c].status = db[c].status,
         s.case = created, s.on = run[r].on, s.act = "none" \/ (run[r].at # "awaiting" /\ s.act = run[r].act),
         s.at \in {"done", "dispatch", "forward", next},
         next \in {"forward", "awaiting", "end", "confirming", "escalate"},
         s.at # "awaiting",
         next = "confirming" => <<created, "aprobar">> \in tapped,
         next = "escalate" => <<created, "rechazar">> \in tapped,
         approvals' \subseteq approvals \cup {created},
         approvals' = approvals \/ <<created, "aprobar">> \in tapped,
         refiled \subseteq refiled', KeepsFinal,
         \A m : m = s.msg => TextOK(m)',
         s.at \in Writes => MayWrite',
         r \in Taps /\ s.at \in Writes => OpenCase'
  PROVE  SerialInv'
<1>1. Solo(r) BY AloneIsSolo DEF SerialInv
<1>2. /\ thread'.next = next /\ thread'.case = s.case /\ thread'.msg = s.msg
      /\ \A q \in Runs \ {r} : run'[q] = run[q]
      /\ s.at = "done" => run'[r].at = "done"
      /\ s.at # "done" => /\ run'[r].at = s.at /\ run'[r].case = s.case
                          /\ run'[r].msg = s.msg /\ run'[r].act = s.act
                          /\ run'[r].on = s.on
  BY CheckpointGives DEF IInv
<1>3. SerialRun(r) /\ ValidRun(r) BY DEF SerialInv, RunInv
<1>4. ThreadInv'
  <2>1. TextOK(thread.msg)' BY <1>2 DEF TextOK
  <2> QED BY <1>2, <2>1 DEF ThreadInv
<1>5. ClientInv'
  <2>1. ToldOK'
    BY CreatedIs, ToldStays DEF SerialInv, ClientInv
  <2> QED BY <2>1 DEF SerialInv, ClientInv, TapDecidesItsCase
<1>6. RunInv(r)'
  <2>1. CASE s.at = "done" BY <1>2, <2>1 DEF RunInv, Active, Resting
  <2>2. CASE s.at # "done"
    <3>1. SerialRun(r)' BY <1>2, <1>3, <2>2 DEF SerialRun
    <3>2. ValidRun(r)'
      <4>1. TextOK(run[r].msg)' BY <1>2, <2>2 DEF TextOK
      <4>2. /\ run'[r].at \in Writes => MayWrite'
            /\ r \in Taps /\ run'[r].at \in Writes => OpenCase'
        BY <1>2, <2>2
      <4>3. run'[r].at \notin {"store", "receive"} BY <1>2, <2>2
      <4>4. r \in Taps => run'[r].on = created' /\ created' # NoCase
        BY <1>2, <1>3, <2>2 DEF ValidRun
      <4> QED BY <4>1, <4>2, <4>3, <4>4 DEF ValidRun
    <3> QED BY <3>1, <3>2 DEF RunInv
  <2> QED BY <2>1, <2>2
<1> QED BY <1>1, <1>2, <1>4, <1>5, <1>6, RunStep

\* A step inside a node, or the end of a run.
LEMMA MoveStep ==
  ASSUME IInv, SerialInv, NEW r \in Runs, Solo(r),
         \A q \in Runs \ {r} : run'[q] = run[q],
         UNCHANGED <<dbVars, tick, tapped, told, approvals, refiled>>,
         thread' = thread \/ (thread'.case = thread.case /\ thread'.msg = thread.msg
                                 /\ thread'.next = "receive"),
         buttons' \subseteq 1 .. created,
         RunInv(r)'
  PROVE  SerialInv' /\ KeepsFinal
<1>1. KeepsFinal BY DEF KeepsFinal, dbVars
<1>2. created' = created /\ db' = db BY DEF dbVars
<1>3. ThreadInv'
  <2>1. \A m : TextOK(m) => TextOK(m)' BY <1>1, <1>2, TextStays
  <2>2. TextOK(thread.msg)'
    BY <2>1 DEF SerialInv, ThreadInv, TextOK
  <2> QED BY <1>2, <2>2 DEF SerialInv, ThreadInv
<1>4. ClientInv'
  <2>1. ToldOK'
    BY <1>1, <1>2, CreatedIs, ToldStays DEF SerialInv, ClientInv
  <2> QED BY <1>2, <2>1 DEF SerialInv, ClientInv, TapDecidesItsCase
<1> QED BY <1>1, <1>2, <1>3, <1>4, RunStep

\* A run that ends.
LEMMA RestStep ==
  ASSUME IInv, SerialInv, NEW r \in Runs, Active(r), NEW at \in Resting,
         run' = [run EXCEPT ![r] = [IdleRun EXCEPT !.at = at]],
         UNCHANGED <<dbVars, thread, tick, cartera, client>>
  PROVE  SerialInv' /\ KeepsFinal
<1>1. run'[r] = [IdleRun EXCEPT !.at = at] BY DEF IInv, TypeOK
<1>2. run'[r].at = at BY <1>1 DEF IdleRun
<1>3. RunInv(r)' BY <1>2 DEF RunInv, Active
<1>4. Solo(r) BY AloneIsSolo DEF SerialInv
<1>5. \A q \in Runs \ {r} : run'[q] = run[q] BY DEF IInv, TypeOK
<1> QED BY <1>3, <1>4, <1>5, MoveStep DEF cartera, client, SerialInv, ClientInv

\* Moves that keep what the run carries.
LEMMA PlaceStep ==
  ASSUME IInv, SerialInv, NEW r \in Runs, Active(r),
         run[r].at \in {"receive", "forward", "send"},
         NEW s \in Run, run' = [run EXCEPT ![r] = s],
         UNCHANGED <<dbVars, thread, tick, tapped, told, approvals, refiled>>,
         buttons' \subseteq 1 .. created,
         s.case = run[r].case, s.act = run[r].act, s.on = run[r].on, s.msg = run[r].msg,
         \/ s.at \in {"send", "record"} /\ run[r].at # "receive" /\ created # NoCase
         \/ s.at = "store" /\ run[r].at = "receive" /\ s.found = ReusableCase
  PROVE  SerialInv' /\ KeepsFinal
<1>1. run'[r] = s /\ \A q \in Runs \ {r} : run'[q] = run[q] BY DEF IInv, TypeOK
<1>2. Solo(r) BY AloneIsSolo DEF SerialInv
<1>3. SerialRun(r) /\ ValidRun(r) BY DEF SerialInv, RunInv
<1>4. created' = created /\ db' = db BY DEF dbVars
<1>5. s.at = "store" => \/ s.found = created /\ OpenCase
                        \/ s.found = NoCase /\ NoOpenCase
  BY DEF ReusableCase, OpenCase, NoOpenCase, NoCase
<1>6. SerialRun(r)'
  BY <1>1, <1>3, <1>4, <1>5 DEF SerialRun, OpenCase, NoOpenCase
<1>7. ValidRun(r)'
  <2>1. \A m : TextOK(m) => TextOK(m)'
    BY <1>4, TextStays DEF KeepsFinal
  <2>2. TextOK(run[r].msg)' BY <1>1, <1>3, <2>1 DEF ValidRun, TextOK
  <2>3. OpenCase' = OpenCase /\ MayWrite' = MayWrite BY <1>4 DEF OpenCase, MayWrite
  <2>4. NoOpenCase = ~OpenCase BY DEF OpenCase, NoOpenCase
  <2> QED BY <1>1, <1>3, <1>4, <1>5, <2>2, <2>3, <2>4 DEF ValidRun, Writes
<1>8. RunInv(r)' BY <1>6, <1>7 DEF RunInv
<1> QED BY <1>1, <1>2, <1>8, MoveStep

-----------------------------------------------------------------------------
(* The steps of a run *)

\* What the invariant says of the run under way.
LEMMA RunIs ==
  ASSUME IInv, SerialInv, NEW r \in Runs, Active(r)
  PROVE  /\ SerialRun(r) /\ ValidRun(r) /\ run[r] \in Run
         /\ run[r].at # "resume" => run[r].case = created
BY DEF SerialInv, RunInv, SerialRun, IInv, TypeOK

\* The ends of a run.
LEMMA EndsSerial ==
  ASSUME IInv, SerialInv, NEW r \in Runs,
         DownloadTooLarge(r) \/ ForwardWithoutCase(r) \/ AttachmentsRaise(r) \/ Dies(r)
  PROVE  SerialInv' /\ KeepsFinal
<1>1. Active(r)
  BY DEF DownloadTooLarge, ForwardWithoutCase, AttachmentsRaise, Dies, Active, Resting
<1>2. PICK at \in {"dead", "idle"} : run' = [run EXCEPT ![r] = [IdleRun EXCEPT !.at = at]]
  BY DEF DownloadTooLarge, ForwardWithoutCase, AttachmentsRaise, Dies
<1>3. UNCHANGED <<dbVars, thread, tick, cartera, client>>
  BY DEF DownloadTooLarge, ForwardWithoutCase, AttachmentsRaise, Dies
<1> QED BY <1>1, <1>2, <1>3, RestStep DEF Resting

\* The SELECT finds the latest case, or none that is open.
LEMMA FindCaseSerial ==
  ASSUME IInv, SerialInv, NEW r \in Runs, FindCase(r) PROVE SerialInv' /\ KeepsFinal
<1> DEFINE st == IF ReusableCase = NoCase THEN "none" ELSE db[ReusableCase].status
           s == [run[r] EXCEPT !.at = "store", !.found = ReusableCase, !.st = st]
<1>1. Active(r) /\ run[r].at = "receive" BY DEF FindCase, Active, Resting
<1>2. run' = [run EXCEPT ![r] = s] BY DEF FindCase
<1>3. ReusableCase \in {NoCase} \cup Cases
  BY CreatedIs DEF ReusableCase, NoCase
<1>4. st \in Statuses BY <1>3 DEF IInv, TypeOK, CaseRow, Statuses
<1>5. /\ s \in Run /\ s.at = "store" /\ s.found = ReusableCase /\ s.case = run[r].case
      /\ s.act = run[r].act /\ s.on = run[r].on /\ s.msg = run[r].msg
  <2> HIDE DEF st
  <2> QED BY <1>1, <1>3, <1>4, RunIs DEF Run
<1> QED
  BY <1>1, <1>2, <1>5, PlaceStep
  DEF FindCase, cartera, client, SerialInv, ClientInv

\* The two steps before a forward is recorded.
LEMMA LoadCaseSerial ==
  ASSUME IInv, SerialInv, NEW r \in Runs, LoadCase(r) PROVE SerialInv' /\ KeepsFinal
<1> DEFINE c == run[r].case
           s == [run[r] EXCEPT !.at = "send", !.st = db[c].status, !.n = db[c].atts]
<1>1. Active(r) /\ run[r].at = "forward" /\ c # NoCase BY DEF LoadCase, Active, Resting
<1>2. run' = [run EXCEPT ![r] = s] BY DEF LoadCase
<1>3. c = created /\ c \in Cases /\ created # NoCase BY <1>1, RunIs, CreatedIs
<1>4. db[c].status \in Statuses /\ db[c].atts \in Nat
  BY <1>3 DEF IInv, TypeOK, CaseRow
<1>5. /\ s \in Run /\ s.at = "send" /\ s.case = run[r].case
      /\ s.act = run[r].act /\ s.on = run[r].on /\ s.msg = run[r].msg
  BY <1>1, <1>4, RunIs DEF Run
<1> QED
  BY <1>1, <1>2, <1>3, <1>5, PlaceStep
  DEF LoadCase, cartera, client, SerialInv, ClientInv

LEMMA SendMediaSerial ==
  ASSUME IInv, SerialInv, NEW r \in Runs, SendMedia(r) PROVE SerialInv' /\ KeepsFinal
<1> DEFINE s == [run[r] EXCEPT !.at = "record"]
<1>1. Active(r) /\ run[r].at = "send" BY DEF SendMedia, Active, Resting
<1>2. run' = [run EXCEPT ![r] = s] BY DEF SendMedia
<1>3. run[r].case = created /\ created # NoCase BY <1>1, RunIs DEF SerialRun
<1>4. /\ s \in Run /\ s.at = "record" /\ s.case = run[r].case
      /\ s.act = run[r].act /\ s.on = run[r].on /\ s.msg = run[r].msg
  BY <1>1, RunIs DEF Run
<1>5. buttons' \subseteq 1 .. created
  BY <1>3, CreatedIs DEF SendMedia, SerialInv, ClientInv, NoCase
<1> QED
  BY <1>1, <1>2, <1>3, <1>4, <1>5, PlaceStep DEF SendMedia, client

\* A node that writes the latest case, and its end.
LEMMA StoreInFoundCaseSerial ==
  ASSUME IInv, SerialInv, NEW r \in Runs, StoreInFoundCase(r)
  PROVE  SerialInv' /\ KeepsFinal
<1> DEFINE c == run[r].found
           row == [db[c] EXCEPT !.atts = db[c].atts + 1,
                                !.status = OrmSet(run[r].st, "forwarded", db[c].status)]
           s == [run[r] EXCEPT !.at = "forward", !.case = c]
<1>1. Active(r) /\ run[r].at = "store" /\ c # NoCase
  BY DEF StoreInFoundCase, Active, Resting
<1>2. c = created /\ created # NoCase /\ c \in Cases
  BY <1>1, RunIs, CreatedIs DEF SerialRun
<1>3. OpenCase BY <1>1, RunIs DEF ValidRun
<1>4. /\ s \in Run /\ s.at = "forward" /\ s.case = created
      /\ s.act = run[r].act /\ s.on = run[r].on /\ s.msg = run[r].msg
  BY <1>1, <1>2, RunIs DEF Run, Nodes
<1>5. Checkpoint(r, s, "forward") /\ db' = [db EXCEPT ![created] = row]
  BY <1>2 DEF StoreInFoundCase
<1>6. \A d \in Cases : d # created => db'[d].status = db[d].status
  BY <1>5, OneRow
<1>7. KeepsFinal BY <1>3, <1>6, WriteKeepsFinal DEF MayWrite
<1>8. OpenCase'
  <2>1. db'[created] = row /\ created' = created
    BY <1>2, <1>5, OneRow DEF StoreInFoundCase
  <2>2. row.status \in {"forwarded", db[c].status}
    BY <1>2 DEF IInv, TypeOK, CaseRow, OrmSet
  <2> HIDE DEF row
  <2> QED BY <1>2, <1>3, <2>1, <2>2 DEF OpenCase, Terminal
<1>9. UNCHANGED <<created, tick, tapped, told, buttons, approvals, refiled>>
  BY DEF StoreInFoundCase, cartera, client
<1>10. \A m : m = s.msg => TextOK(m)'
  BY <1>1, <1>4, <1>7, <1>9, RunIs, TextStays DEF ValidRun
<1>11. MayWrite' BY <1>8 DEF MayWrite
<1> HIDE DEF s, row
<1> QED
  BY <1>1, <1>4, <1>5, <1>6, <1>7, <1>8, <1>9, <1>10, <1>11, NodeStep

\* A rejected file sends the latest case on: open, or decided and then refiled.
LEMMA RejectFileSerial ==
  ASSUME IInv, SerialInv, NEW r \in Runs, RejectFile(r)
  PROVE  SerialInv' /\ KeepsFinal
<1> DEFINE s == [run[r] EXCEPT !.at = "forward"]
<1>1. Active(r) /\ run[r].at = "store" BY DEF RejectFile, Active, Resting
<1>2. /\ run[r].case = created /\ run[r] \in Run /\ SerialRun(r) /\ ValidRun(r)
  BY <1>1, RunIs
<1>3. /\ s \in Run /\ s.at = "forward" /\ s.case = created
      /\ s.act = run[r].act /\ s.on = run[r].on /\ s.msg = run[r].msg
  BY <1>2 DEF Run, Nodes
<1>4. Checkpoint(r, s, "forward") BY DEF RejectFile
<1>5. /\ UNCHANGED <<created, db, tick, tapped, told, buttons, approvals>>
      /\ refiled' = refiled \cup {c \in Cases : c = created /\ db[c].status \in Terminal}
  BY <1>2 DEF RejectFile, dbVars, cartera
<1>6. KeepsFinal BY <1>5 DEF KeepsFinal
<1>7. OpenCase \/ NoOpenCase BY DEF OpenCase, NoOpenCase
<1>8. MayWrite'
  BY <1>5, <1>7, CreatedIs DEF MayWrite, OpenCase, NoOpenCase
<1>9. r \in Taps => OpenCase'
  <2>1. r \in Taps => OpenCase BY <1>1, <1>2 DEF ValidRun
  <2> QED BY <1>5, <2>1 DEF OpenCase
<1>10. \A m : m = s.msg => TextOK(m)'
  BY <1>2, <1>3, <1>5, <1>6, TextStays DEF ValidRun
<1> HIDE DEF s
<1> QED BY <1>1, <1>3, <1>4, <1>5, <1>6, <1>8, <1>9, <1>10, NodeStep

\* The run leaves the node suspended.
LEMMA SuspendedSerial ==
  ASSUME IInv, SerialInv, NEW r \in Runs, Active(r), run[r].at # "resume",
         NEW row, db' = [db EXCEPT ![created] = row],
         Checkpoint(r, [run[r] EXCEPT !.at = Suspended(r)], "awaiting"),
         UNCHANGED <<created, tick, cartera, client>>,
         run[r].at \in {"forward", "send", "record"}
  PROVE  SerialInv' /\ KeepsFinal
<1> DEFINE s == [run[r] EXCEPT !.at = Suspended(r)]
<1>1. run[r].case = created /\ run[r] \in Run BY RunIs
<1>2. MayWrite BY RunIs DEF ValidRun, Writes
<1>3. /\ s \in Run /\ s.at \in {"done", "dispatch"} /\ s.case = created
      /\ s.act = run[r].act /\ s.on = run[r].on /\ s.msg = run[r].msg
  BY <1>1 DEF Run, Nodes, Suspended
<1>4. Checkpoint(r, s, "awaiting") OBVIOUS
<1>5. \A d \in Cases : d # created => db'[d].status = db[d].status
  BY OneRow
<1>6. KeepsFinal BY <1>2, <1>5, WriteKeepsFinal
<1>7. UNCHANGED <<created, tick, tapped, told, buttons, approvals, refiled>>
  BY DEF cartera, client
<1>8. \A m : m = s.msg => TextOK(m)'
  BY <1>3, <1>6, <1>7, RunIs, TextStays DEF ValidRun
<1> HIDE DEF s
<1> QED BY <1>3, <1>4, <1>5, <1>6, <1>7, <1>8, NodeStep DEF Writes

\* The three ends of node_forward_to_cartera.
LEMMA DeferSerial ==
  ASSUME IInv, SerialInv, NEW r \in Runs, Defer(r)
  PROVE  SerialInv' /\ KeepsFinal
<1> DEFINE row == [db[run[r].case] EXCEPT !.status = "awaiting_cartera", !.due = "future"]
<1>1. Active(r) /\ run[r].at = "forward" BY DEF Defer, Active, Resting
<1>2. run[r].case = created BY <1>1, RunIs
<1>3. db' = [db EXCEPT ![created] = row] BY <1>2 DEF Defer
<1> HIDE DEF row
<1> QED BY <1>1, <1>3, SuspendedSerial DEF Defer

LEMMA RecordForwardSerial ==
  ASSUME IInv, SerialInv, NEW r \in Runs, RecordForward(r)
  PROVE  SerialInv' /\ KeepsFinal
<1> DEFINE c == run[r].case
           row == [db[c] EXCEPT !.status = OrmSet(run[r].st, "awaiting_cartera", db[c].status),
                                !.wamid = TRUE, !.due = "future"]
<1>1. Active(r) /\ run[r].at = "record" BY DEF RecordForward, Active, Resting
<1>2. run[r].case = created BY <1>1, RunIs
<1>3. db' = [db EXCEPT ![created] = row] BY <1>2 DEF RecordForward
<1> HIDE DEF row
<1> QED BY <1>1, <1>3, SuspendedSerial DEF RecordForward

LEMMA SendMediaFailsSerial ==
  ASSUME IInv, SerialInv, NEW r \in Runs, SendMediaFails(r)
  PROVE  SerialInv' /\ KeepsFinal
<1> DEFINE c == run[r].case
           row == [db[c] EXCEPT !.status = OrmSet(run[r].st, "escalated", db[c].status),
                                !.escalated = TRUE]
<1>1. Active(r) /\ run[r].at = "send" BY DEF SendMediaFails, Active, Resting
<1>2. run[r].case = created BY <1>1, RunIs
<1>3. db' = [db EXCEPT ![created] = row] BY <1>2 DEF SendMediaFails
<1> HIDE DEF row
<1> QED BY <1>1, <1>3, SuspendedSerial DEF SendMediaFails

\* A new case: the one before it is decided.
LEMMA StoreInNewCaseSerial ==
  ASSUME IInv, SerialInv, NEW r \in Runs, StoreInNewCase(r)
  PROVE  SerialInv' /\ KeepsFinal
<1> DEFINE c == created + 1
           row == [db[c] EXCEPT !.status = "forwarded", !.atts = 1]
           s == [run[r] EXCEPT !.at = "forward", !.case = c]
<1>1. Active(r) /\ run[r].at = "store" /\ run[r].found = NoCase
  BY DEF StoreInNewCase, Active, Resting
<1>2. SerialRun(r) /\ ValidRun(r) /\ run[r] \in Run BY <1>1, RunIs
<1>3. c \in Cases /\ created \in Nat
  BY CreatedIs, CasesAssumption DEF StoreInNewCase, Cases
<1>4. NoOpenCase BY <1>1, <1>2 DEF SerialRun
<1>5. /\ s \in Run /\ s.at = "forward" /\ s.case = c
      /\ s.act = run[r].act /\ s.on = run[r].on /\ s.msg = run[r].msg
  BY <1>2, <1>3 DEF Run, Nodes
<1>6. Checkpoint(r, s, "forward") /\ created' = c /\ db' = [db EXCEPT ![c] = row]
      /\ UNCHANGED <<tick, tapped, told, buttons, approvals, refiled>>
  BY DEF StoreInNewCase, cartera, client
<1>7. /\ \A d \in Cases : d # c => db'[d].status = db[d].status
      /\ db'[c].status = "forwarded"
  <2>1. row.status = "forwarded" BY <1>3 DEF IInv, TypeOK, CaseRow
  <2> HIDE DEF row
  <2> QED BY <1>3, <1>6, <2>1 DEF IInv, TypeOK
<1>8. KeepsFinal
  <2>1. db[c].status = "none" BY <1>3 DEF SerialInv, RowsInv
  <2> QED BY <1>7, <2>1 DEF KeepsFinal, Terminal
<1>9. /\ thread'.next = "forward" /\ thread'.case = c /\ thread'.msg = run[r].msg
      /\ \A q \in Runs \ {r} : run'[q] = run[q]
      /\ run'[r].at = "forward" /\ run'[r].case = c /\ run'[r].msg = run[r].msg
      /\ run'[r].act = run[r].act /\ run'[r].on = run[r].on
  <2> HIDE DEF s
  <2> QED BY <1>5, <1>6, CheckpointGives DEF IInv
<1>10. Solo(r) BY <1>1, AloneIsSolo DEF SerialInv
<1>11. Alone' /\ \A q \in Runs \ {r} : ~Active(q)' BY <1>6, <1>9, <1>10, StaysAlone
<1>12. RowsInv'
  <2>1. \A d \in Cases : d < created => db'[d].status \in Terminal
    BY <1>3, <1>7 DEF SerialInv, RowsInv, Cases
  <2>2. created \in Cases => db'[created].status \in Terminal
    BY <1>3, <1>4, <1>7 DEF NoOpenCase, Cases, NoCase
  <2>3. \A d \in Cases : d > c => db'[d].status = "none"
    BY <1>3, <1>7 DEF SerialInv, RowsInv, Cases
  <2> QED BY <1>3, <1>6, <2>1, <2>2, <2>3 DEF RowsInv, Cases
<1>13. PlanInv' BY <1>6, <1>10 DEF PlanInv, Solo, Busy
<1>14. TextOK(run[r].msg)' /\ TextOK(thread.msg)'
  <2>1. ASSUME NEW m, TextOK(m), m # "none" PROVE DecidedBefore(created)'
    <3>1. DecidedBefore(created) \/ (created # NoCase /\ TapDecided(created))
      BY <2>1 DEF TextOK
    <3>2. \E d \in 1 .. created, a \in {"aprobar", "rechazar"} : <<d, a>> \in tapped
      <4>1. CASE DecidedBefore(created)
        <5>1. PICK d \in 1 .. created - 1, a \in {"aprobar", "rechazar"} : <<d, a>> \in tapped
          BY <4>1 DEF DecidedBefore
        <5>2. d \in 1 .. created BY <1>3, <5>1
        <5> QED BY <5>1, <5>2
      <4>2. CASE created # NoCase /\ TapDecided(created)
        <5>1. created \in 1 .. created BY <1>3, <4>2 DEF NoCase
        <5> QED BY <4>2, <5>1 DEF TapDecided
      <4> QED BY <3>1, <4>1, <4>2
    <3>3. created' - 1 = created /\ tapped' = tapped BY <1>3, <1>6
    <3> QED BY <3>2, <3>3 DEF DecidedBefore
  <2> QED BY <1>2, <1>9, <2>1 DEF ValidRun, TextOK
<1>15. ThreadInv' BY <1>6, <1>9, <1>14 DEF ThreadInv
<1>16. ClientInv'
  <2>1. ToldOK'
    BY <1>3, <1>6, <1>8, ToldStays DEF SerialInv, ClientInv
  <2>2. buttons' \subseteq 1 .. c
    BY <1>3, <1>6 DEF SerialInv, ClientInv
  <2> QED BY <1>6, <2>1, <2>2 DEF SerialInv, ClientInv, TapDecidesItsCase
<1>17. RunInv(r)'
  <2>1. run[r].act = "none" BY <1>1, <1>2 DEF SerialRun
  <2>2. r \notin Taps BY <1>1, <1>2 DEF ValidRun
  <2>3. OpenCase' BY <1>3, <1>6, <1>7 DEF OpenCase, NoCase, Terminal
  <2>4. SerialRun(r)' BY <1>6, <1>9, <2>1 DEF SerialRun
  <2>5. ValidRun(r)' BY <1>6, <1>9, <1>14, <2>2, <2>3 DEF ValidRun, MayWrite
  <2> QED BY <2>4, <2>5 DEF RunInv
<1>18. \A q \in Runs : RunInv(q)' BY <1>11, <1>17 DEF RunInv
<1> QED BY <1>8, <1>11, <1>12, <1>13, <1>15, <1>16, <1>18 DEF SerialInv

-----------------------------------------------------------------------------
(* What starts a run, and the steps of a tap *)

\* A job takes over the thread's case and text.
LEMMA JobStartSerial ==
  ASSUME OneAtATime, IInv, SerialInv, NEW j \in Jobs, NEW f \in Files, JobStart(j, f)
  PROVE  SerialInv' /\ KeepsFinal
<1> DEFINE s == [IdleRun EXCEPT !.at = "receive", !.case = thread.case,
                                !.msg = thread.msg, !.file = f]
<1>1. j \in Runs /\ j \notin Taps BY ActorsAssumption DEF Runs
<1>2. Solo(j) BY NobodyStarted DEF JobStart, Solo
<1>3. run'[j] = s /\ \A q \in Runs \ {j} : run'[q] = run[q]
  BY <1>1 DEF JobStart, IInv, TypeOK
<1>4. /\ s.at = "receive" /\ s.case = thread.case /\ s.msg = thread.msg
      /\ s.act = "none"
  BY DEF IdleRun
<1>5. UNCHANGED <<dbVars, tick, tapped, told, approvals, refiled, buttons>>
  BY DEF JobStart, cartera, client
<1>6. /\ thread'.case = thread.case /\ thread'.msg = thread.msg
      /\ thread'.next = "receive"
  BY DEF JobStart, IInv, TypeOK, Thread
<1>7. thread.case = created /\ created' = created /\ TextOK(thread.msg)
  BY <1>5 DEF SerialInv, ThreadInv, dbVars
<1>8. SerialRun(j)' BY <1>3, <1>4, <1>7 DEF SerialRun
<1>9. ValidRun(j)'
  <2>1. \A m : TextOK(m) => TextOK(m)'
    BY <1>5, TextStays DEF KeepsFinal, dbVars
  <2>2. TextOK(run[j].msg)' BY <1>3, <1>4, <1>7, <2>1 DEF TextOK
  <2> QED BY <1>1, <1>3, <1>4, <2>2 DEF ValidRun, Writes
<1>10. RunInv(j)' BY <1>8, <1>9 DEF RunInv
<1>11. buttons' \subseteq 1 .. created BY <1>5 DEF SerialInv, ClientInv
<1> QED BY <1>1, <1>2, <1>3, <1>5, <1>6, <1>10, <1>11, MoveStep

\* A tap that is taken names the latest case: the others are decided.
LEMMA TapSerial ==
  ASSUME OneAtATime, IInv, SerialInv, NEW p \in Taps, NEW c \in Cases,
         NEW a \in Actions, Tap(p, c, a)
  PROVE  SerialInv' /\ KeepsFinal
<1> DEFINE s == IF db[c].status \in Terminal THEN [IdleRun EXCEPT !.at = "done"]
                ELSE [IdleRun EXCEPT !.at = "resume", !.on = c, !.act = a]
<1>1. p \in Runs BY DEF Runs
<1>2. Solo(p) BY NobodyStarted DEF Tap, Solo
<1>3. run'[p] = s /\ \A q \in Runs \ {p} : run'[q] = run[q]
  BY <1>1 DEF Tap, IInv, TypeOK
<1>4. /\ UNCHANGED <<created, db, thread, tick, told, approvals, refiled, buttons>>
      /\ tapped' = tapped \cup {<<c, a>>}
  BY DEF Tap, dbVars, client
<1>5. KeepsFinal BY <1>4 DEF KeepsFinal
<1>6. \A m : TextOK(m) => TextOK(m)' BY <1>4, <1>5, TextStays
<1>7. ThreadInv'
  <2>1. TextOK(thread.msg)'
    BY <1>4, <1>6 DEF SerialInv, ThreadInv, TextOK
  <2> QED BY <1>4, <2>1 DEF SerialInv, ThreadInv
<1>8. ClientInv'
  <2>1. ToldOK'
    BY <1>4, <1>5, CreatedIs, ToldStays DEF SerialInv, ClientInv
  <2> QED BY <1>4, <2>1 DEF SerialInv, ClientInv, TapDecidesItsCase
<1>9. RunInv(p)'
  <2>1. CASE db[c].status \in Terminal
    <3>1. run'[p].at = "done" BY <1>3, <2>1 DEF IdleRun
    <3> QED BY <3>1 DEF RunInv, Active, Resting
  <2>2. CASE db[c].status \notin Terminal
    <3>1. run'[p].at = "resume" /\ run'[p].on = c /\ run'[p].act = a /\ run'[p].msg = "none"
      BY <1>3, <2>2 DEF IdleRun
    <3>2. c = created /\ created # NoCase
      BY <2>2, CreatedIs DEF Tap, SerialInv, ClientInv, RowsInv, Cases, NoCase
    <3>3. SerialRun(p)' BY <1>4, <3>1, <3>2 DEF SerialRun
    <3>4. OpenCase' BY <1>4, <2>2, <3>2 DEF OpenCase
    <3>5. ValidRun(p)' BY <1>4, <3>1, <3>2, <3>4 DEF ValidRun, TextOK, MayWrite
    <3> QED BY <3>3, <3>5 DEF RunInv
  <2> QED BY <2>1, <2>2
<1> QED BY <1>1, <1>2, <1>3, <1>4, <1>5, <1>7, <1>8, <1>9, RunStep

\* The resumed run takes the thread's case, which is the one tapped.
LEMMA ResumeSerial ==
  ASSUME IInv, SerialInv, NEW p \in Taps, Resume(p) PROVE SerialInv' /\ KeepsFinal
<1> DEFINE s == [run[p] EXCEPT
               !.case = thread.case, !.msg = thread.msg, !.file = thread.file,
               !.act = IF thread.next = "awaiting" THEN run[p].act ELSE "none",
               !.at  = IF thread.next = "end" THEN "dispatch" ELSE thread.next]
<1>1. p \in Runs /\ Active(p) /\ run[p].at = "resume" BY DEF Runs, Resume, Active, Resting
<1>2. /\ SerialRun(p) /\ ValidRun(p) /\ run[p] \in Run
      /\ thread.next \in Nodes \cup {"end"} /\ ThreadInv
  BY <1>1, RunIs DEF SerialInv, IInv, TypeOK, Thread
<1>3. run'[p] = s /\ \A q \in Runs \ {p} : run'[q] = run[q]
  BY <1>1 DEF Resume, IInv, TypeOK
<1>4. /\ s.case = thread.case /\ s.msg = thread.msg /\ s.on = run[p].on
      /\ s.act = (IF thread.next = "awaiting" THEN run[p].act ELSE "none")
      /\ s.at = (IF thread.next = "end" THEN "dispatch" ELSE thread.next)
  BY <1>2 DEF Run
<1>5. UNCHANGED <<dbVars, tick, tapped, told, approvals, refiled, buttons,
                 thread>>
  BY DEF Resume, cartera, client
<1>6. created' = created /\ db' = db BY <1>5 DEF dbVars
<1> HIDE DEF s
<1>7. SerialRun(p)'
  BY <1>1, <1>2, <1>3, <1>4, <1>5, <1>6 DEF SerialRun, ThreadInv, Nodes
<1>8. ValidRun(p)'
  <2>1. \A m : TextOK(m) => TextOK(m)' BY <1>5, <1>6, TextStays DEF KeepsFinal
  <2>2. TextOK(run[p].msg)' BY <1>2, <1>3, <1>4, <2>1 DEF ThreadInv, TextOK
  <2>3. OpenCase' /\ run[p].on = created /\ created # NoCase
    BY <1>1, <1>2, <1>6 DEF ValidRun, Writes, OpenCase
  <2> QED BY <1>2, <1>3, <1>4, <1>6, <2>2, <2>3 DEF ValidRun, MayWrite, Nodes
<1>9. RunInv(p)' BY <1>7, <1>8 DEF RunInv
<1>10. Solo(p) BY <1>1, AloneIsSolo DEF SerialInv
<1>11. buttons' \subseteq 1 .. created BY <1>5 DEF SerialInv, ClientInv
<1> QED BY <1>1, <1>3, <1>5, <1>9, <1>10, <1>11, MoveStep

\* The route of a decision rests on the tap that made it.
LEMMA DecideSerial ==
  ASSUME IInv, SerialInv, NEW p \in Taps, Decide(p)
  PROVE  SerialInv' /\ KeepsFinal
<1> DEFINE node == NodeAfter(run[p].act)
           place == IF node = "awaiting" THEN "dispatch" ELSE node
           s == [run[p] EXCEPT !.act = "none", !.at = place]
<1>1. p \in Runs /\ Active(p) /\ run[p].at = "awaiting" BY DEF Runs, Decide, Active, Resting
<1>2. /\ SerialRun(p) /\ ValidRun(p) /\ run[p] \in Run
      /\ run[p].case = created
  BY <1>1, RunIs
<1>3. /\ node \in {"confirming", "escalate", "awaiting"}
      /\ node = "confirming" => run[p].act = "aprobar"
      /\ node = "escalate" => run[p].act = "rechazar"
  BY DEF NodeAfter
<1>4. place \in {"dispatch", "confirming", "escalate"} /\ place \in {"dispatch", node}
  BY <1>3
<1>5. Checkpoint(p, s, node) BY DEF Decide
<1>6. UNCHANGED <<created, db, tick, tapped, told, buttons, approvals, refiled>>
  BY DEF Decide, dbVars, cartera, client
<1>7. /\ s \in Run /\ s.act = "none" /\ s.msg = run[p].msg /\ s.at = place
      /\ s.case = run[p].case /\ s.on = run[p].on
  <2>1. s \in Run /\ s.act = "none" /\ s.msg = run[p].msg /\ s.at = place
    <3> HIDE DEF node, place
    <3> QED BY <1>2, <1>4, Decided
  <2>2. s.case = run[p].case /\ s.on = run[p].on BY <1>2 DEF Run
  <2> QED BY <2>1, <2>2
<1>8. /\ node = "confirming" => <<created, "aprobar">> \in tapped
      /\ node = "escalate" => <<created, "rechazar">> \in tapped
  <2> HIDE DEF node
  <2> QED BY <1>2, <1>3 DEF SerialRun
<1>9. KeepsFinal BY <1>6 DEF KeepsFinal
<1>10. OpenCase' /\ MayWrite' BY <1>1, <1>2, <1>6 DEF ValidRun, Writes, OpenCase, MayWrite
<1>11. \A m : m = s.msg => TextOK(m)'
  BY <1>2, <1>6, <1>7, <1>9, TextStays DEF ValidRun
<1> HIDE DEF s, place, node
<1> QED
  BY <1>1, <1>2, <1>3, <1>4, <1>5, <1>6, <1>7, <1>8, <1>9, <1>10, <1>11, NodeStep

\* A decision on the latest case, and the text the thread gets with it.
LEMMA VerdictSerial ==
  ASSUME IInv, SerialInv, NEW p \in Runs, run[p].at \in {"confirming", "escalate"},
         created # NoCase, NEW row \in CaseRow, NEW msg \in Messages,
         db' = [db EXCEPT ![created] = row],
         row.status = IF msg = "confirmed" THEN "approved" ELSE "escalated",
         Checkpoint(p, [run[p] EXCEPT !.msg = msg, !.at = "dispatch"], "end"),
         UNCHANGED <<created, tick, cartera, told, refiled>>,
         approvals' = approvals \/ (run[p].at = "confirming"
                                      /\ approvals' = approvals \cup {created})
  PROVE  SerialInv' /\ KeepsFinal
<1> DEFINE s == [run[p] EXCEPT !.msg = msg, !.at = "dispatch"]
<1>1. Active(p) BY DEF Active, Resting
<1>2. /\ SerialRun(p) /\ ValidRun(p) /\ run[p] \in Run
      /\ run[p].case = created
  BY <1>1, RunIs
<1>3. /\ s \in Run /\ s.at = "dispatch" /\ s.case = created /\ s.act = run[p].act
      /\ s.on = run[p].on /\ s.msg = msg
  BY <1>2 DEF Run
<1>4. UNCHANGED <<created, tick, tapped, told, buttons, refiled>> BY DEF cartera
<1>5. \A d \in Cases : d # created => db'[d].status = db[d].status
  BY OneRow
<1>6. KeepsFinal
  BY <1>2, <1>5, WriteKeepsFinal DEF ValidRun, Writes
<1>7. \A m : m = s.msg => TextOK(m)'
  <2>1. Ends(created, msg)'
    BY <1>4, OneRow DEF Ends
  <2>2. TapDecided(created)' BY <1>2, <1>4 DEF SerialRun, TapDecided
  <2> QED BY <1>3, <1>4, <2>1, <2>2 DEF TextOK
<1>8. run[p].at = "confirming" => <<created, "aprobar">> \in tapped
  BY <1>2 DEF SerialRun
<1>9. Checkpoint(p, s, "end") OBVIOUS
<1> HIDE DEF s
<1> QED
  BY <1>1, <1>3, <1>4, <1>5, <1>6, <1>7, <1>8, <1>9, NodeStep DEF Writes

\* node_confirming and node_payment_escalate.
LEMMA ConfirmSerial ==
  ASSUME IInv, SerialInv, NEW r \in Runs, Confirm(r)
  PROVE  SerialInv' /\ KeepsFinal
<1> DEFINE c == run[r].case
           row == [db[c] EXCEPT !.status = "approved"]
<1>1. Active(r) /\ run[r].at = "confirming" BY DEF Confirm, Active, Resting
<1>2. c = created /\ created # NoCase /\ c \in Cases BY <1>1, RunIs, CreatedIs DEF Confirm
<1>3. row \in CaseRow /\ row.status = "approved"
  <2>1. db[c] \in CaseRow BY <1>2 DEF IInv, TypeOK
  <2> QED BY <2>1 DEF CaseRow, Statuses
<1>4. db' = [db EXCEPT ![created] = row] BY <1>2 DEF Confirm
<1>5. approvals' = approvals \cup {created} BY <1>2 DEF Confirm
<1> HIDE DEF row
<1> QED BY <1>1, <1>2, <1>3, <1>4, <1>5, VerdictSerial DEF Confirm, Messages

LEMMA EscalateCaseSerial ==
  ASSUME IInv, SerialInv, NEW r \in Runs, EscalateCase(r)
  PROVE  SerialInv' /\ KeepsFinal
<1> DEFINE c == run[r].case
           row == [db[c] EXCEPT !.status = "escalated", !.escalated = TRUE]
<1>1. Active(r) /\ run[r].at = "escalate" BY DEF EscalateCase, Active, Resting
<1>2. c = created /\ created # NoCase /\ c \in Cases
  BY <1>1, RunIs, CreatedIs DEF EscalateCase
<1>3. row \in CaseRow /\ row.status = "escalated"
  <2>1. db[c] \in CaseRow BY <1>2 DEF IInv, TypeOK
  <2> QED BY <2>1 DEF CaseRow, Statuses
<1>4. db' = [db EXCEPT ![created] = row] BY <1>2 DEF EscalateCase
<1> HIDE DEF row
<1> QED
  BY <1>1, <1>2, <1>3, <1>4, VerdictSerial DEF EscalateCase, Messages, client

\* What the client is told stands on the decision on the case, or comes late.
LEMMA DispatchSerial ==
  ASSUME IInv, SerialInv, NEW p \in Taps, Dispatch(p) PROVE SerialInv' /\ KeepsFinal
<1>1. p \in Runs /\ Active(p) BY DEF Runs, Dispatch, Active, Resting
<1>2. /\ SerialRun(p) /\ ValidRun(p)
  BY <1>1, RunIs
<1>3. UNCHANGED <<created, db, thread, tick, tapped, buttons, approvals,
                 refiled>>
  BY DEF Dispatch, dbVars, cartera
<1>4. KeepsFinal BY <1>3 DEF KeepsFinal
<1>5. \A m : TextOK(m) => TextOK(m)' BY <1>3, <1>4, TextStays
<1>6. ThreadInv'
  <2>1. TextOK(thread.msg)'
    BY <1>3, <1>5 DEF SerialInv, ThreadInv, TextOK
  <2> QED BY <1>3, <2>1 DEF SerialInv, ThreadInv
<1>7. ToldOK'
  <2>1. ToldOK BY DEF SerialInv, ClientInv
  <2>2. run[p].on = created /\ TextOK(run[p].msg) BY <1>1, <1>2 DEF ValidRun
  <2>3. created \in Nat BY CreatedIs
  <2>4. ASSUME NEW c \in Cases, NEW m \in Messages, <<c, m>> \in told'
        PROVE  /\ m # "none" /\ c <= created
               /\ DecidedBefore(c) \/ c \in refiled \/ Ends(c, m)
    <3>1. CASE <<c, m>> \in told BY <2>1, <3>1 DEF ToldOK
    <3>2. CASE <<c, m>> \notin told
      <4>1. c = run[p].on /\ m = run[p].msg /\ m # "none" BY <2>4, <3>2 DEF Dispatch
      <4> QED BY <2>2, <2>3, <4>1 DEF TextOK
    <3> QED BY <3>1, <3>2
  <2>5. \A c, m : /\ DecidedBefore(c) => DecidedBefore(c)'
                  /\ Ends(c, m) => Ends(c, m)'
    BY <1>3 DEF DecidedBefore, Ends
  <2> QED BY <1>3, <2>4, <2>5 DEF ToldOK
<1>8. ClientInv' BY <1>3, <1>7 DEF SerialInv, ClientInv, TapDecidesItsCase
<1>9. run'[p].at = "done" /\ \A q \in Runs \ {p} : run'[q] = run[q]
  BY <1>1 DEF Dispatch, IInv, TypeOK, IdleRun
<1>10. RunInv(p)' BY <1>9 DEF RunInv, Active, Resting
<1>11. Solo(p) BY <1>1, AloneIsSolo DEF SerialInv
<1> QED BY <1>1, <1>3, <1>4, <1>6, <1>8, <1>9, <1>10, <1>11, RunStep

-----------------------------------------------------------------------------
(* The scheduler, cartera's texts and time *)

\* A step that moves no run and no status.
LEMMA OutsideStep ==
  ASSUME IInv, SerialInv, UNCHANGED <<created, thread, run, tapped, client>>,
         KeepsFinal,
         \A c \in Cases : db'[c].status = db[c].status \/ \A r \in Runs : ~Active(r),
         \A c \in Cases : c # created => db'[c].status = db[c].status,
         buttons' \subseteq 1 .. created, Alone', PlanInv'
  PROVE  SerialInv'
<1>1. told' = told /\ approvals' = approvals /\ refiled' = refiled BY DEF client
<1>2. \A m : TextOK(m) => TextOK(m)' BY <1>1, TextStays
<1>3. ThreadInv'
  <2>1. TextOK(thread.msg)' BY <1>2 DEF SerialInv, ThreadInv, TextOK
  <2> QED BY <2>1 DEF SerialInv, ThreadInv
<1>4. ClientInv'
  <2>1. ToldOK' BY <1>1, CreatedIs, ToldStays DEF SerialInv, ClientInv
  <2> QED BY <1>1, <2>1 DEF SerialInv, ClientInv, TapDecidesItsCase
<1>5. RowsInv' BY CreatedIs DEF SerialInv, RowsInv, Cases
<1>6. ASSUME NEW r \in Runs PROVE RunInv(r)'
  <2>1. SUFFICES ASSUME Active(r)' PROVE SerialRun(r)' /\ ValidRun(r)'
    BY DEF RunInv
  <2>2. Active(r) BY <2>1 DEF Active
  <2>3. SerialRun(r) /\ ValidRun(r) BY <2>2, RunIs
  <2>4. created # NoCase => db'[created].status = db[created].status
    BY <2>2, CreatedIs
  <2>5. OpenCase' = OpenCase /\ NoOpenCase' = NoOpenCase /\ MayWrite' = MayWrite
    BY <1>1, <2>4 DEF OpenCase, NoOpenCase, MayWrite
  <2>6. SerialRun(r)' BY <2>3, <2>5 DEF SerialRun
  <2>7. TextOK(run[r].msg)' BY <1>2, <2>3 DEF ValidRun, TextOK
  <2>8. ValidRun(r)' BY <2>3, <2>5, <2>7 DEF ValidRun
  <2> QED BY <2>6, <2>8
<1> QED BY <1>3, <1>4, <1>5, <1>6 DEF SerialInv

\* An execution plans for the latest case only, and only while it is open.
LEMMA TickStart ==
  ASSUME OneAtATime, IInv, SerialInv, NEW t \in Ticks, TickSelect(t)
  PROVE  SerialInv' /\ KeepsFinal
<1>1. (\A r \in Runs : ~Active(r)) /\ (\A u \in Ticks : ~Busy(u))
  BY NobodyStarted DEF TickSelect
<1>2. /\ UNCHANGED <<created, db, thread, run, tapped, buttons, client>>
  BY DEF TickSelect, dbVars, cartera
<1>3. \A u \in Ticks, c \in Cases :
        tick'[u].plan[c] = IF u = t THEN PlanFor(c) ELSE tick[u].plan[c]
  BY DEF TickSelect, IInv, TypeOK
<1>4. KeepsFinal BY <1>2 DEF KeepsFinal
<1>5. Alone' BY <1>1, <1>2, <1>3 DEF Alone, Active, Busy
<1>6. PlanInv'
  <2>1. \A c \in Cases : PlanFor(c) # "none" => db[c].status = "awaiting_cartera"
    BY DEF PlanFor, Selected
  <2>2. \A c \in Cases : db[c].status = "awaiting_cartera" =>
          c = created /\ db[c].status \notin Terminal
    BY CreatedIs DEF SerialInv, RowsInv, Terminal, Cases
  <2> QED BY <1>1, <1>2, <1>3, <2>1, <2>2 DEF PlanInv, Busy
<1> QED BY <1>1, <1>2, <1>4, <1>5, <1>6, OutsideStep DEF SerialInv, ClientInv

\* An execution under way is the only actor; it stays so until it commits.
LEMMA TickRests ==
  ASSUME SerialInv, NEW t \in Ticks, Busy(t), run' = run,
         \A u \in Ticks \ {t} : tick'[u] = tick[u]
  PROVE  Alone' /\ \A r \in Runs : ~Active(r)
BY DEF SerialInv, Alone, Active, Busy

\* The commit decides an open case only.
LEMMA TickEndSerial ==
  ASSUME IInv, SerialInv, NEW t \in Ticks, TickCommit(t) \/ TickAbort(t)
  PROVE  SerialInv' /\ KeepsFinal
<1>1. /\ Busy(t) /\ tick' = [tick EXCEPT ![t] = IdleTick]
      /\ UNCHANGED <<created, thread, run, tapped, buttons, client>>
  BY DEF TickCommit, TickAbort, dbVars, cartera
<1>2. \A u \in Ticks \ {t} : tick'[u] = tick[u] BY <1>1 DEF IInv, TypeOK
<1>3. Alone' /\ \A r \in Runs : ~Active(r) BY <1>1, <1>2, TickRests
<1>4. \A u \in Ticks, c \in Cases : tick'[u].plan[c] = "none"
  BY <1>1, <1>2 DEF IInv, TypeOK, IdleTick, SerialInv, Alone, Busy
<1>5. \A c \in Cases : db'[c].status = db[c].status \/ tick[t].plan[c] # "none"
  <2>1. CASE TickAbort(t) BY <2>1 DEF TickAbort, dbVars
  <2>2. CASE TickCommit(t)
    BY <2>2 DEF TickCommit, Updated
  <2> QED BY <2>1, <2>2
<1>6. \A c \in Cases : tick[t].plan[c] # "none" => c = created /\ db[c].status \notin Terminal
  BY DEF SerialInv, PlanInv
<1>7. KeepsFinal BY <1>5, <1>6 DEF KeepsFinal
<1>8. PlanInv' BY <1>4 DEF PlanInv
<1> QED BY <1>1, <1>3, <1>5, <1>6, <1>7, <1>8, OutsideStep DEF SerialInv, ClientInv

\* A row of a plan, once handled, is still one of the plan's.
LEMMA HandleGives ==
  ASSUME IInv, NEW t \in Ticks, NEW c \in Cases, NEW todo, NEW done,
         Handle(t, c, todo, done)
  PROVE  /\ \A u \in Ticks \ {t} : tick'[u] = tick[u]
         /\ \A u \in Ticks, d \in Cases :
              tick'[u].plan[d] = IF u = t /\ d = c THEN done ELSE tick[u].plan[d]
<1> DEFINE p == [tick[t].plan EXCEPT ![c] = done]
           x == [tick[t] EXCEPT !.plan = p]
<1>1. tick \in [Ticks -> [plan : [Cases -> {"none"} \cup Todo \cup Done], n : [Cases -> Nat]]]
  BY DEF IInv, TypeOK
<1>2. tick' = [tick EXCEPT ![t] = x] BY DEF Handle
<1>3. x.plan = p BY <1>1
<1>4. \A d \in Cases : p[d] = IF d = c THEN done ELSE tick[t].plan[d]
  BY <1>1
<1> HIDE DEF p, x
<1> QED BY <1>1, <1>2, <1>3, <1>4

\* The messages of an execution.
LEMMA TickRowSerial ==
  ASSUME IInv, SerialInv, NEW t \in Ticks, NEW c \in Cases,
         TickRow(t, c) \/ TickForwardFails(t, c)
  PROVE  SerialInv' /\ KeepsFinal
<1>1. PICK todo \in Todo, done \in Done : Handle(t, c, todo, done)
  BY DEF TickRow, TickForward, TickForwardFails, TickRemind, TickEscalate, Todo, Done
<1>2. /\ UNCHANGED <<created, db, thread, run, tapped, client>>
      /\ buttons' \subseteq buttons \cup {c}
  BY DEF TickRow, TickForward, TickForwardFails, TickRemind, TickEscalate, dbVars, cartera
<1>3. tick[t].plan[c] # "none" BY <1>1 DEF Handle, Todo
<1>4. Busy(t) BY <1>3 DEF Busy
<1>5. c = created /\ db[c].status \notin Terminal BY <1>3 DEF SerialInv, PlanInv
<1>6. Alone' /\ \A r \in Runs : ~Active(r) BY <1>1, <1>2, <1>4, HandleGives, TickRests
<1>7. PlanInv'
  BY <1>1, <1>2, <1>5, HandleGives DEF SerialInv, PlanInv
<1>8. buttons' \subseteq 1 .. created
  BY <1>2, <1>5 DEF SerialInv, ClientInv, Cases
<1>9. KeepsFinal BY <1>2 DEF KeepsFinal
<1> QED BY <1>2, <1>6, <1>7, <1>8, <1>9, OutsideStep

\* Cartera's texts, the clock, and nothing at all.
LEMMA QuietStep ==
  ASSUME IInv, SerialInv, UNCHANGED <<created, thread, run, tick, tapped, client>>,
         \A c \in Cases : db'[c].status = db[c].status,
         buttons' \subseteq 1 .. created
  PROVE  SerialInv' /\ KeepsFinal
<1>1. KeepsFinal BY DEF KeepsFinal
<1>2. Alone' /\ PlanInv' BY DEF SerialInv, Alone, Active, Busy, PlanInv
<1> QED BY <1>1, <1>2, OutsideStep

\* The steps nobody under way takes.
LEMMA OutsideSerial ==
  ASSUME IInv, SerialInv,
         \/ ResendButtons \/ OpenOrClose \/ UNCHANGED vars
         \/ \E c \in Cases : Elapse(c) \/ BecomeDue(c)
  PROVE  SerialInv' /\ KeepsFinal
<1>0. buttons \subseteq 1 .. created BY DEF SerialInv, ClientInv
<1>1. CASE ResendButtons
  <2>1. PICK c \in Cases : db[c].status = "awaiting_cartera" /\ buttons' = buttons \cup {c}
    BY <1>1 DEF ResendButtons
  <2>2. c \in 1 .. created
    BY <2>1, CreatedIs DEF SerialInv, RowsInv, Cases
  <2>3. buttons' \subseteq 1 .. created BY <1>0, <2>1, <2>2
  <2> QED BY <1>1, <2>3, QuietStep DEF ResendButtons, dbVars
<1>2. CASE OpenOrClose
  BY <1>0, <1>2, QuietStep DEF OpenOrClose, dbVars, cartera
<1>3. CASE UNCHANGED vars
  BY <1>0, <1>3, QuietStep DEF vars, dbVars, cartera
<1>4. ASSUME NEW c \in Cases, Elapse(c) PROVE SerialInv' /\ KeepsFinal
  BY <1>0, <1>4, QuietStep DEF Elapse, dbVars, cartera
<1>5. ASSUME NEW c \in Cases, BecomeDue(c) PROVE SerialInv' /\ KeepsFinal
  <2>1. db[c] \in CaseRow BY DEF IInv, TypeOK
  <2>2. [db[c] EXCEPT !.due = "past"].status = db[c].status BY <2>1 DEF CaseRow
  <2>3. \A d \in Cases : db'[d].status = db[d].status
    BY <1>5, <2>2 DEF BecomeDue, IInv, TypeOK
  <2> QED BY <1>0, <1>5, <2>3, QuietStep DEF BecomeDue, cartera
<1> QED BY <1>1, <1>2, <1>3, <1>4, <1>5

-----------------------------------------------------------------------------
(* Every step *)

\* The initial state has no case and nobody under way.
LEMMA InitSerial == Init => SerialInv
<1> SUFFICES ASSUME Init PROVE SerialInv OBVIOUS
<1>1. \A r \in Runs : ~Active(r) BY DEF Init, Active, IdleRun, Resting
<1>2. \A t \in Ticks, c \in Cases : tick[t].plan[c] = "none" BY DEF Init, IdleTick
<1>3. Alone BY <1>1, <1>2 DEF Alone, Busy
<1>4. RowsInv /\ PlanInv BY <1>2 DEF Init, RowsInv, PlanInv, NoRow, Cases
<1>5. ThreadInv BY DEF Init, ThreadInv, NoCase, TextOK
<1>6. ClientInv BY DEF Init, ClientInv, TapDecidesItsCase, ToldOK
<1>7. \A r \in Runs : RunInv(r) BY <1>1 DEF RunInv
<1> QED BY <1>3, <1>4, <1>5, <1>6, <1>7 DEF SerialInv

\* Every step keeps the invariant and the decisions.
LEMMA NextSerial ==
  ASSUME OneAtATime, IInv, SerialInv, [Next]_vars
  PROVE  SerialInv' /\ KeepsFinal
<1>1. ASSUME NEW j \in Jobs, NEW f \in Files, JobStart(j, f)
      PROVE  SerialInv' /\ KeepsFinal
  BY <1>1, JobStartSerial
<1>2. ASSUME NEW r \in Runs, Receive(r) \/ Forward(r) \/ Dies(r)
      PROVE  SerialInv' /\ KeepsFinal
  BY <1>2, EndsSerial, FindCaseSerial, StoreInNewCaseSerial, StoreInFoundCaseSerial,
     RejectFileSerial, DeferSerial, LoadCaseSerial, SendMediaSerial,
     RecordForwardSerial, SendMediaFailsSerial
  DEF Receive, Forward
<1>3. ASSUME NEW p \in Taps, TapStep(p)
      PROVE  SerialInv' /\ KeepsFinal
  BY <1>3, ResumeSerial, DecideSerial, ConfirmSerial, EscalateCaseSerial, DispatchSerial
  DEF TapStep, Runs
<1>4. ASSUME NEW p \in Taps, NEW c \in Cases, NEW a \in Actions, Tap(p, c, a)
      PROVE  SerialInv' /\ KeepsFinal
  BY <1>4, TapSerial
<1>5. ASSUME NEW t \in Ticks, TickSelect(t) \/ TickCommit(t) \/ TickAbort(t)
      PROVE  SerialInv' /\ KeepsFinal
  BY <1>5, TickStart, TickEndSerial
<1>6. ASSUME NEW t \in Ticks, NEW c \in Cases, TickRow(t, c) \/ TickForwardFails(t, c)
      PROVE  SerialInv' /\ KeepsFinal
  BY <1>6, TickRowSerial
<1>7. CASE ResendButtons \/ OpenOrClose \/ UNCHANGED vars
             \/ \E c \in Cases : Elapse(c) \/ BecomeDue(c)
  BY <1>7, OutsideSerial
<1> QED BY <1>1, <1>2, <1>3, <1>4, <1>5, <1>6, <1>7 DEF Next

\* The invariant holds in every reachable state.
THEOREM SerialInvariance == ASSUME OneAtATime PROVE Spec => []SerialInv
<1>1. IInv /\ SerialInv /\ [Next]_vars => SerialInv' BY NextSerial
<1> QED BY <1>1, Invariance, InitSerial, PTL DEF Spec

\* D-07, D-09: the client never has two open cases, whatever fails and whatever
\* the files are.
THEOREM OneCaseIsOpen == ASSUME OneAtATime PROVE Spec => []OneOpenCase
<1>1. IInv /\ SerialInv => OneOpenCase
  <2> SUFFICES ASSUME IInv, SerialInv PROVE OneOpenCase OBVIOUS
  <2> DEFINE S == {c \in 1 .. created : db[c].status \notin Terminal}
  <2>1. S \subseteq {created}
    <3>1. created \in 0 .. MaxCases BY DEF IInv, TypeOK
    <3>2. ASSUME NEW c \in 1 .. created, c # created PROVE db[c].status \in Terminal
      <4>1. c \in Cases /\ c < created BY <3>1, <3>2, CasesAssumption DEF Cases
      <4> QED BY <4>1 DEF SerialInv, RowsInv
    <3> QED BY <3>2
  <2>2. IsFiniteSet({created}) /\ Cardinality({created}) = 1 BY FS_Singleton
  <2>3. IsFiniteSet(S) /\ Cardinality(S) <= Cardinality({created}) BY <2>1, <2>2, FS_Subset
  <2> QED BY <2>2, <2>3 DEF OneOpenCase
<1> QED BY <1>1, Invariance, SerialInvariance, PTL

\* A case is approved only by a tap on its own button, though the thread that is
\* resumed is the phone's.
THEOREM TapsDecideTheirCase == ASSUME OneAtATime PROVE Spec => []TapDecidesItsCase
<1>1. SerialInv => TapDecidesItsCase BY DEF SerialInv, ClientInv
<1> QED BY <1>1, SerialInvariance, PTL

\* What the client was told of a case is the decision on record for it, unless the
\* text of an earlier decision was still in the thread or a rejected file was
\* forwarded for the decided case.
THEOREM AnswersAgree == ASSUME OneAtATime PROVE Spec => []Consistent
<1>1. SerialInv => Consistent
  BY DEF SerialInv, ClientInv, ToldOK, Consistent, Ends, Messages
<1> QED BY <1>1, SerialInvariance, PTL

\* D-09: only a rejected file takes a decision back.
THEOREM DecisionsAreFinal == ASSUME OneAtATime PROVE Spec => TerminalIsFinal
<1>1. IInv /\ SerialInv /\ [Next]_vars
        => [\A c \in Cases \ refiled :
              db[c].status \in Terminal => db'[c].status = db[c].status]_vars
  BY NextSerial DEF KeepsFinal
<1> QED BY <1>1, Invariance, SerialInvariance, PTL DEF Spec, TerminalIsFinal
=============================================================================
