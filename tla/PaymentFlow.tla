---------------------------- MODULE PaymentFlow ----------------------------
(***************************************************************************)
(* The payment-validation flow of one client: the `cases` table, the       *)
(* client's LangGraph payment thread, the ARQ jobs that feed it            *)
(* (process_attachment), the taps of cartera that resume it, and the       *)
(* every-minute scheduler that reminds and escalates (check_pending_cases).*)
(*                                                                         *)
(* Web process and worker process share only Postgres, and none of the     *)
(* three kinds of actor takes the conversation lock, so their steps        *)
(* interleave at every await: one action below is one database transaction *)
(* without a remote call inside, or one remote call.                       *)
(*                                                                         *)
(* The thread is keyed by the client's phone, not by the case: a run reads *)
(* the whole thread when it starts, carries its own copy, and writes that  *)
(* copy back as the next checkpoint after every node.                      *)
(***************************************************************************)
EXTENDS Integers, FiniteSets

CONSTANTS
  MaxCases,   \* bound: cases the client can open
  Jobs,       \* process_attachment jobs (comprobantes the client sends)
  Taps,       \* button taps cartera makes
  Ticks,      \* check_pending_cases executions that may overlap
  Overlap,    \* bound: actors under way at once; the code sets none (ARQ runs
              \*   up to 10 jobs, the web process any number of webhooks)
  Files,      \* kinds of file the client sends
  LazyLoad,   \* what reading case.attachments of a row selected without them
              \*   can do: "rows" (a session mock), "raises" (async SQLAlchemy)
  MaxFaults   \* bound: exceptions, failed sends and worker kills

ASSUME CasesAssumption  == MaxCases \in Nat \ {0}
ASSUME ActorsAssumption == /\ Jobs \cap Taps = {}
                           /\ IsFiniteSet(Jobs \cup Taps) /\ IsFiniteSet(Ticks)
ASSUME BoundsAssumption == Overlap \in Nat /\ MaxFaults \in Nat
ASSUME FilesAssumption  == Files \subseteq {"valid", "mismatch", "huge"}
ASSUME LoadAssumption   == LazyLoad \subseteq {"rows", "raises"}

Cases  == 1 .. MaxCases
NoCase == 0
Runs   == Jobs \cup Taps

\* The statuses of ck_cases_status that the payment nodes write, and "none"
\* for a row that does not exist yet ("awaiting_receipt" never outlives the
\* transaction that inserts it).
Statuses == {"none", "forwarded", "awaiting_cartera", "approved", "escalated"}
Terminal == {"approved", "rejected", "escalated", "closed"}

Actions  == {"aprobar", "rechazar", "info"}
Messages == {"none", "confirmed", "handed_over"}
Nodes    == {"receive", "forward", "awaiting", "confirming", "escalate"}

Todo   == {"forward", "remind", "escalate"}
Done   == {"forwarded", "forward_failed", "reminded", "escalated"}

VARIABLES
  created,    \* how many cases exist: case c is the c-th, the latest is the last
  db,         \* the cases table: one record per case
  thread,     \* the latest checkpoint of the client's payment thread
  run,        \* the graph invocations: jobs of the worker, taps of the webhook
  tick,       \* the scheduler: what each execution still has to do or has done
  open,       \* is it business time?
  age,        \* business time since the case was created: 0 = under 20
              \*   minutes, 1 = 20 to 89 minutes, 2 = 90 minutes or more
  faults,     \* faults spent so far
  buttons,    \* cases whose three buttons are in cartera's chat
  seen,       \* comprobantes of the case that were sent to cartera
  tapped,     \* the taps cartera made: <<case, action>>
  told,       \* what the client was told after a tap: <<case tapped, message>>
  approvals,  \* cases that were ever set to approved
  refiled,    \* decided cases that a rejected file was forwarded for
  reminders,  \* reminders cartera received about the case
  notices     \* "la revision esta tardando" notices the client received

dbVars    == <<created, db>>
clock     == <<open, age>>
cartera   == <<buttons, seen, tapped>>
client    == <<told, approvals, refiled>>
alerts    == <<reminders, notices>>
vars      == <<dbVars, thread, run, tick, clock, faults, cartera, client, alerts>>

CaseRow == [status : Statuses, atts : Nat, wamid : BOOLEAN, reminder : BOOLEAN,
            escalated : BOOLEAN, due : {"none", "future", "past"}]
Thread  == [next : Nodes \cup {"end"}, case : {NoCase} \cup Cases,
            msg : Messages, file : Files \cup {"none"}]
Run     == [at : Nodes \cup {"idle", "store", "send", "record", "resume",
                             "dispatch", "done", "dead"},
            case : {NoCase} \cup Cases,      \* state["case_id"]
            msg  : Messages,                 \* last send_to_client message
            file : Files \cup {"none"},      \* state["_inbound_media"]
            found : {NoCase} \cup Cases,     \* case the SELECT returned
            st   : Statuses,                 \* its status when loaded
            n    : Nat,                      \* its attachments when loaded
            on   : {NoCase} \cup Cases,      \* case of the tapped button
            act  : Actions \cup {"none"}]    \* action of the tapped button

NoRow   == [status |-> "none", atts |-> 0, wamid |-> FALSE, reminder |-> FALSE,
            escalated |-> FALSE, due |-> "none"]
IdleRun == [at |-> "idle", case |-> NoCase, msg |-> "none", file |-> "none",
            found |-> NoCase, st |-> "none", n |-> 0, on |-> NoCase,
            act |-> "none"]
IdleTick == [plan |-> [c \in Cases |-> "none"], n |-> [c \in Cases |-> 0]]

Init ==
  /\ created = 0
  /\ db = [c \in Cases |-> NoRow]
  /\ thread = [next |-> "end", case |-> NoCase, msg |-> "none", file |-> "none"]
  /\ run = [r \in Runs |-> IdleRun]
  /\ tick = [t \in Ticks |-> IdleTick]
  /\ open \in BOOLEAN
  /\ age = [c \in Cases |-> 0]
  /\ faults = 0
  /\ buttons = {}
  /\ seen = [c \in Cases |-> 0]
  /\ tapped = {}
  /\ told = {}
  /\ approvals = {}
  /\ refiled = {}
  /\ reminders = [c \in Cases |-> 0]
  /\ notices = [c \in Cases |-> 0]

-----------------------------------------------------------------------------
(* Helpers *)

\* A tick has rows locked from its UPDATE to its single COMMIT: everybody
\* else's write to the row waits.
Dirty(t)  == {c \in Cases : tick[t].plan[c] \in Done}
Locked(c) == \E t \in Ticks : c \in Dirty(t)
Busy(t)   == \E c \in Cases : tick[t].plan[c] # "none"

Resting == {"idle", "done", "dead"}
MayStart == Cardinality({r \in Runs : run[r].at \notin Resting})
              + Cardinality({t \in Ticks : Busy(t)}) < Overlap

\* Crash, exception or failed send: spends one of the MaxFaults faults.
Fault == faults < MaxFaults /\ faults' = faults + 1

\* SQLAlchemy writes a column only when the new value differs from the one
\* it loaded, whatever the row holds by then.
OrmSet(loaded, new, current) == IF loaded = new THEN current ELSE new

\* After a node of run r that left the run in state s: write the checkpoint
\* whose next node is `next`. (The thread keeps _inbound_media for ever; it is
\* kept here while a replay of "receive" can still read it.)
Checkpoint(r, s, next) ==
  /\ thread' = [next |-> next, case |-> s.case, msg |-> s.msg,
                file |-> IF next = "receive" THEN s.file ELSE "none"]
  /\ run' = [run EXCEPT ![r] =
               IF s.at = "done" THEN [IdleRun EXCEPT !.at = "done"]
               ELSE [s EXCEPT !.found = NoCase, !.st = "none", !.n = 0]]

\* interrupt(): a job returns; the webhook of a tap goes on to the client message.
Suspended(r) == IF r \in Jobs THEN "done" ELSE "dispatch"

-----------------------------------------------------------------------------
(* process_attachment: a new run from START on the client's thread *)

JobStart(j, f) ==
  /\ run[j].at = "idle" /\ MayStart
  /\ run' = [run EXCEPT ![j] = [IdleRun EXCEPT !.at = "receive",
               !.case = thread.case, !.msg = thread.msg, !.file = f]]
  /\ thread' = [thread EXCEPT !.next = "receive", !.file = f]
  /\ UNCHANGED <<dbVars, tick, clock, faults, cartera, client, alerts>>

(* node_receive_comprobante. The download comes before the `try`: a file *)
(* over the limit raises out of the node and ends the run.               *)
DownloadTooLarge(r) ==
  /\ run[r].at = "receive" /\ run[r].file = "huge"
  /\ run' = [run EXCEPT ![r] = [IdleRun EXCEPT !.at = "dead"]]
  /\ UNCHANGED <<dbVars, thread, tick, clock, faults, cartera, client, alerts>>

\* Download, then the SELECT of _get_or_create_case: the latest case of the
\* phone, unless it is terminal.
ReusableCase_NeverReused == NoCase
ReusableCase_AnyStatus   == created

ReusableCase ==
  IF created = 0 THEN NoCase
  ELSE IF db[created].status \in Terminal THEN NoCase ELSE created

FindCase(r) ==
  /\ run[r].at = "receive" /\ run[r].file # "huge"
  /\ LET c == ReusableCase
     IN  run' = [run EXCEPT ![r] = [@ EXCEPT !.at = "store", !.found = c,
                   !.st = IF c = NoCase THEN "none" ELSE db[c].status]]
  /\ UNCHANGED <<dbVars, thread, tick, clock, faults, cartera, client, alerts>>

\* The file passes the gates: INSERT the attachment, the case is `forwarded`.
StoreInNewCase(r) ==
  /\ run[r].at = "store" /\ run[r].file = "valid" /\ run[r].found = NoCase
  /\ created < MaxCases
  /\ LET c == created + 1
     IN  /\ created' = c
         /\ db' = [db EXCEPT ![c] = [@ EXCEPT !.status = "forwarded", !.atts = 1]]
         /\ Checkpoint(r, [run[r] EXCEPT !.at = "forward", !.case = c], "forward")
  /\ UNCHANGED <<tick, clock, faults, cartera, client, alerts>>

StoreInFoundCase(r) ==
  LET c == run[r].found IN
  /\ run[r].at = "store" /\ run[r].file = "valid" /\ c # NoCase
  /\ ~Locked(c)
  /\ db' = [db EXCEPT ![c] = [@ EXCEPT !.atts = db[c].atts + 1,
                               !.status = OrmSet(run[r].st, "forwarded", db[c].status)]]
  /\ Checkpoint(r, [run[r] EXCEPT !.at = "forward", !.case = c], "forward")
  /\ UNCHANGED <<created, tick, clock, faults, cartera, client, alerts>>

\* Magic-byte gate: rollback, the client is told; the edge to the forward node
\* is unconditional and state["case_id"] is whatever the thread held.
RejectFile(r) ==
  /\ run[r].at = "store" /\ run[r].file = "mismatch"
  /\ Checkpoint(r, [run[r] EXCEPT !.at = "forward"], "forward")
  /\ refiled' = refiled \cup {c \in Cases : c = run[r].case /\ db[c].status \in Terminal}
  /\ UNCHANGED <<dbVars, tick, clock, faults, cartera, told, approvals, alerts>>

(* node_forward_to_cartera *)

\* No case_id in the thread: the SELECT by uuid '' raises.
ForwardWithoutCase(r) ==
  /\ run[r].at = "forward" /\ run[r].case = NoCase
  /\ run' = [run EXCEPT ![r] = [IdleRun EXCEPT !.at = "dead"]]
  /\ UNCHANGED <<dbVars, thread, tick, clock, faults, cartera, client, alerts>>

\* Mutant: the deferred case gets no due time.
Defer_NoDue(r) ==
  LET c == run[r].case IN
  /\ run[r].at = "forward" /\ c # NoCase /\ ~open
  /\ ~Locked(c)
  /\ db' = [db EXCEPT ![c].status = "awaiting_cartera"]
  /\ Checkpoint(r, [run[r] EXCEPT !.at = Suspended(r)], "awaiting")
  /\ UNCHANGED <<created, tick, clock, faults, cartera, client, alerts>>

\* Outside business hours: acknowledge and leave the forward to the scheduler.
Defer(r) ==
  LET c == run[r].case IN
  /\ run[r].at = "forward" /\ c # NoCase /\ ~open
  /\ ~Locked(c)
  /\ db' = [db EXCEPT ![c] = [@ EXCEPT !.status = "awaiting_cartera",
                                       !.due = "future"]]
  /\ Checkpoint(r, [run[r] EXCEPT !.at = Suspended(r)], "awaiting")
  /\ UNCHANGED <<created, tick, clock, faults, cartera, client, alerts>>

\* list(case.attachments) on a row selected without selectinload.
AttachmentsRaise(r) ==
  /\ run[r].at = "forward" /\ run[r].case # NoCase /\ open
  /\ "raises" \in LazyLoad
  /\ run' = [run EXCEPT ![r] = [IdleRun EXCEPT !.at = "dead"]]
  /\ UNCHANGED <<dbVars, thread, tick, clock, faults, cartera, client, alerts>>

LoadCase(r) ==
  LET c == run[r].case IN
  /\ run[r].at = "forward" /\ c # NoCase /\ open /\ "rows" \in LazyLoad
  /\ run' = [run EXCEPT ![r] = [@ EXCEPT !.at = "send", !.st = db[c].status,
                                         !.n = db[c].atts]]
  /\ UNCHANGED <<dbVars, thread, tick, clock, faults, cartera, client, alerts>>

\* forward_case_to_cartera: every attachment, the buttons on the last one.
SendMedia(r) ==
  LET c == run[r].case IN
  /\ run[r].at = "send"
  /\ buttons' = buttons \cup {c}
  /\ seen' = [seen EXCEPT ![c] = run[r].n]
  /\ run' = [run EXCEPT ![r] = [@ EXCEPT !.at = "record"]]
  /\ UNCHANGED <<dbVars, thread, tick, clock, faults, tapped, client, alerts>>

RecordForward(r) ==
  LET c == run[r].case IN
  /\ run[r].at = "record"
  /\ ~Locked(c)
  /\ db' = [db EXCEPT ![c] = [@ EXCEPT
               !.status = OrmSet(run[r].st, "awaiting_cartera", db[c].status),
               !.wamid = TRUE, !.due = "future"]]
  /\ Checkpoint(r, [run[r] EXCEPT !.at = Suspended(r)], "awaiting")
  /\ UNCHANGED <<created, tick, clock, faults, cartera, client, alerts>>

\* Upload or send raises: note in Chatwoot, the case is escalated; the edge to
\* the awaiting node is unconditional.
SendMediaFails(r) ==
  LET c == run[r].case IN
  /\ run[r].at = "send"
  /\ ~Locked(c)
  /\ Fault
  /\ db' = [db EXCEPT ![c] = [@ EXCEPT
               !.status = OrmSet(run[r].st, "escalated", db[c].status), !.escalated = TRUE]]
  /\ Checkpoint(r, [run[r] EXCEPT !.at = Suspended(r)], "awaiting")
  /\ UNCHANGED <<created, tick, clock, cartera, client, alerts>>

-----------------------------------------------------------------------------
(* A tap of cartera: handle_cartera_message, resume_payment_interrupt *)

\* Mutant: the idempotency check on terminal cases is missing.
Tap_NoIdempotency(p, c, a) ==
  /\ run[p].at = "idle" /\ MayStart /\ c \in buttons
  /\ tapped' = tapped \cup {<<c, a>>}
  /\ run' = [run EXCEPT ![p] = [IdleRun EXCEPT !.at = "resume", !.on = c, !.act = a]]
  /\ UNCHANGED <<dbVars, thread, tick, clock, faults, buttons, seen, client, alerts>>

\* Every click is delivered once (webhook dedup); the status is read here and
\* the thread is resumed later.
Tap(p, c, a) ==
  /\ run[p].at = "idle" /\ MayStart /\ c \in buttons
  /\ tapped' = tapped \cup {<<c, a>>}
  /\ run' = [run EXCEPT ![p] =
               IF db[c].status \in Terminal THEN [IdleRun EXCEPT !.at = "done"]
               ELSE [IdleRun EXCEPT !.at = "resume", !.on = c, !.act = a]]
  /\ UNCHANGED <<dbVars, thread, tick, clock, faults, buttons, seen, client, alerts>>

\* Mutant: every action but "rechazar" approves.
NodeAfter_InfoApproves(action) ==
  IF action = "rechazar" THEN "escalate" ELSE "confirming"

\* The node that follows node_awaiting_cartera (_route_from_awaiting): "info"
\* carries no text from the webhook and suspends again.
NodeAfter(action) ==
  CASE action = "aprobar"  -> "confirming"
    [] action = "rechazar" -> "escalate"
    [] OTHER               -> "awaiting"

\* ainvoke(Command(resume=...)) reads the thread: the engine runs its pending
\* node, or nothing. Only a suspended thread (next = "awaiting") takes the
\* decision; anywhere else it is dropped.
Resume(p) ==
  /\ run[p].at = "resume"
  /\ run' = [run EXCEPT ![p] = [@ EXCEPT
               !.case = thread.case, !.msg = thread.msg, !.file = thread.file,
               !.act = IF thread.next = "awaiting" THEN run[p].act ELSE "none",
               !.at  = IF thread.next = "end" THEN "dispatch" ELSE thread.next]]
  /\ UNCHANGED <<dbVars, thread, tick, clock, faults, cartera, client, alerts>>

\* node_awaiting_cartera returns from interrupt() with the action of the tap.
Decide(p) ==
  LET node == NodeAfter(run[p].act) IN
  /\ run[p].at = "awaiting"
  /\ Checkpoint(p, [run[p] EXCEPT !.act = "none",
                      !.at = IF node = "awaiting" THEN "dispatch" ELSE node], node)
  /\ UNCHANGED <<dbVars, tick, clock, faults, cartera, client, alerts>>

\* node_confirming: unconditional UPDATE, confirmation text put in the thread.
Confirm(r) ==
  LET c == run[r].case IN
  /\ run[r].at = "confirming" /\ c # NoCase
  /\ ~Locked(c)
  /\ db' = [db EXCEPT ![c].status = "approved"]
  /\ approvals' = approvals \cup {c}
  /\ Checkpoint(r, [run[r] EXCEPT !.msg = "confirmed", !.at = "dispatch"], "end")
  /\ UNCHANGED <<created, tick, clock, faults, cartera, told, refiled, alerts>>

\* Mutant: the rejection carries the text of the confirmation.
EscalateCase_WrongText(r) ==
  LET c == run[r].case IN
  /\ run[r].at = "escalate" /\ c # NoCase
  /\ ~Locked(c)
  /\ db' = [db EXCEPT ![c] = [@ EXCEPT !.status = "escalated", !.escalated = TRUE]]
  /\ Checkpoint(r, [run[r] EXCEPT !.msg = "confirmed", !.at = "dispatch"], "end")
  /\ UNCHANGED <<created, tick, clock, faults, cartera, client, alerts>>

\* Mutant: the case is closed, a status the payment flow never writes.
EscalateCase_Closes(r) ==
  LET c == run[r].case IN
  /\ run[r].at = "escalate" /\ c # NoCase
  /\ ~Locked(c)
  /\ db' = [db EXCEPT ![c] = [@ EXCEPT !.status = "closed", !.escalated = TRUE]]
  /\ Checkpoint(r, [run[r] EXCEPT !.msg = "handed_over", !.at = "dispatch"], "end")
  /\ UNCHANGED <<created, tick, clock, faults, cartera, client, alerts>>

\* node_payment_escalate, once Chatwoot has answered.
EscalateCase(r) ==
  LET c == run[r].case IN
  /\ run[r].at = "escalate" /\ c # NoCase
  /\ ~Locked(c)
  /\ db' = [db EXCEPT ![c] = [@ EXCEPT !.status = "escalated", !.escalated = TRUE]]
  /\ Checkpoint(r, [run[r] EXCEPT !.msg = "handed_over", !.at = "dispatch"], "end")
  /\ UNCHANGED <<created, tick, clock, faults, cartera, client, alerts>>

\* _dispatch_client_message: the last send_to_client message of the thread,
\* whichever case it was written for.
Dispatch(p) ==
  /\ run[p].at = "dispatch"
  /\ told' = IF run[p].msg = "none" THEN told
             ELSE told \cup {<<run[p].on, run[p].msg>>}
  /\ run' = [run EXCEPT ![p] = [IdleRun EXCEPT !.at = "done"]]
  /\ UNCHANGED <<dbVars, thread, tick, clock, faults, cartera, approvals, refiled,
                 alerts>>

\* Any text from cartera: the buttons of the latest awaiting case are sent again.
ResendButtons ==
  /\ \E c \in Cases :
       /\ db[c].status = "awaiting_cartera"
       /\ \A d \in Cases : db[d].status = "awaiting_cartera" => d <= c
       /\ buttons' = buttons \cup {c}
  /\ UNCHANGED <<dbVars, thread, run, tick, clock, faults, seen, tapped, client,
                 alerts>>

\* An exception inside a node, or the end of the process that runs it. ARQ runs
\* a job again after a shutdown of the worker, and not after an exception.
Dies(r) ==
  /\ run[r].at \notin Resting
  /\ Fault
  /\ \E at \in IF r \in Jobs THEN {"dead", "idle"} ELSE {"dead"} :
       run' = [run EXCEPT ![r] = [IdleRun EXCEPT !.at = at]]
  /\ UNCHANGED <<dbVars, thread, tick, clock, cartera, client, alerts>>

-----------------------------------------------------------------------------
(* check_pending_cases: one session, one SELECT, one COMMIT at the end *)

Selected(c) == /\ db[c].status = "awaiting_cartera"
               /\ db[c].due = "past"
               /\ ~db[c].escalated

\* Mutant: the escalation does not ask for an earlier reminder.
PlanFor_NoReminderFirst(c) ==
  IF ~Selected(c) THEN "none"
  ELSE CASE age[c] = 2                                    -> "escalate"
         [] age[c] < 2 /\ ~db[c].wamid                    -> "forward"
         [] age[c] = 1 /\ db[c].wamid /\ ~db[c].reminder  -> "remind"
         [] OTHER                                         -> "none"

PlanFor(c) ==
  IF ~Selected(c) THEN "none"
  ELSE CASE ~db[c].wamid /\ ~db[c].reminder                -> "forward"
         [] ~db[c].reminder /\ db[c].wamid /\ age[c] >= 1  -> "remind"
         [] db[c].reminder /\ age[c] = 2                   -> "escalate"
         [] OTHER                                         -> "none"

\* (An execution that finds nothing to do changes nothing.)
TickSelect(t) ==
  /\ ~Busy(t) /\ open /\ MayStart
  /\ \E c \in Cases : PlanFor(c) # "none"
  /\ tick' = [tick EXCEPT ![t] = [plan |-> [c \in Cases |-> PlanFor(c)],
                                  n |-> [c \in Cases |-> db[c].atts]]]
  /\ UNCHANGED <<dbVars, thread, run, clock, faults, cartera, client, alerts>>

\* The row of c is handled: `done` says how; its UPDATE waits for other ticks'.
Handle(t, c, todo, done) ==
  /\ tick[t].plan[c] = todo /\ ~Locked(c)
  /\ tick' = [tick EXCEPT ![t].plan[c] = done]

TickForward(t, c) ==
  /\ Handle(t, c, "forward", "forwarded")
  /\ buttons' = buttons \cup {c}
  /\ seen' = [seen EXCEPT ![c] = tick[t].n[c]]
  /\ UNCHANGED <<dbVars, thread, run, clock, faults, tapped, client, alerts>>

TickForwardFails(t, c) ==
  /\ Handle(t, c, "forward", "forward_failed")
  /\ Fault
  /\ UNCHANGED <<dbVars, thread, run, clock, cartera, client, alerts>>

TickRemind(t, c) ==
  /\ Handle(t, c, "remind", "reminded")
  /\ buttons' = buttons \cup {c}
  /\ reminders' = [reminders EXCEPT ![c] = @ + 1]
  /\ UNCHANGED <<dbVars, thread, run, clock, faults, seen, tapped, client, notices>>

TickEscalate(t, c) ==
  /\ Handle(t, c, "escalate", "escalated")
  /\ notices' = [notices EXCEPT ![c] = @ + 1]
  /\ UNCHANGED <<dbVars, thread, run, clock, faults, cartera, client, reminders>>

\* Mutant: the reminder is not stamped.
Updated_NoStamp(row, did) ==
  IF did = "forwarded" THEN [row EXCEPT !.wamid = TRUE, !.due = "future"]
  ELSE IF did \in {"forward_failed", "escalated"}
       THEN [row EXCEPT !.status = "escalated", !.escalated = TRUE] ELSE row

\* What the UPDATEs of one row leave. The forward assigns the status the row was
\* loaded with, so its UPDATE does not mention the status.
Updated(row, did) ==
  CASE did = "forwarded"      -> [row EXCEPT !.wamid = TRUE, !.due = "future"]
    [] did = "forward_failed" -> [row EXCEPT !.status = "escalated", !.escalated = TRUE]
    [] did = "reminded"       -> [row EXCEPT !.reminder = TRUE]
    [] did = "escalated"      -> [row EXCEPT !.status = "escalated", !.escalated = TRUE]
    [] OTHER                  -> row

TickCommit(t) ==
  /\ Busy(t) /\ \A c \in Cases : tick[t].plan[c] \notin Todo
  /\ db' = [c \in Cases |-> Updated(db[c], tick[t].plan[c])]
  /\ tick' = [tick EXCEPT ![t] = IdleTick]
  /\ UNCHANGED <<created, thread, run, clock, faults, cartera, client, alerts>>

\* An exception in any row (Meta, Chatwoot, the database): everything the
\* execution wrote is rolled back, nothing it sent is.
TickAbort(t) ==
  /\ Busy(t) /\ Fault
  /\ tick' = [tick EXCEPT ![t] = IdleTick]
  /\ UNCHANGED <<dbVars, thread, run, clock, cartera, client, alerts>>

-----------------------------------------------------------------------------
(* Time *)

OpenOrClose ==
  /\ open' = ~open
  /\ UNCHANGED <<dbVars, thread, run, tick, age, faults, cartera, client, alerts>>

\* business_minutes_between(created_at, now) only grows in business time. (Time
\* matters to the cases the scheduler can select, and passes only for them.)
Elapse(c) ==
  /\ Ticks # {} /\ db[c].status = "awaiting_cartera" /\ open /\ age[c] < 2
  /\ age' = [age EXCEPT ![c] = @ + 1]
  /\ UNCHANGED <<dbVars, thread, run, tick, open, faults, cartera, client, alerts>>

BecomeDue(c) ==
  /\ Ticks # {} /\ db[c].status = "awaiting_cartera" /\ db[c].due = "future"
  /\ db' = [db EXCEPT ![c].due = "past"]
  /\ UNCHANGED <<created, thread, run, tick, clock, faults, cartera, client, alerts>>

Receive(r) == \/ DownloadTooLarge(r) \/ FindCase(r) \/ StoreInNewCase(r)
              \/ StoreInFoundCase(r) \/ RejectFile(r)
Forward(r) == \/ ForwardWithoutCase(r) \/ Defer(r) \/ LoadCase(r)
              \/ AttachmentsRaise(r)
              \/ SendMedia(r) \/ RecordForward(r) \/ SendMediaFails(r)
TapStep(p) == Resume(p) \/ Decide(p) \/ Confirm(p) \/ EscalateCase(p) \/ Dispatch(p)
TickRow(t, c) == TickForward(t, c) \/ TickRemind(t, c) \/ TickEscalate(t, c)

Next ==
  \/ \E j \in Jobs, f \in Files : JobStart(j, f)
  \/ \E r \in Runs : Receive(r) \/ Forward(r) \/ Dies(r)
  \/ \E p \in Taps : TapStep(p) \/ \E c \in Cases, a \in Actions : Tap(p, c, a)
  \/ ResendButtons
  \/ \E t \in Ticks : \/ TickSelect(t) \/ TickCommit(t) \/ TickAbort(t)
                      \/ \E c \in Cases : TickRow(t, c) \/ TickForwardFails(t, c)
  \/ OpenOrClose
  \/ \E c \in Cases : Elapse(c) \/ BecomeDue(c)

Spec == Init /\ [][Next]_vars

\* What the deployment guarantees: a started job or webhook goes on; the cron
\* fires every minute, so it fires in business time too; time passes; business
\* time comes and goes. Nothing obliges the client to write, cartera to tap or
\* anything to fail.
Fairness ==
  /\ WF_vars(OpenOrClose)
  /\ \A r \in Runs : WF_vars(Receive(r) \/ Forward(r))
  /\ \A p \in Taps : WF_vars(TapStep(p))
  /\ \A t \in Ticks : /\ SF_vars(TickSelect(t)) /\ WF_vars(TickCommit(t))
                      /\ WF_vars(\E c \in Cases : TickRow(t, c))
  /\ \A c \in Cases : SF_vars(Elapse(c)) /\ WF_vars(BecomeDue(c))

FairSpec == Spec /\ Fairness

-----------------------------------------------------------------------------
(* Properties *)

\* Every variable has its type; the statuses are those of ck_cases_status that
\* the payment flow writes.
TypeOK ==
  /\ created \in 0 .. MaxCases
  /\ db \in [Cases -> CaseRow]
  /\ thread \in Thread
  /\ run \in [Runs -> Run]
  /\ tick \in [Ticks -> [plan : [Cases -> {"none"} \cup Todo \cup Done],
                         n : [Cases -> Nat]]]
  /\ open \in BOOLEAN /\ age \in [Cases -> 0 .. 2] /\ faults \in Nat
  /\ buttons \subseteq {NoCase} \cup Cases
  /\ seen \in [Cases -> Nat]
  /\ tapped \subseteq ({NoCase} \cup Cases) \X Actions
  /\ told \subseteq ({NoCase} \cup Cases) \X Messages
  /\ approvals \subseteq Cases /\ refiled \subseteq Cases
  /\ reminders \in [Cases -> Nat] /\ notices \in [Cases -> Nat]

\* Cartera's thumb is the only source of approvals (D-28): no run of any job,
\* replay of the thread or tick approves a case, or leads the client to be told
\* that a payment is confirmed, before cartera tapped "aprobar" on some case.
Approved == \E c \in {NoCase} \cup Cases : <<c, "aprobar">> \in tapped
NoApprovalWithoutTap ==
  (approvals # {} \/ \E n \in told : n[2] = "confirmed") => Approved

\* node_confirming writes the case before it puts the confirmation in the thread
\* that _dispatch_client_message sends from: a client is told "confirmed" only
\* when one of the client's cases was recorded as approved.
ConfirmationFollowsApproval ==
  (\E n \in told : n[2] = "confirmed") => approvals # {}

\* When runs do not overlap, a tap decides the case it names: a case is approved
\* only by a tap on its own button, though the resumed thread is the phone's.
TapDecidesItsCase == \A c \in approvals : <<c, "aprobar">> \in tapped

\* D-28 for each case: who taps on a case has the client told that the payment
\* is confirmed only if the tap on that case was "aprobar".
NoFalseConfirmation ==
  \A c \in Cases : <<c, "confirmed">> \in told => <<c, "aprobar">> \in tapped

\* D-07, D-09: comprobantes gather in the client's open case; there are never two.
OneOpenCase ==
  Cardinality({c \in 1 .. created : db[c].status \notin Terminal}) <= 1

\* What the client was told after a tap on a case is the decision on record for
\* that case, unless the thread still held the text of an earlier case that
\* cartera had decided, or a file the gates reject was forwarded for the case
\* after its decision (the edge out of node_receive_comprobante asks nothing).
DecidedBefore(c) ==
  \E d \in 1 .. c - 1, a \in {"aprobar", "rechazar"} : <<d, a>> \in tapped
Consistent ==
  \A c \in Cases : \/ DecidedBefore(c) \/ c \in refiled
                   \/ /\ <<c, "confirmed">> \in told => db[c].status = "approved"
                      /\ <<c, "handed_over">> \in told => db[c].status = "escalated"

\* D-09: a decided case is not reopened, a later comprobante opens a new one;
\* only a rejected file, forwarded for the decided case, takes a decision back.
TerminalIsFinal ==
  [][\A c \in Cases \ refiled :
       db[c].status \in Terminal => db'[c].status = db[c].status]_vars

\* D-11, D-12: cartera is reminded, and the client told that the review is late,
\* once for each case. The stamps are written after the messages they stand for:
\* each message over the first takes an execution beside the one that sent it, or
\* a fault that rolled its stamp back.
RepeatsHaveACause ==
  \A c \in Cases : reminders[c] <= Overlap + faults /\ notices[c] <= Overlap + faults

\* D-12 after D-11: whatever the executions that overlap read and however often
\* one is rolled back, the client hears of an escalation only once the reminder
\* to cartera is on record.
EscalationAfterReminder ==
  \A c \in Cases : notices[c] > 0 => db[c].reminder /\ reminders[c] > 0

\* The SLA: a case that awaits cartera and was never escalated is decided or
\* escalated, or goes back to be forwarded with a new comprobante, whatever
\* cartera does and whichever execution is rolled back. (A case that is set back
\* to awaiting_cartera after an escalation is the scheduler's no more.)
AwaitsCartera(c) == db[c].status = "awaiting_cartera" /\ ~db[c].escalated
AwaitingIsLeft == \A c \in Cases : AwaitsCartera(c) ~> ~AwaitsCartera(c)
=============================================================================
