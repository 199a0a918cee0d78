---------------------------- MODULE Conversation ----------------------------
(***************************************************************************)
(* A client's texts, each answered by a turn of the Q&A graph that runs in *)
(* a task of its own: the webhook looks at the mute and resets the thread, *)
(* the task takes the Redis lock of the conversation, runs the graph, sends *)
(* the reply, and after an escalation mutes the bot and alerts the team.   *)
(* The lock is best effort: it expires after 30 s, a task waits 25 s at    *)
(* most, and the holder deletes it without looking whose it is.            *)
(***************************************************************************)
EXTENDS QAGraph

VARIABLES
  lock,      \* conv:lock, SET NX EX 30
  muted,     \* bot:muted, of an escalation
  alerted,   \* alert:escalation, SET NX EX 1800: "none", or whether the message
             \*   it stands for was "sent" or "failed"
  late,      \* a task ran for 30 s, or without the lock after waiting 25 s
  released,  \* the last mute ended: the agent resolved, or its time passed
  untold     \* the last escalation was not alerted, nor any in the 30 minutes before

keys   == <<lock, muted, alerted>>
ghosts == <<late, released, untold>>
vars   == <<thread, turn, faults, keys, ghosts>>

Init ==
  /\ thread = Fresh /\ turn = [h \in Turns |-> IdleTurn] /\ faults = 0
  /\ lock = FALSE /\ muted = FALSE /\ alerted = "none"
  /\ late = FALSE /\ released = FALSE /\ untold = FALSE

Goto(h, place) == turn' = [turn EXCEPT ![h].at = place]
AllIdle == \A h \in Turns : In(h, "idle")

-----------------------------------------------------------------------------
(* The webhook: webhooks/meta.py *)

\* A tap on a template's button does not look at the mute. A muted text is only
\* mirrored to Chatwoot.
Admit(h, text) ==
  /\ In(h, "idle")
  /\ ~muted \/ text = "tap"
  /\ turn' = [g \in Turns |->
                IF g = h THEN [IdleTurn EXCEPT !.at = "admitted", !.text = text,
                                               !.clean = AllIdle]
                ELSE [turn[g] EXCEPT !.clean = FALSE]]
  /\ UNCHANGED <<thread, faults, keys, ghosts>>

\* Mutant: only a closed conversation starts over.
Ended_ClosedOnly(th) == th.node = "closed"
Ended(th)            == th.node = "escalating"     \* no node decides "closed"

ResetIsDue(h) == Text(h) = "reset" \/ Ended(thread)

\* _force_reset, _reset_if_closed: they delete the thread outside the lock. When the
\* checkpointer fails, the text goes on over the thread as it is.
Prepare(h) ==
  /\ In(h, "admitted")
  /\ \/ /\ thread' = IF ResetIsDue(h) THEN Fresh ELSE thread
        /\ Goto(h, "lock")
        /\ UNCHANGED faults
     \/ /\ ResetIsDue(h) /\ Fault
        /\ turn' = [turn EXCEPT ![h].at = "lock", ![h].clean = FALSE]
        /\ UNCHANGED thread
  /\ UNCHANGED <<keys, ghosts>>

-----------------------------------------------------------------------------
(* conversation_lock *)

\* Mutant: SET without NX.
LockIsFree_NoNX == TRUE
LockIsFree      == ~lock

Acquire(h) ==
  /\ In(h, "lock") /\ LockIsFree
  /\ lock' = TRUE
  /\ Enter(h, TRUE)
  /\ UNCHANGED <<thread, faults, muted, alerted, ghosts>>

\* 25 s of polling: the text is answered without the lock.
GiveUp(h) ==
  /\ In(h, "lock") /\ lock
  /\ late' = TRUE
  /\ Enter(h, FALSE)
  /\ UNCHANGED <<thread, faults, keys, released, untold>>

\* Redis is down: fail open.
AcquireFails(h) ==
  /\ In(h, "lock") /\ Fault
  /\ late' = TRUE
  /\ Enter(h, FALSE)
  /\ UNCHANGED <<thread, keys, released, untold>>

\* The TTL, under a slow holder or after one that died.
LockExpires ==
  /\ lock
  /\ lock' = FALSE
  /\ late' = (late \/ \E h \in Turns : turn[h].held)
  /\ UNCHANGED <<thread, turn, faults, muted, alerted, released, untold>>

\* `acquired`: whoever's lock it is by now.
Release(h) ==
  /\ In(h, "release")
  /\ lock' = (lock /\ ~turn[h].held)
  /\ turn' = [turn EXCEPT ![h] = IdleTurn]
  /\ UNCHANGED <<thread, faults, muted, alerted, ghosts>>

-----------------------------------------------------------------------------
(* _run_and_dispatch *)

RunNode(h) == Node(h) /\ UNCHANGED <<keys, ghosts>>

\* Mutant: only a closed conversation is dispatched to the team.
Escalated_Closed(h) == Th(h).node = "closed"
Escalated(h)        == Th(h).node = "escalating"

\* A send that fails is only logged.
Send(h) ==
  /\ In(h, "send")
  /\ UNCHANGED faults \/ Fault
  /\ turn' = [turn EXCEPT ![h].at = IF Escalated(h) THEN "mute" ELSE "release", ![h].th = Fresh]
  /\ untold' = (untold \/ Escalated(h))
  /\ UNCHANGED <<thread, keys, late, released>>

\* _graph_failure_fallback is one try: without the apology, no mute and no alert.
Fallback(h) ==
  /\ In(h, "fallback")
  /\ untold' = TRUE
  /\ \/ Goto(h, "mute") /\ UNCHANGED faults
     \/ Goto(h, "release") /\ Fault
  /\ UNCHANGED <<thread, keys, late, released>>

Mute(h) ==
  /\ In(h, "mute")
  /\ muted' = TRUE /\ released' = FALSE
  /\ Goto(h, "alert")
  /\ UNCHANGED <<thread, faults, lock, alerted, late, untold>>

\* Mutant: the dedup key is looked at the wrong way round.
Deduped_Inverted == alerted = "none"
Deduped          == alerted # "none"

\* notify_team_escalation: the key is set before the message is sent.
Alert(h) ==
  /\ In(h, "alert")
  /\ \/ /\ Deduped
        /\ untold' = (alerted # "sent")
        /\ UNCHANGED <<alerted, faults>>
     \/ /\ ~Deduped
        /\ alerted' = "sent" /\ untold' = FALSE
        /\ UNCHANGED faults
     \/ /\ ~Deduped /\ Fault
        /\ alerted' = "failed"
        /\ UNCHANGED untold
  /\ Goto(h, "release")
  /\ UNCHANGED <<thread, lock, muted, late, released>>

-----------------------------------------------------------------------------
(* Time, agents and crashes *)

\* Of the mute: 30 minutes, or the agent resolves the conversation.
Unmute ==
  /\ muted
  /\ muted' = FALSE /\ released' = TRUE
  /\ UNCHANGED <<thread, turn, faults, lock, alerted, late, untold>>

AlertExpires ==
  /\ alerted # "none"
  /\ alerted' = "none"
  /\ UNCHANGED <<thread, turn, faults, lock, muted, ghosts>>

\* The tasks live in the process: their texts were acknowledged and are gone.
Crash ==
  /\ ~AllIdle /\ Fault
  /\ turn' = [h \in Turns |-> IdleTurn]
  /\ UNCHANGED <<thread, keys, ghosts>>

-----------------------------------------------------------------------------
Task(h) ==
  \/ Prepare(h) \/ Acquire(h) \/ GiveUp(h) \/ AcquireFails(h) \/ RunNode(h)
  \/ Send(h) \/ Fallback(h) \/ Mute(h) \/ Alert(h) \/ Release(h)

Next ==
  \/ \E h \in Turns : Task(h) \/ \E text \in Texts : Admit(h, text)
  \/ LockExpires \/ Unmute \/ AlertExpires \/ Crash

Spec == Init /\ [][Next]_vars

\* The event loop resumes every task.
FairSpec == Spec /\ \A h \in Turns : WF_vars(Task(h))

-----------------------------------------------------------------------------
(* Properties *)

\* Types; and no counter of retries passes 1.
TypeOK ==
  /\ thread \in Thread
  /\ turn \in [Turns -> Turn]
  /\ faults \in 0 .. MaxFaults
  /\ lock \in BOOLEAN /\ muted \in BOOLEAN /\ alerted \in {"none", "sent", "failed"}
  /\ late \in BOOLEAN /\ released \in BOOLEAN /\ untold \in BOOLEAN

PastLock == Nodes \cup {"send", "fallback", "mute", "alert", "release"}
Working(h) == turn[h].at \in PastLock

\* Two turns never work on the client's thread at once, unless one took 30 s,
\* another had waited its 25 s or Redis failed (conv_lock.py: two turns race on
\* the Postgres checkpoint and the bot looks stuck).
TurnsDontCollide == \A g, h \in Turns : Working(g) /\ Working(h) => g = h \/ late

\* A policy the bot talks about was found under the document the conversation
\* stands on, and is in force unless it is the one the voice called about.
AnswersIdentified ==
  thread.poliza # None =>
    /\ thread.doc \in Documents
    /\ thread.poliza \in PoliciesOf[thread.doc]
    /\ thread.poliza \in Vigentes \cup {thread.number}

\* Once a turn has handed the client over and everything is quiet, the bot is
\* mute until an agent resolves or the grace passes.
EscalatedIsMuted ==
  AllIdle /\ faults = 0 /\ thread.node = "escalating" => muted \/ released

\* At rest the team knows of the last escalation, or of one less than 30 minutes
\* before: the dedup throttles the alerts and swallows none.
TeamIsTold == AllIdle /\ faults = 0 => ~untold

\* A client who was handed over starts over: no turn goes on where the escalated
\* conversation stopped, unless another turn was in flight beside it or its own
\* reset failed (meta.py:502: the exception is logged, and the text goes on).
StartsOver ==
  [][\A h \in Turns : In(h, "lock") /\ Working(h)' /\ turn[h].clean
       => thread.node # "escalating"]_vars

\* Every text is dealt with to the end: no turn waits for ever on the lock, loops
\* between the LLM and the judge, or stays without a reply or a fallback.
TurnsEnd == \A h \in Turns : []<>In(h, "idle")
=============================================================================
