---------------------------- MODULE ReplyWindow ----------------------------
(***************************************************************************)
(* What an agent writes to a client from Chatwoot, and the 24-hour window  *)
(* of WhatsApp: the relay sends the message or, when the client has been   *)
(* quiet too long, keeps it in a Redis list and sends one template; the    *)
(* client's next message opens the window and has the list delivered; a    *)
(* rejection that Meta reports later puts the message back in the list.    *)
(* The same handlers mute and unmute the bot.                              *)
(*                                                                         *)
(* The three kinds of webhook share one client's Redis keys and take no    *)
(* lock, so an action is one Redis command or one call to Meta. One client *)
(* (keys are per phone); the agent's messages are numbered as written.     *)
(***************************************************************************)
EXTENDS Integers, SequencesExt

CONSTANTS
  MaxMsgs,    \* bound: messages the agent writes
  Albums,     \* those with two attachments: two messages for WhatsApp
  Kinds,      \* what the client sends: "text" (a text or a list or button reply),
              \*   "tap" (a button of another template), "other" (a comprobante,
              \*   the tap on "Ver respuesta", what the rate limit stops)
  Hooks,      \* bound: webhook requests under way at once
  Slips,      \* bound: whether anything may take longer than the margin of 30 min
  MaxFaults   \* bound: refused calls, rejected messages, ends of a process

ASSUME BoundsAssumption == MaxMsgs \in Nat /\ MaxFaults \in Nat /\ Slips \in BOOLEAN
ASSUME KindsAssumption  == Kinds \subseteq {"text", "tap", "other"}
ASSUME AlbumsAssumption == Albums \subseteq 1 .. MaxMsgs

Msgs     == 1 .. MaxMsgs
Template == <<0, 1>>                              \* the wamid of the template
Parts(m) == IF m \in Albums THEN 2 ELSE 1
Wamids   == {x \in Msgs \X {1, 2} : x[2] <= Parts(x[1])}

VARIABLES
  written,   \* how many messages the agent has written
  hook,      \* the webhook requests, each with the task it may leave behind
  pending,   \* wa:pending: the messages kept, oldest first
  flag,      \* wa:reengage: SET NX, 24 h
  out,       \* wa:out: wamids whose message is remembered
  record,    \* wa:last_in: age of the last message recorded from the client:
             \*   0 = under 23:30 h, 1 = under 24 h, 2 = more, or no record
  mute,      \* bot:muted; "expired" is "escalated" after the 30 minutes
  quiet,     \* Meta's own clock, in the classes of `record`
  mail,      \* messages of the client that Meta has still to deliver to us
  arrived,   \* what reached the client's phone, in order
  failing,   \* failed statuses Meta delivers, any number of times
  noted,     \* messages whose agent was told that they may not have arrived
  invited,   \* the client has a template to tap, sent since the last delivery
  takeover,  \* a human answered while no message of the client was on its way to
             \*   the bot; since then nobody resolved, the client tapped no button of
             \*   another template, and 24 h have not passed
  lost,      \* messages put in the list between another request's LRANGE and its
             \*   DELETE: deleted, and read by nobody
  resolved,  \* requests that had delivered, and were about to look at the mute,
             \*   when the agent resolved
  late,      \* something took longer than the 30 minutes of margin
  gone,      \* a process ended halfway, or the list was not claimed in 7 days
  faults     \* faults spent so far

redis  == <<pending, flag, out, record, mute>>
phone  == <<quiet, mail, arrived, failing>>
ghosts == <<noted, invited, takeover, lost, resolved, late, gone>>
vars   == <<written, hook, redis, phone, ghosts, faults>>

IdleHook == [at |-> "idle", kind |-> "none", msg |-> 0, part |-> 1,
             batch |-> <<>>, sent |-> FALSE, why |-> "none"]

Init ==
  /\ written = 0 /\ hook = [h \in Hooks |-> IdleHook]
  /\ pending = <<>> /\ flag = FALSE /\ out = {} /\ record = 2 /\ mute = "none"
  /\ quiet = 2 /\ mail = 0 /\ arrived = <<>> /\ failing = {}
  /\ noted = {} /\ invited = FALSE /\ takeover = FALSE /\ lost = {} /\ resolved = {}
  /\ late = FALSE /\ gone = FALSE
  /\ faults = 0

-----------------------------------------------------------------------------
(* Helpers *)

AllIdle == \A h \in Hooks : hook[h].at = "idle"
Fault   == faults < MaxFaults /\ faults' = faults + 1

Starts(h, request) ==
  /\ hook[h].at = "idle"
  /\ hook' = [hook EXCEPT ![h] = request]

At(h, kind, place) == hook[h].kind = kind /\ hook[h].at = place
Goto(h, place) ==
  hook' = [hook EXCEPT ![h] = IF place = "idle" THEN IdleHook ELSE [@ EXCEPT !.at = place]]

-----------------------------------------------------------------------------
(* The agent's message: webhooks/chatwoot.py, relay_or_queue *)

\* A message passes the filters and the dedup (SET NX, before any processing:
\* a redelivery changes nothing).
Relay(h) ==
  /\ written < MaxMsgs
  /\ written' = written + 1
  /\ Starts(h, [IdleHook EXCEPT !.kind = "agent", !.at = "check", !.msg = written + 1])
  /\ UNCHANGED <<redis, phone, ghosts, faults>>

\* Mutant: no margin before the 24 hours.
WindowOpen_NoMargin(age) == age < 2
WindowOpen(age)          == age = 0

Check(h) ==
  /\ At(h, "agent", "check")
  /\ Goto(h, IF WindowOpen(record) THEN "send" ELSE "queue")
  /\ UNCHANGED <<written, redis, phone, ghosts, faults>>

\* One call to Meta: accepted, and then delivered, or rejected by a status.
Accepted(x, sender) ==
  \/ /\ quiet < 2
     /\ arrived' = Append(arrived, x)
     /\ UNCHANGED <<failing, faults>>
  \/ /\ quiet = 2
     /\ failing' = failing \cup {[id |-> x, why |-> "window", sender |-> sender]}
     /\ UNCHANGED <<arrived, faults>>
  \/ /\ Fault
     /\ failing' = failing \cup {[id |-> x, why |-> "other", sender |-> sender]}
     /\ UNCHANGED arrived

NextPart(h) == hook' = [hook EXCEPT ![h].part = @ + 1]

\* The text, or each attachment in turn.
Send(h) ==
  LET m == hook[h].msg IN
  /\ At(h, "agent", "send")
  /\ Accepted(<<m, hook[h].part>>, "agent")
  /\ IF hook[h].part < Parts(m) THEN NextPart(h) ELSE Goto(h, "remember")
  /\ UNCHANGED <<written, redis, quiet, mail, ghosts>>

\* wa:out of every wamid, once all were sent; then the human owns the chat.
Remember(h) ==
  /\ At(h, "agent", "remember")
  /\ out' = out \cup {x \in Wamids : x[1] = hook[h].msg}
  /\ Goto(h, "human")
  /\ UNCHANGED <<written, pending, flag, record, mute, phone, ghosts, faults>>

\* An exception in relay_or_queue: private note, no retry, no mute. A call that
\* timed out may have been accepted.
RelayFails(h) ==
  /\ hook[h].kind = "agent" /\ hook[h].at \in {"send", "queue", "flag"}
  /\ Fault
  /\ \/ UNCHANGED arrived
     \/ /\ hook[h].at = "send" /\ quiet < 2
        /\ arrived' = Append(arrived, <<hook[h].msg, hook[h].part>>)
  /\ noted' = noted \cup {hook[h].msg}
  /\ Goto(h, "idle")
  /\ UNCHANGED <<written, redis, quiet, mail, failing, invited, takeover, lost,
                 resolved, late, gone>>

\* Mutant: LPUSH.
Pushed_InFront(list, m) == <<m>> \o list
Pushed(list, m)         == Append(list, m)

\* _queue, of the relay or of a rejected message.
Queue(h) ==
  /\ hook[h].at = "queue"
  /\ pending' = Pushed(pending, hook[h].msg)
  /\ Goto(h, "flag")
  /\ UNCHANGED <<written, flag, out, record, mute, phone, ghosts, faults>>

\* _reengage: once done, the relay goes on to the mute, the status is over.
AfterReengage(h) == IF hook[h].kind = "agent" THEN "human" ELSE "idle"

TakeFlag(h) ==
  /\ hook[h].at = "flag"
  /\ flag' = TRUE
  /\ Goto(h, IF flag THEN AfterReengage(h) ELSE "template")
  /\ UNCHANGED <<written, pending, out, record, mute, phone, ghosts, faults>>

SendTemplate(h) ==
  /\ hook[h].at = "template"
  /\ out' = out \cup {Template} /\ invited' = TRUE
  /\ Goto(h, AfterReengage(h))
  /\ UNCHANGED <<written, pending, flag, record, mute, phone, noted, takeover,
                 lost, resolved, late, gone, faults>>

\* Refused: the flag is deleted, the note says so.
TemplateFails(h) ==
  /\ hook[h].at = "template"
  /\ Fault
  /\ flag' = FALSE
  /\ Goto(h, AfterReengage(h))
  /\ UNCHANGED <<written, pending, out, record, mute, phone, ghosts>>

\* Accepted, and rejected later (no WhatsApp, opt-out, cap on templates).
TemplateRejected ==
  /\ invited /\ Template \in out
  /\ Fault
  /\ failing' = failing \cup {[id |-> Template, why |-> "other", sender |-> "agent"]}
  /\ invited' = FALSE
  /\ UNCHANGED <<written, hook, redis, quiet, mail, arrived, noted, takeover,
                 lost, resolved, late, gone>>

-----------------------------------------------------------------------------
(* The client's message: webhooks/meta.py, flush_pending *)

ClientWrites ==
  /\ mail = 0
  /\ mail' = 1 /\ quiet' = 0
  /\ UNCHANGED <<written, hook, redis, arrived, failing, ghosts, faults>>

\* Deduplicated as the agent's; then record_inbound.
Inbound(h) ==
  /\ mail > 0
  /\ mail' = mail - 1 /\ record' = 0
  /\ Starts(h, [IdleHook EXCEPT !.kind = "client", !.at = "range"])
  /\ resolved' = resolved \ {h}
  /\ UNCHANGED <<written, pending, flag, out, mute, quiet, arrived, failing,
                 noted, invited, takeover, lost, late, gone, faults>>

\* Mutant: nothing is read unless a template is out.
ReadList_IfInvited(h) ==
  /\ At(h, "client", "range")
  /\ hook' = [hook EXCEPT ![h] = [@ EXCEPT !.batch = IF flag THEN pending ELSE <<>>,
                !.at = IF pending = <<>> \/ ~flag THEN "muted" ELSE "delete"]]
  /\ UNCHANGED <<written, redis, phone, ghosts, faults>>

\* LRANGE; an empty list ends flush_pending before it deletes anything.
ReadList(h) ==
  /\ At(h, "client", "range")
  /\ hook' = [hook EXCEPT ![h] = [@ EXCEPT !.batch = pending,
                !.at = IF pending = <<>> THEN "muted" ELSE "delete"]]
  /\ UNCHANGED <<written, redis, phone, ghosts, faults>>

\* DELETE of the whole key, with what was put in it since it was read.
DeleteList(h) ==
  /\ At(h, "client", "delete")
  /\ pending' = <<>>
  /\ lost' = lost \cup (ToSet(pending) \ ToSet(hook[h].batch))
  /\ Goto(h, "deliver")
  /\ UNCHANGED <<written, flag, out, record, mute, phone, noted, invited, takeover,
                 resolved, late, gone, faults>>

\* send_item: like the relay's, and the wamids are not remembered.
Deliver(h) ==
  LET m    == Head(hook[h].batch)
      last == hook[h].part = Parts(m)
  IN  /\ At(h, "client", "deliver")
      /\ Accepted(<<m, hook[h].part>>, "client")
      /\ IF ~last THEN NextPart(h)
         ELSE hook' = [hook EXCEPT ![h] = [@ EXCEPT !.part = 1, !.sent = TRUE,
                !.batch = Tail(hook[h].batch),
                !.at = IF Len(hook[h].batch) = 1 THEN "unflag" ELSE "deliver"]]
      /\ UNCHANGED <<written, redis, quiet, mail, ghosts>>

\* Mutant: the message that failed is not kept.
PutBack_Rest(list, batch) == list \o Tail(batch)
PutBack(list, batch)      == list \o batch

\* An exception in send_item: it and the rest go back to the (end of the) list.
DeliverFails(h) ==
  /\ At(h, "client", "deliver")
  /\ Fault
  /\ pending' = PutBack(pending, hook[h].batch)
  /\ \/ UNCHANGED arrived
     \/ /\ quiet < 2
        /\ arrived' = Append(arrived, <<Head(hook[h].batch), hook[h].part>>)
  /\ hook' = [hook EXCEPT ![h] = [@ EXCEPT !.batch = <<>>, !.part = 1, !.at = "unflag"]]
  /\ UNCHANGED <<written, flag, out, record, mute, quiet, mail, failing, ghosts>>

\* Mutants: the flag outlives the delivery; the bot is not muted by it.
FlagAfter_Kept == flag
FlagAfter      == FALSE
AfterFlush_NoMute(sent) == "muted"
AfterFlush(sent)        == IF sent THEN "human" ELSE "muted"

Unflag(h) ==
  /\ At(h, "client", "unflag")
  /\ flag' = FlagAfter /\ invited' = FALSE
  /\ Goto(h, AfterFlush(hook[h].sent))
  /\ UNCHANGED <<written, pending, out, record, mute, phone, noted, takeover,
                 lost, resolved, late, gone, faults>>

\* Requests whose message the bot has, or is about to have, past the mute.
GoesToBot(place) == place \in {"clear", "bot", "tapped"}

\* set_human, of the relay or of a flush that delivered something.
SetHuman(h) ==
  /\ hook[h].at = "human"
  /\ mute' = "human"
  /\ takeover' = (takeover \/ \A g \in Hooks : ~GoesToBot(hook[g].at))
  /\ Goto(h, IF hook[h].kind = "client" THEN "muted" ELSE "idle")
  /\ UNCHANGED <<written, pending, flag, out, record, phone, noted, invited,
                 lost, resolved, late, gone, faults>>

\* is_muted: GET, and the DELETE of a mute whose grace was over when it was read.
IsMuted(h) ==
  /\ At(h, "client", "muted") /\ "text" \in Kinds
  /\ \/ mute = "none" /\ Goto(h, "bot")
     \/ mute = "expired" /\ Goto(h, "clear")
     \/ mute \in {"escalated", "human"} /\ Goto(h, "idle")
  /\ UNCHANGED <<written, redis, phone, ghosts, faults>>

ClearExpired(h) ==
  /\ At(h, "client", "clear")
  /\ mute' = "none"
  /\ Goto(h, "bot")
  /\ UNCHANGED <<written, pending, flag, out, record, phone, ghosts, faults>>

\* A tap on a template's button goes to the graph as a text, past is_muted.
TakeTap(h) ==
  /\ At(h, "client", "muted") /\ "tap" \in Kinds
  /\ Goto(h, "tapped") /\ takeover' = FALSE
  /\ UNCHANGED <<written, redis, phone, noted, invited, lost, resolved, late, gone,
                 faults>>

NotForTheBot(h) ==
  /\ At(h, "client", "muted") /\ "other" \in Kinds
  /\ Goto(h, "idle")
  /\ UNCHANGED <<written, redis, phone, ghosts, faults>>

\* The graph runs in a task of its own: it answers, or escalates (or crashes,
\* and the fallback escalates): set_escalated.
BotAnswers(h) ==
  /\ hook[h].at \in {"bot", "tapped"}
  /\ Goto(h, "idle")
  /\ UNCHANGED <<written, redis, phone, ghosts, faults>>

BotEscalates(h) ==
  /\ hook[h].at \in {"bot", "tapped"}
  /\ mute' = "escalated"
  /\ Goto(h, "idle")
  /\ UNCHANGED <<written, pending, flag, out, record, phone, ghosts, faults>>

-----------------------------------------------------------------------------
(* A failed status: on_failed_status *)

\* (The status of a wamid that is not remembered changes nothing.)
Status(h, f) ==
  /\ f \in failing /\ f.id \in out
  /\ Starts(h, [IdleHook EXCEPT !.kind = "status", !.at = "lookup",
                  !.msg = f.id[1], !.part = f.id[2], !.why = f.why])
  /\ UNCHANGED <<written, redis, phone, ghosts, faults>>

Wamid(h) == <<hook[h].msg, hook[h].part>>

\* GET: what is not remembered (any more) is taken for a message of the bot.
Lookup(h) ==
  /\ At(h, "status", "lookup")
  /\ Goto(h, IF Wamid(h) \in out THEN "forget" ELSE "idle")
  /\ UNCHANGED <<written, redis, phone, ghosts, faults>>

\* Mutant: the record outlives the status.
Forgotten_Kept(x) == out
Forgotten(x)      == out \ {x}

\* A message rejected for the window is kept; for anything else, a note.
WhatFailed(h) ==
  \/ hook[h].why = "window" /\ Goto(h, "queue") /\ UNCHANGED noted
  \/ hook[h].why # "window" /\ Goto(h, "idle") /\ noted' = noted \cup {hook[h].msg}

\* Mutant: the template's status is treated as a message's.
Forget_AnyKind(h) ==
  /\ At(h, "status", "forget")
  /\ out' = Forgotten(Wamid(h))
  /\ WhatFailed(h)
  /\ UNCHANGED <<written, pending, flag, record, mute, phone, invited, takeover,
                 lost, resolved, late, gone, faults>>

\* DELETE (its result is not looked at), then by kind: the template's flag, the
\* list, or a note to the agent.
Forget(h) ==
  /\ At(h, "status", "forget")
  /\ out' = Forgotten(Wamid(h))
  /\ \/ Wamid(h) = Template /\ Goto(h, "unflag") /\ UNCHANGED noted
     \/ Wamid(h) # Template /\ WhatFailed(h)
  /\ UNCHANGED <<written, pending, flag, record, mute, phone, invited, takeover,
                 lost, resolved, late, gone, faults>>

UnflagRejected(h) ==
  /\ At(h, "status", "unflag")
  /\ flag' = FALSE
  /\ Goto(h, "idle")
  /\ UNCHANGED <<written, pending, out, record, mute, phone, ghosts, faults>>

-----------------------------------------------------------------------------
(* The agent resolves the conversation; time; the end of a process *)

Resolve ==
  /\ mute # "none"
  /\ mute' = "none" /\ takeover' = FALSE
  /\ resolved' = {h \in Hooks : hook[h].at = "muted" /\ hook[h].sent}
  /\ UNCHANGED <<written, hook, pending, flag, out, record, phone, noted, invited,
                 lost, late, gone, faults>>

\* The window closes on a record that still counts as open, or on a relay that
\* found it open and has not sent: it took longer than the margin.
Outlasts == quiet = 1 /\ (record = 0 \/ \E h \in Hooks : At(h, "agent", "send"))

\* Meta gives up the delivery of a webhook before 24 hours, and a request
\* takes less than that.
TimePasses ==
  /\ quiet < 2
  /\ quiet = 1 => mail = 0 /\ \A h \in Hooks : hook[h].kind # "client"
  /\ Outlasts => Slips
  /\ quiet' = quiet + 1
  /\ late' = (late \/ Outlasts)
  /\ UNCHANGED <<written, hook, redis, mail, arrived, failing, noted, invited,
                 takeover, lost, resolved, gone, faults>>

\* The record is made after the message: it is never older than it.
RecordAges ==
  /\ record < 2
  /\ mail > 0 \/ record < quiet
  /\ record' = record + 1
  /\ UNCHANGED <<written, hook, pending, flag, out, mute, phone, ghosts, faults>>

\* Mutant: every mute ends with the grace of an escalation.
AfterGrace_Any(m) == "expired"
AfterGrace(m)     == IF m = "escalated" THEN "expired" ELSE m

\* 30 minutes, 24 hours: longer than any request.
GracePasses ==
  /\ AllIdle /\ mute \in {"escalated", "human"}
  /\ mute' = AfterGrace(mute)
  /\ UNCHANGED <<written, hook, pending, flag, out, record, phone, ghosts, faults>>

TakeoverExpires ==
  /\ AllIdle /\ mute = "human"
  /\ mute' = "none" /\ takeover' = FALSE
  /\ UNCHANGED <<written, hook, pending, flag, out, record, phone, noted, invited,
                 lost, resolved, late, gone, faults>>

FlagExpires ==
  /\ AllIdle /\ flag
  /\ flag' = FALSE
  /\ UNCHANGED <<written, hook, pending, out, record, mute, phone, ghosts, faults>>

PendingExpires ==
  /\ AllIdle /\ quiet = 2 /\ pending # <<>>
  /\ Fault
  /\ pending' = <<>> /\ gone' = TRUE
  /\ UNCHANGED <<written, hook, flag, out, record, mute, phone, noted, invited,
                 takeover, lost, resolved, late>>

Dies(h) ==
  /\ hook[h].at # "idle"
  /\ Fault
  /\ Goto(h, "idle") /\ gone' = TRUE
  /\ UNCHANGED <<written, redis, phone, noted, invited, takeover, lost, resolved,
                 late>>

HookStep(h) ==
  \/ Check(h) \/ Send(h) \/ Remember(h) \/ Queue(h) \/ TakeFlag(h)
  \/ SendTemplate(h) \/ ReadList(h) \/ DeleteList(h) \/ Deliver(h) \/ Unflag(h)
  \/ SetHuman(h) \/ IsMuted(h) \/ ClearExpired(h) \/ TakeTap(h) \/ NotForTheBot(h)
  \/ BotAnswers(h) \/ BotEscalates(h) \/ Lookup(h) \/ Forget(h) \/ UnflagRejected(h)
HookFails(h) == RelayFails(h) \/ TemplateFails(h) \/ DeliverFails(h) \/ Dies(h)

Time == TimePasses \/ RecordAges \/ GracePasses \/ TakeoverExpires
          \/ FlagExpires \/ PendingExpires

Next ==
  \/ \E h \in Hooks : \/ Relay(h) \/ Inbound(h) \/ HookStep(h) \/ HookFails(h)
                      \/ \E f \in failing : Status(h, f)
  \/ ClientWrites \/ TemplateRejected \/ Resolve \/ Time

Spec == Init /\ [][Next]_vars

\* Requests are served and go on. Nobody has to write, and time may stand still.
FairSpec ==
  /\ Spec
  /\ SF_vars(\E h \in Hooks : Inbound(h))
  /\ \A h \in Hooks : WF_vars(HookStep(h))

-----------------------------------------------------------------------------
(* Properties *)

Arrived(x) == Contains(arrived, x)
Handled(m) == \E h \in Hooks : hook[h].msg = m \/ Contains(hook[h].batch, m)

Requests ==
  [at : {"idle", "check", "send", "remember", "queue", "flag", "template", "range",
         "delete", "deliver", "unflag", "human", "muted", "clear", "bot", "tapped",
         "lookup", "forget"},
   kind : {"none", "agent", "client", "status"},
   msg : 0 .. MaxMsgs, part : {1, 2}, batch : Seq(Msgs),
   sent : BOOLEAN, why : {"none", "window", "other"}]

\* Every variable has its type.
TypeOK ==
  /\ written \in 0 .. MaxMsgs
  /\ hook \in [Hooks -> Requests]
  /\ pending \in Seq(Msgs) /\ arrived \in Seq(Wamids)
  /\ out \subseteq Wamids \cup {Template}
  /\ failing \subseteq [id : Wamids \cup {Template}, why : {"window", "other"},
                        sender : {"agent", "client"}]
  /\ record \in 0 .. 2 /\ quiet \in 0 .. 2 /\ mail \in 0 .. 1 /\ faults \in Nat
  /\ mute \in {"none", "escalated", "expired", "human"} /\ noted \subseteq Msgs
  /\ lost \subseteq Msgs /\ resolved \subseteq Hooks
  /\ {flag, invited, takeover, late, gone} \subseteq BOOLEAN

\* The margin of 30 minutes does what it is for: while deliveries and calls take
\* less than it, Meta never rejects an agent's message for its window, in
\* whatever order requests and clocks advance.
WithinWindow == (\E f \in failing : f.why = "window") => late

\* window.py: a redelivery, a flush or a rejection, also one that Meta reports
\* twice, never puts the same text twice on the client's phone (no call failed;
\* a rejected album is an exception, see the README).
DeliveredOnce ==
  faults = 0 => \A i, j \in DOMAIN arrived :
    arrived[i] = arrived[j] => i = j \/ (late /\ arrived[i][1] \in Albums)

\* window.py:17: the client gets the messages in the order the agent wrote them.
InOrder ==
  faults = 0 /\ ~late => IsSorted([i \in DOMAIN arrived |-> arrived[i][1]], <=)

\* Nothing the agent wrote vanishes without a note, whichever call fails: it
\* arrived, waits in the list, is in a request's hands, or is remembered while
\* Meta has still to report its rejection.
Accounted(x) ==
  \/ Arrived(x) \/ Contains(pending, x[1]) \/ Handled(x[1]) \/ x[1] \in noted
  \/ x \in out /\ \E f \in failing : f.id = x
RejectedByFlush(x) == \E f \in failing : f.id = x /\ f.sender = "client"
NothingVanishes ==
  ~gone => \A x \in Wamids : x[1] <= written => Accounted(x) \/ RejectedByFlush(x)

\* A client with messages waiting has a template to tap, and the flag that stops
\* the next template is held only for such a client.
ClientIsInvited ==
  ~gone /\ AllIdle =>
    /\ pending # <<>> /\ faults = 0 => invited
    /\ flag /\ ~invited => \E f \in failing : f.id = Template /\ Template \in out

\* A message that waits is delivered if the client keeps writing, whatever
\* requests run beside the one that has it in its hands; except the message put
\* in the list between another request's LRANGE and its DELETE (window.py:218,
\* 221), which that DELETE loses.
QueuedIsDelivered ==
  []<>(mail > 0) =>
    \A x \in Wamids : Contains(pending, x[1]) ~>
      (Arrived(x) \/ RejectedByFlush(x) \/ x[1] \in lost \/ gone)

\* mute.py:11, 22: from the answer of a human until the conversation is resolved
\* or 24 hours pass, the bot does not take a text of the client, whatever requests
\* interleave; two exceptions: the button of another template goes past the mute
\* and may replace it, and so may a message that was on its way to the bot when the
\* human answered (the DELETE of an expired mute, or an escalation).
BotTakes(h) == hook[h].at # "bot" /\ hook'[h].at = "bot"
HumanTakeoverHolds == [][\A h \in Hooks : BotTakes(h) => ~takeover]_vars

\* window.py:241: the message that had the agent's answer delivered is not
\* answered by the bot as well, unless the agent resolved the conversation in
\* between (one request at a time: is_muted deletes what it read, see the README).
SilentAfterDelivery ==
  [][\A h \in Hooks : hook[h].sent /\ BotTakes(h) => h \in resolved]_vars
=============================================================================
