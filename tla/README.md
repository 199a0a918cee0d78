# A TLA+ development of landa-agent-service

landa-agent-service is the WhatsApp agent of an insurance broker: it answers
clients' questions, takes payment receipts ("comprobantes") to the people who
validate them ("cartera"), and hands conversations over to human agents who work
in Chatwoot. The program is a FastAPI web process and an ARQ worker process that
share Postgres and Redis. Nearly every rule of its documents is a rule about
*order*: what may be said to the client after what was decided by whom. Those
rules are kept by handlers that interleave at every `await`, and that is what
this project models.

Paths below are relative to `src/app/` unless they start with `src/`.

## 1. Inventory

| component | code | state | operations |
|---|---|---|---|
| payment graph | `features/payment/nodes.py`, `graph.py` | table `cases` (Postgres), the LangGraph thread of the client's phone | receive, forward, awaiting (interrupt), confirming, escalate |
| attachment job | `worker.py` `process_attachment`, `features/payment/storage.py` | files on the volume | a graph run from START for each image or PDF |
| cartera taps | `features/payment/cartera.py` | - | resume of the interrupted thread, message to the client, re-sending of buttons |
| scheduler | `features/payment/scheduler.py`, `business_hours.py` | `cases` | each minute: deferred forward, reminder (20 min), escalation (90 min) |
| audit log | `security/audit_log.py`, migration 0003 | table `audit_log`, append-only, hash chain | `emit`, `verify_chain` |
| audit sink | `security/audit_sink.py` | NDJSON files, `.cursor` | daily export |
| reply window | `features/escalation/window.py` | Redis `wa:last_in`, `wa:pending`, `wa:reengage`, `wa:out` | relay or queue, flush, failed status, template |
| mute | `features/escalation/mute.py` | Redis `bot:muted` | set_escalated, set_human, is_muted, clear_muted |
| Chatwoot webhook | `webhooks/chatwoot.py` | Redis dedup keys | relay of the agent's messages, unmute on resolution |
| Meta webhook | `webhooks/meta.py` | Redis dedup keys | dispatch of the client's messages, statuses, cartera routing |
| Q&A graph | `features/qa/*` | the same LangGraph thread | identification, policies, answer by an LLM, escalation |
| conversation lock | `features/escalation/conv_lock.py` | Redis `conv:lock` | acquire with timeout, release |
| alerts | `features/escalation/alerts.py` | Redis dedup, 30 min | one message to the team |
| Chatwoot client | `integrations/chatwoot.py` | Redis cache and lock of conversations; the conversations and labels in Chatwoot | get-or-create, labels (read, merge, replace), snooze, notes |
| voice handoff | `webhooks/handoff.py` | dedup keys, thread, `cases` | a template after an unanswered call, the cession of a live case, a coupon; each seeds the thread |
| Softseguros client | `integrations/softseguros.py`, `_circuit.py` | token, breaker, cache | policy queries |
| rate limiter | `security/rate_limiter.py` | Redis sorted sets | sliding windows |
| siniestros, mirrors, sweeps | `features/siniestros/*`, `worker.py` | Chatwoot labels and statuses | stages that only advance, statuses, threads of silent clients put to sleep |
| firewalls, judge | `security/*` | - | classification of texts |
| metrics, health, wiring | `features/metrics/*`, `webhooks/metrics.py`, `main.py`, `config/*` | - | queries, construction |

How they interact. Meta calls the web process for every message and status; a
message is deduplicated (`SET NX`) *before* it is processed, so processing is at
most once. Comprobantes become ARQ jobs; taps of cartera resume the client's
thread inside the webhook; texts run the Q&A graph in a task of their own under
the conversation lock. Chatwoot calls the web process for every message of an
agent and for resolutions. The worker's crons read and write `cases` directly.
Jobs, taps and crons of the payment flow take **no** lock; relays, flushes and
statuses of the reply window take none either. The audit log is written by
fire-and-forget tasks of both processes.

What is hard, and what makes each component correct:

* payment: three kinds of actor on one row and one thread; the thread is keyed by
  phone while decisions are about cases; one commit per scheduler execution while
  messages go out in the middle. Correct means: nobody is told that a payment is
  confirmed unless cartera approved it; closed cases stay closed; one open case;
  one reminder, then an escalation; no case waits for ever.
* audit: concurrent inserts into a chain, gaps in the sequence, an exporter that
  reads while rows are committed and may die between any two writes. Correct
  means: the chain verifies, tampering is found, nothing is skipped.
* conversation: turns that read a thread, wait minutes for an LLM and write it back; a
  lock that expires and names no owner; a webhook that resets the thread outside it;
  a loop between the LLM and the judge. Correct means: one turn at a time, only the
  policies of the identified client, an escalation that reaches the team and leaves the
  bot mute, and an end to every turn.
* voice handoff: requests that are retried, and a thread rewritten under the client's
  turns. Correct means: one message per case, and a conversation about its policy.
* Chatwoot client: find-or-create guarded in one process and not in the other; labels
  replaced as a whole; a sweep that acts on what it saw some calls earlier. Correct
  means: one live conversation per client, visible once answered, whose stage never
  goes back.
* reply window: two clocks (ours and Meta's), rejections that arrive later, lists
  read and deleted in two commands. Correct means: what an agent writes arrives
  once, in order, or the agent is told; the bot is silent while a human answers.

The hazards of `PROJECT.json` are the complete list, each at its line.

## 2. Modules

| module | content |
|---|---|
| `PaymentFlow` | the payment graph, its job, the taps, the scheduler and business time, for one client |
| `AuditChain` | emitters, verifier and sink |
| `ExportedLog` | what the audit log promises its readers; `AuditChain` implements it |
| `ReplyWindow` | Chatwoot webhook, Meta webhook, reply window and mute, for one client |
| `QAGraph` | the nodes of the Q&A graph over the thread of one client |
| `Conversation` | extends `QAGraph`: the webhook, the lock, the task, the mute and the alert around the graph |
| `VoiceHandoff` | extends `Conversation`: the requests of the voice beside the client's turns |
| `ChatwootClient` | find-or-create, labels, statuses, and the jobs of both processes that use them, for one client |
| `PaymentFlowProofs`, `PaymentSerialProofs`, `AuditChainProofs`, `ReplyWindowProofs`, `ConversationProofs`, `VoiceHandoffProofs`, `ChatwootClientProofs`, `StageProofs` | theorems |
| `MC...` | model values and symmetry for the runs |

Operators named `X_Something` are faulty variants of `X`, each the way a plausible
slip in that code would be; with one of them in place of `X` the property it is
paired with in `PROJECT.json` fails. No specification uses them.

### PaymentFlow

`db` is the client's rows of `cases`; `thread` the latest checkpoint; `run` the
graph invocations with the copy of the state each carries; `tick` the executions of
`check_pending_cases`. One action is one transaction without a remote call inside,
or one remote call.

* A job starts a new run from START (`JobStart`), which reads the whole thread: the
  `case_id` and the messages of earlier cases are still in it. `_get_or_create_case`
  is two actions, the SELECT (`FindCase`) and the write (`StoreInNewCase`,
  `StoreInFoundCase`), because another run may act in between; a rejected file
  (`RejectFile`) follows the unconditional edge with whatever `case_id` the thread
  holds. The forward is `Defer`, or `LoadCase`, `SendMedia`, `RecordForward`, or
  `SendMediaFails`.
* `Checkpoint` is what LangGraph does after each node: the run's copy becomes the
  thread. A run that was overtaken overwrites the other's checkpoint.
* A tap reads the status (`Tap`) and one await later reads the thread (`Resume`).
  `Command(resume=...)` on a thread that is not suspended replays its pending node,
  or runs nothing and returns the old messages; `Dispatch` then sends the last
  message meant for the client, whatever case it was written for.
* SQLAlchemy writes a column only if it differs from what was loaded (`OrmSet`), so a
  stale run may keep or overwrite a status. Rows a tick has updated stay locked until
  its commit (`Locked`). A tick reads all rows, handles them one by one and commits
  once (`TickCommit`) or loses it all (`TickAbort`); what it sent is sent.
* `open` and `age` stand for `business_hours.py`: business time opens and closes, a
  case's age crosses 20 and 90 minutes only while open. Both only advance for cases
  the scheduler can select; nothing else reads them.

Bounds: cases, jobs, taps, ticks, `Overlap` (actors under way at once), `MaxFaults`
(exceptions, failed sends, worker kills). Two cases and two jobs are enough
for one case to follow another and for every pair of actors to meet; three taps for the text
of a first case to be sent for a second that is decided otherwise; two ticks for two
executions to select the same row; one fault to separate a send from its commit.

Ghosts: `told`, `tapped`, `approvals`, the counters `reminders` and `notices`, and `refiled`, the
cases a rejected file was forwarded for after their decision.

### AuditChain and ExportedLog

`emit` is one action per statement: lock, `nextval`, last hash, INSERT with COMMIT.
A hash is a constructor over what it hashes, that is, sha256 has no collisions;
under that reading `GoodRow` is `verify_chain_rows` row by row. A failed transaction
releases the lock and loses the id it drew. The sink reads the cursor and selects, appends line by
line, truncates the cursor file and writes it; `SinkFails` can happen between any two.
Three ids let one row be before, one at and one after the cursor; two faults let the
sink die twice, or once together with an emitter.

`ExportedLog` says the same to somebody who sees only rows and files: entries are appended,
a first line comes after the first lines of all earlier entries, a second line needs a
failure, every entry gets a line. The mapping forgets the lock, the hashes and the cursor;
`log` is the rows without their hashes.

### ReplyWindow

One action is one Redis command or one call to Meta. `quiet` is Meta's clock, `record`
the age of `wa:last_in`, both in three classes: under 23:30 h, under 24 h, more.
`hook` holds the webhook requests under way. A call to Meta is delivered, refused, or
accepted and rejected by a later status (`failing`), which Meta may deliver any number
of times. Commands that nothing can be told apart by are merged: the dedup key with
`record_inbound`; the `wa:out` records of one album; the RPUSHes of one failed flush;
the template's send with its record. The two commands of `flush_pending`, of `is_muted`
and of `on_failed_status` are apart.

Time passes beyond 24 h only when no message of the client is undelivered or in a
request's hands: Meta stops redelivering earlier and requests take seconds. Grace and
TTLs (30 minutes, 24 h, 7 days) elapse between requests. The status of a message that
is not remembered changes nothing and is not a step. Two messages of the agent, one with
two attachments, are the least for which order, partial albums and a batch that
fails in the middle exist. With two requests at a time the albums and the faults are left out, not
the second message: an RPUSH between another request's LRANGE and its DELETE needs it. `Slips`
bounds whether anything may take longer than the 30-minute margin: it may with one request, not
with two, so that `late` excuses nothing there. Here the bot's turn is one step, which
answers or escalates; `Conversation` opens it up.

Ghosts: `late` (something outlasted the margin), `gone` (a process ended halfway, or a list
expired), `lost` (the messages put in the list between another request's LRANGE and DELETE),
`noted`, `invited`, `resolved`, and `takeover`: a human answered while no message was on its way
to the bot, and since then nobody resolved, no 24 hours passed and no template button was tapped.

### QAGraph, Conversation and VoiceHandoff

`thread` is the checkpoint of the client's LangGraph thread, reduced to the fields that
the router and the nodes read; `turn` the texts under way, each with the copy of the
state its graph works on (`th`). A node is one action, since LangGraph writes a
checkpoint after each: `Checkpoint` makes the turn's copy the thread, whatever
another turn wrote since. A text is a document, a row of a policy list or one of
`Words`; what the LLM, the judge and SoftSeguros answer is a choice of the action.

* `RouteEntry` is the router; `IdentifyRetap`, `IdentifyFaq`, `Greet`, `NotFound`,
  `LookupFails` and `Found` are the exits of `node_identify` (with the document and
  the policy left by a handoff); `ChooseAside`, `ChooseResolves`, `ChooseFails` those of
  `node_choose_policy`; `AnswerEscalates`, `AnswerApproved`, `AnswerRejected` those of
  `node_answer`, the last of which loops.
* Around the graph: `Admit` (the mute, read in the webhook), `Prepare` (`_force_reset`,
  `_reset_if_closed`), `Acquire`, `GiveUp`, `AcquireFails`, `LockExpires`, `Release`
  (`conv_lock.py`), `Send`, `Fallback`, `Mute`, `Alert` (`_run_and_dispatch`, `alerts.py`), and
  `Crash`: the tasks live in the process and their texts were acknowledged.
* `Dedup`, `Select`, `Insert`, `Write` are the statements of the three requests of
  `webhooks/handoff.py`; `Peek`, `Delete`, `SeedThread` those of `_seed_qa_thread`, which takes
  no lock. `Converse` is any step of `Conversation`.

Ghosts: `late` (a task ran for 30 s, or without the lock), `released` (the mute was ended
by an agent or its grace), `untold` (an escalation that nobody heard of), `about` and `known`
(what the last handoff said, while nothing has set it aside), `mixed` (the voice gave another
document while a policy of the first one was fixed or being chosen), `copies`.

Bounds: two turns, so that one outlives its lock while another enters; one fault; a
document with two policies in force and one that is not, the least for which a list, a
single policy and a hint outside the list exist. For the handoff: two requests of the
voice out of three, of all kinds, about three policies of two documents. One corrects the document
of another; one brings no document; a document has one policy in force and one that is not, so that the
hint and the only policy in force differ. A list that is being chosen from when the correction
comes takes a third policy in force and too many states: that case is left to the theorem
`AboutThePolicy`, which holds for all documents and policies.

### ChatwootClient

`threads` are the client's conversations with status and labels; `job` the mirrors, the
escalation's label, the status of a client's answer, the marking of the campaign and the two crons,
each a sequence of calls. `Start` sends the jobs of the web process through cache and lock
and those of the worker straight into the section: Redis is bound to the client in the web
process's lifespan only. Labels are read (`GetLabels`) and replaced (`PostLabels`) in two
calls. `NextListed` decides on the labels of the listing, which may be as old as the LLM
calls on the conversations before it.

Ghosts: `late` (a lock outlived, waited out, deleted by a caller that never had it, or Redis
failed), `beside` (two callers in the section, or a listing that failed), `raced` (a
thread changed between a job's last look and its write).

Bounds: four jobs per run, each once, two at a time; two conversations, since a third adds only
one more that is wrong; one failed call; two stages, of which one precedes the other.

## 3. Runs

| run | configuration | shows |
|---|---|---|
| `payment_serial` | 2 cases, 2 jobs with valid and rejected files, 3 taps, 1 tick, one actor at a time, 1 fault (2.0 million states) | over every sequence of events: one open case (D-07), a tap decides its own case, and, but for a case that a rejected file was forwarded for after its decision (`refiled`), decided cases stay decided (D-09) and the client was told that decision, or the text of an earlier case (`Consistent`) |
| `payment_sla` | 2 overlapping ticks, a job with any kind of file, a tap, a fault (102,000 states) | approval and confirmation need a tap on Aprobar (`NoApprovalWithoutTap`, `ConfirmationFollowsApproval`); the notice of the escalation follows a recorded reminder; a repeated reminder (D-11) or notice (D-12) has an execution beside it or a rollback to account for it (`RepeatsHaveACause`); every awaiting case is left in the end |
| `audit_chain` | 2 emitters, 3 ids, 2 faults | chain intact, tampering found at the right row, nothing skipped, and the refinement of `ExportedLog` with its liveness |
| `reply_serial` | 2 messages, an album, one request at a time, 1 fault (1.3 million states) | delivered once, in order, nothing vanishes, a waiting client has a template, no answer of the bot to the message that had the agent's delivered |
| `reply_overlap` | 2 messages, 2 requests at a time, taps, nothing slower than the margin (397,000 states) | no rejection for the window; what waits is delivered, unless it was put in the list between another request's LRANGE and DELETE (`QueuedIsDelivered`); the bot takes no text from a human, but by a template's button or a message already on its way to it (`HumanTakeoverHolds`) |
| `conversation` | 2 texts at a time, 3 policies, 1 fault | turns exclude each other; the policy is the client's; an escalation mutes and is told; a client starts over after it, unless another turn was beside or the reset itself failed |
| `conversation_live` | 2 texts at a time, no fault, fair event loop | every turn ends (`TurnsEnd`) |
| `handoff` | 2 of 3 requests of the voice, both at once, 2 documents, 1 turn at a time, 1 fault (3.4 million states) | one template per case, one message of a cession in the 24 hours of its dedup key (`OncePerCase`); the conversation is about the policy of the call, unless the voice corrected its document (`AboutTheHandoff`); the first document is used, not asked for |
| `chatwoot_threads` | mirror, escalation, status, sweep; 2 at a time, 1 fault | one caller in the section, one live thread, no answered thread asleep |
| `chatwoot_labels` | escalation, status, campaign and stage jobs, an agent; 2 at a time, 1 fault | a claim's stage never goes back |

Two runs end in a counterexample: a document or comment of the repository says one
thing, the code does another.

| run | property | what happens |
|---|---|---|
| `payment_falseconf` | `NoFalseConfirmation` | case 1 is approved; on case 2 cartera taps "Mas info"; the resume ends with no new message, and the last one of the thread, "Tu pago fue confirmado", is sent again (D-28) |
| `chatwoot_split` | `NoSplitThread` | `mirror_inbound` and `mirror_outbound` run in the worker, where the client has neither cache nor lock: both list no conversation and both create one, which is what the comment over the lock says it prevents |

### Known disagreements

Other places where the code does not do what its documents say. Each is in a model; the
property it would break is stated with the exception, or for the runs without it.

* An exception on a later case rolls back the stamps of the reminders a tick has sent, and
  the next tick sends them again (`features/payment/scheduler.py:221`, D-11). `RepeatsHaveACause`
  allows one repetition for each rollback, and one for each execution beside.
* A file the gate rejects, after a decision, forwards the decided case again
  (`features/payment/nodes.py:250`, D-09). `TerminalIsFinal` and `Consistent` except these cases
  (`refiled`).
* The in-hours forward reads `case.attachments` lazily; where that raises, as the scheduler's
  own comment says it does, the case stays `forwarded`, which nothing selects
  (`features/payment/nodes.py:462`). A run that ends after the case was committed leaves it so too.
* A template button runs the graph past the mute; its escalation turns the human mute into one
  of 30 minutes (`webhooks/meta.py:987`). For `HumanTakeoverHolds` such a tap ends the takeover.
* A reset that fails is logged, and the text goes on over the thread of the escalated
  conversation (`webhooks/meta.py:502`, `514`). `StartsOver` excepts the turn whose own reset
  failed (`clean`).
* The dedup key of a cession lasts 24 hours (`webhooks/handoff.py:394`), and the voice uses a
  `case_id` again in all its calls: the same message a day later is sent again (`SeenExpires`).
  `OncePerCase` counts within the life of a key.
* What a flush sends is not remembered: a rejection of it goes unnoticed
  (`features/escalation/window.py:232`).
* `siniestro-sismo`, the marker of the campaign, begins with `siniestro-`, and
  `set_stage_label` drops every label with that prefix (`integrations/chatwoot.py:564`): the first
  stage written takes the conversation out of the campaign's listing, contrary to
  `chatwoot.py:552-554`.
* On a second handoff of the same policy the bot asks for the document the voice has just
  given, because `asked_for_doc` is carried over (`features/qa/nodes.py:435`).
* "Any prior thread state (old poliza_id, old polizas_list, old cliente_doc) is stale by
  definition" (`webhooks/handoff.py:282`); but a second handoff of the same number keeps the thread,
  and when it gives another document the policy fixed under the first one, or the list being
  chosen from, stays. `AboutTheHandoff` excepts it (`mixed`).
* "The client is never asked for their document" (`webhooks/handoff.py:278`), except when that
  document has no policies: then the bot asks for it again (`HasPolicies`).
* When the apology after a failed turn cannot be sent either, there is no mute and no alert
  (`webhooks/meta.py:275`).
* A listing of conversations that fails counts as an empty one, and a duplicate is created
  (`integrations/chatwoot.py:316`).
* A template that Meta refuses leaves the row of its case: the retry finds it and never sends
  (`webhooks/handoff.py:158`).

### Known races

`OneOpenCase`, `Consistent`, `TapDecidesItsCase`, `TerminalIsFinal`, `DeliveredOnce`, `InOrder`,
`NothingVanishes`, `ClientIsInvited` and `SilentAfterDelivery` hold over every *sequence* of
events and are false when handlers overlap; the models contain these races and the runs that
check the properties set `Overlap = 1` or one request. They are properties of the code as
it stands, not of an idealised one:

* two comprobantes at once: both find no open case and open one each;
* two taps at once: both pass the status check and both decide;
* a tick that escalates a case approved since its SELECT;
* two messages of the client at once: both read the list before either deletes it (sent
  twice), or a message is appended between LRANGE and DELETE (lost: the exception of
  `QueuedIsDelivered`);
* two copies of one status at once: both queue the message;
* a status that comes before `wa:out` is set: ignored;
* `is_muted` reads an expired escalation, an agent's answer sets `human`, and `is_muted`
  deletes it: the bot takes that text, and the next;
* a graph turn under way when the agent answers: its `set_escalated` replaces `human`.

The last two are the exception of `HumanTakeoverHolds`, which is checked with two requests: its
takeover begins at a human's answer that meets no message on its way to the bot (`GoesToBot`).
The others are excepted by a ghost in the property itself: a turn that outlives the lock
(`late`), a reset beside another turn (`clean`), a seed beside a turn (`about`), an answer or a
resolution between the sweep's look and its snooze (`raced`), labels that another job wrote
between a GET and a POST (`raced`).

One more is sequential: an album whose two parts are both rejected is queued twice, and
so delivered twice; `DeliveredOnce` excepts it explicitly. And a flush queues again,
after an error, what Meta may have accepted before a timeout (`DeliveredOnce` and
`InOrder` are stated for runs without a failed call).

## 4. Fairness

* `PaymentFlow!FairSpec`: jobs and webhooks that started go on (weak); the cron
  is selected again and again in business time (strong, since business time comes and
  goes); business time alternates and cases age. The client, cartera and faults are not fair. ARQ's
  cron fires every minute (`worker.py:425`), which is what justifies the strong fairness.
* `AuditChain!FairSpec`: the sink's job runs every day (weak); each emitter gets the
  lock in the end (strong: Postgres queues the waiters). Emitting and failing are not fair.
* `ReplyWindow!FairSpec`: a request goes on (weak), the client's message is taken
  in the end (strong: requests of others may be served first). Nobody has to write, and time
  may stand still; `QueuedIsDelivered` assumes in its own premise that the client keeps
  writing.
* `Conversation!FairSpec`: the event loop resumes every task (weak). Weak is enough for the
  lock too, because a task that cannot have it may give up waiting: the code's 25 s. Nothing is
  assumed of the LLM's answers; what ends the loop with the judge is the counter.

## 5. Proofs

All theorems are about `Spec` (`HandoffSpec`) for every value of the constants, from the
`ASSUME`s of the modules: bounds are naturals, jobs and taps are disjoint, files and kinds are
among the named ones, nobody is not an emitter, documents and policies are not words, each job
has a kind, no status of the campaign is a stage.

Some properties are true only of sequences of events (see *Known races*). Their theorems name
that as a hypothesis, and leave every other constant free:

| hypothesis | means | why it is needed |
|---|---|---|
| `OneAtATime` | `Overlap = 1` | two jobs, or a job and a tick, race for a case |
| `OneRequest` | one request of the webhooks at a time | two requests read the list before either deletes it |

The runs that check these properties, `payment_serial` and `reply_serial`, satisfy them. Faults, taps
and the kinds of files are free: one open case, the tap's own case, the final decisions, nothing
vanishes, the invitation hold whatever fails (where a property itself reads `faults = 0`, `~gone`,
`refiled` or `lost`, that is in its statement). All other theorems, `EveryRepeatHasACause` and
`HumanKeepsTheChat` among them, have no hypothesis.

* **Payment, any overlap** (`PaymentFlowProofs`). `NoApprovalWithoutTap` is not inductive: a
  decision travels from the tap into the run, the checkpoint and the text, and another run may pick it up
  from the checkpoint. `IInv` adds that a run that carries "aprobar" or stands at
  `confirming`, and a checkpoint whose next node is `confirming`, imply a tap; that a
  carrier of the confirmation text implies an approved case. One lemma per action; the
  lemmas `CheckpointTyped`, `CheckpointApproval`, `RunTyped`, `RunApproval` do the common part.
  `EscalationIsLate` follows the reminder from the row a tick read to the notice it sends:
  `ReminderInv` says that a tick about to escalate a case read it with a stamp, and a stamp that
  was committed is never taken back. `EveryRepeatHasACause` counts (`CauseInv`): before the stamp of
  a case is committed, each message sent for it belongs to an execution that has yet to commit, or was rolled
  back by a fault; after it, only executions that planned the message before will send it still.
* **Payment, one actor at a time** (`PaymentSerialProofs`). The thread is the phone's, not the
  case's, so nothing about one case is inductive. `SerialInv` says that the thread and the run under
  way work on the latest case, that every earlier one is decided, that a run that may write finds the
  case open, or refiled (`MayWrite`), and that the text in the thread is that of a decision on record.
  From it: `OneCaseIsOpen`, `TapsDecideTheirCase`, `AnswersAgree`, `DecisionsAreFinal`. Of `AnswersAgree`
  both exceptions are needed: after a decision on an earlier case, a tap that finds nothing to run
  sends its old text (`NoFalseConfirmation`, run `payment_falseconf`), and a rejected file takes a
  decision back.
* **Audit** (`AuditChainProofs`). `ChainIntact` rests on the lock: its holder's id is
  above every committed one and the hash it read is still the last (`LockInv`, `IdInv`,
  `PrevInv`), so that a commit appends at the end (`AppendVerifies`). `NothingSkipped` rests on
  the cursor being 0 or a *committed* id: an id that is still uncommitted is the sequence's last, above every
  cursor (`SinkInv`). `LastExists` uses well-founded induction on a fixed set.
  `TamperingAlwaysFound` evaluates the verifier on the changed table: the row before the change and all
  rows below still fit, the changed one, or the next, does not, because a hash determines what it hashes.
  `RowInv` adds that a row has its four columns and nothing else. It holds for a chain of any length and a change of any row,
  of what the hash covers: the column `metadata` is left out of it (`security/audit_log.py:165`), and a change of it goes unnoticed.
* **Refinement** (`AuditChainProofs`). Every step of `AuditChain` is a step of `ExportedLog`'s
  `SafeSpec` or a stutter. Beyond `IInv` this takes that ids are unique, that a batch ends at
  `top`, and that without a failure nothing of the batch has a line yet (`UniqueIds`, `BatchInv`,
  `FreshInv`, together `RInv`). That `FairSpec` gives the abstract fairness is checked by TLC.
* **Reply window** (`ReplyWindowProofs`). `WithinWindow` needs to know where a call to Meta
  can stand when the window closes: `ClosedInv` says that by then no request of the
  client is under way and that a relay about to send, or a record that still looks
  fresh, means that something was late; `CarryInv` says what a request carries at each place. This one
  holds for any overlap, and so does `HumanKeepsTheChat`. Each of the others has an invariant, with
  one request at a time:
  - `DeliveryMutes`: the request that had a human's answer delivered finds that human's mute
    (`SilentInv`);
  - `HumanKeepsTheChat` (any number of requests): during a takeover the mute is "human" and no
    request is past it (`TakeoverInv`), so that no DELETE and no escalation can come;
  - `NothingIsLost`: every part of every message that was written is settled, or owed by the
    request under way, at whatever place it stands (`DebtInv`, `Owes`);
  - `WaitingIsInvited`: the flag is held for a template on its way or there, and whoever has
    messages waiting has the template or a request about to send it (`InviteInv`);
  - `ReceivedInOrder`: what arrived, then what a request has in its hands, then what waits is one
    increasing list, below all that may still be written (`OrderInv`, with lemmas about sorted sequences);
  - `TextsArriveOnce`: a part is at one place only: arrived, waiting, in hand or rejected
    (`OnceInv`; a rejected album counts twice, and is excepted by `Counts`).
* **Conversation** (`ConversationProofs`). `AnswersIdentified` is about the thread, but turns
  write back copies of their own. `Threads` are the thread and all copies; `After(a, b)` says what a
  node makes of one (leaves it, misses, fixes a policy, presents a list, takes a choice), and
  `ThreadMoves` that a step makes each thread one of the old ones, an empty one or one `After` an old one.
  What an empty thread has and `After` keeps, every step keeps, even where a turn
  overwrites another's checkpoint: `GraphInv` says that every thread is `Good` (the policy, and what is offered while a choice
  is awaited, belong to the document; no counter of retries passes 1). `TurnsDontCollide` needs
  `LockInv`: until something is late, the one turn past the lock holds it. `EscalatedIsMuted` and
  `TeamIsTold` need to know who still owes the mute or the alert (`MuteInv`, `ToldInv`); `StartsOver`
  that a turn with nobody beside it, whose reset did not fail, cleared the thread itself (`AloneInv`,
  `PrepareKeeps`).
* **Voice handoff** (`VoiceHandoffProofs`). Of an unanswered call only the request that inserted
  the row can be about to write, and then nothing was written yet (`RowInv`); of a cession only
  the one that set the key gets past it (`KeyInv`, as long as nothing failed; a key expires between requests). The conversation does
  not disturb either. The other three reuse `ThreadMoves`. `GraphInv` itself is false here: a
  seed may carry a policy over to another document. `HandoffTypes` therefore rests on `TurnInv`, which
  says less; `AboutThePolicy` on `FitInv` (unless a document was corrected, no thread has another policy fixed or offered while its document
  owns the number of the handoff) and `AboutInv` (what the last handoff said,
  every thread says); `DocumentIsUsed` on `KnownInv` (after a first handoff no thread has asked, and each has a document with
  policies).
* **Chatwoot client** (`ChatwootClientProofs`). `OneAtATime` needs that, until something is late,
  whoever of the web process is in the section holds the lock (`LockInv`). `OneThread` needs more: a
  caller about to create has seen no live thread, and no other caller is there to make one
  (`SectionInv`, `LiveInv`). `AnsweredIsVisible` needs `SweepInv`: a sweep between its look and its
  snooze stands on an unanswered thread, or something raced.
* **Stages** (`StageProofs`). `StageOf` is the latest stage among the labels (it exists: `StageExists`,
  by well-founded induction on a fixed set). `AheadInv`: what the stage job is about to write is ahead of
  the labels it was listed; if nothing raced, those are the labels it overwrites. All other jobs write
  the stages they read, because no status and no marker is a stage (`StagesAssumption`).

Only model-checked: the liveness properties `AwaitingIsLeft`, `QueuedIsDelivered`, `TurnsEnd` and
that of `ImplementsLog` (fairness and ENABLED are out of the prover's reach). Every invariant and every
action property of the passing runs is stated by a theorem.

## 6. Not modelled, and why

* Texts, prompts, firewalls, the judge and the LLM: data and classification without state;
  their verdicts are choices of the actions. What a firewall blocks before the graph changes
  no state that is kept here.
* Of the Q&A graph: paging of the list, the balance menu, the debtor flags given to the
  LLM; the hint and the number of a handoff are one field (`handoff_poliza_hint` is set to the same
  number when there is a document); a missing thread and one at its defaults are one; `_reset_if_closed`
  is one step; `node_close`, which no node decides; the payment nodes, since the jobs of comprobantes
  use another thread id (without the "+").
* Of the alerts: which phone is told. Of the handoff: the completion of a case's policy and its
  call_ids, the bearer, the rate limit. Phones of the handoff carry a "+", those of the
  comprobantes do not, so handoff cases are never found by `_get_or_create_case`.
* Of the Chatwoot client: posting of messages, notes and files; the second campaign's
  marker; `siniestro-trabado`; the silent mode of the synchronisation; the fixed reply
  "mas tarde"; Chatwoot's own reopening of resolved conversations.
* Redis outages in the reply window (every helper is fail-open: the worst case is the
  behaviour without the feature); the fallback of `last_inbound` to Chatwoot's history; signatures and
  allowlists; an empty cartera allowlist; `cleanup_attachments_90d`; the voice's `debtor_id` on
  the payment path, where it is never set.
* The circuit breaker: its transitions are those of pybreaker, which is not in the
  repository; `async_call` only reads and notifies it, and the Q&A model takes its refusal as a
  fault. The rate limiter: one Lua script per call, arithmetic on a clock. Other HTTP clients:
  stateless, their outcomes are the faults of their callers. Metrics, health, wiring,
  schemas: no rule that several steps could break.

## 7. Plan

1. `PaymentFlow`, `AuditChain`, `ReplyWindow` with their runs and theorems (done).
2. `QAGraph`, `Conversation`, `VoiceHandoff`, `ChatwootClient`, `ExportedLog` and the refinement
   (done), with theorems about each (done).
3. Theorems for every invariant and action property of the runs (done).
4. Abstract specifications left: `CaseLife` (a case as cartera sees it: open, decided) implemented
   by `PaymentFlow` one actor at a time; `Outbox` (a queue with at-most-once delivery) implemented by
   `ReplyWindow`. The number of runs stays small: a new one takes the place of one whose
   question another answers.
5. Models left: the recipients of the alerts (a technical alert silences the client's), the
   second campaign.
