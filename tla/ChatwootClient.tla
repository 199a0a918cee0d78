--------------------------- MODULE ChatwootClient ---------------------------
(***************************************************************************)
(* The Chatwoot threads of one client and the jobs that find or create     *)
(* them and rewrite their labels. get_or_create_conversation serializes    *)
(* its callers with a Redis cache and lock, but only in the web process:   *)
(* the lifespan binds Redis to the client, the worker's on_startup does    *)
(* not, and without Redis there is no cache and no lock. Labels are read,  *)
(* merged and replaced as a whole, and nothing guards that.                *)
(*                                                                         *)
(* What agents and Chatwoot itself do is external: Resolve, AgentMoves,    *)
(* and the return of a snoozed thread when the client writes.              *)
(***************************************************************************)
EXTENDS Integers, FiniteSets, Sequences

CONSTANTS
  Jobs,        \* bound: the jobs that run, each once
  Kind,        \* the kind of each job
  Overlap,     \* bound: jobs under way at once
  Stages,      \* the stage labels of a claim, in order (a sequence)
  States,      \* the status labels of the campaign, exclusive
  NeedsAgent,  \* the statuses that need an agent
  MaxThreads,  \* bound: conversations of the client
  MaxFaults    \* bound: failed calls

Kinds  == {"mirrorIn", "mirrorOut",   \* worker: a message is mirrored
           "escalation", "status",    \* web: notify_team_escalation, apply_status
           "mark",                    \* script: the campaign is sent
           "sync", "sweep"}           \* worker: sync_stages, mark_unanswered_conversations
Web    == {"escalation", "status"}
Finds  == Kinds \ {"sync", "sweep"}

ASSUME JobsAssumption   == Kind \in [Jobs -> Kinds] /\ Overlap \in Nat
ASSUME StatesAssumption == NeedsAgent \subseteq States
ASSUME BoundsAssumption == MaxThreads \in Nat /\ MaxFaults \in Nat

Escalado == "escalado-humano"
Sismo    == "siniestro-sismo"
Silent   == "sin-respuesta"
StageSet == {Stages[i] : i \in 1 .. Len(Stages)}
Labels   == StageSet \cup States \cup {Escalado, Sismo, Silent}
Prefixed == StageSet \cup {Sismo}     \* they start with "siniestro-"

ASSUME StagesAssumption ==
  Len(Stages) \in Nat /\ StageSet \cap (States \cup {Escalado, Sismo, Silent}) = {}

VARIABLES
  threads,   \* the client's conversations, oldest first
  cache,     \* chatwoot:conv: a conversation, or 0
  lock,      \* chatwoot:lock, SET NX EX 15
  job,       \* the jobs
  faults,    \* faults spent so far
  late,      \* a lock was outlived, or a caller went on without it
  beside,    \* two callers were in the section at once, or a listing failed
  raced      \* a thread changed between a job's last look at it and its write

ghosts == <<late, beside, raced>>
vars   == <<threads, cache, lock, job, faults, ghosts>>

Thread == [status: {"open", "snoozed", "resolved"}, labels: SUBSET Labels, answered: BOOLEAN]
Ids    == 0 .. MaxThreads
Known  == [Ids -> SUBSET Labels]

Section == {"recheck", "find", "create", "keep", "unlock"}
Places  == Section \cup {"todo", "lock", "poll", "use", "decide", "get", "post", "messages",
                         "snooze", "done"}

\* read: the labels it read last. list: what a cron was listed, by conversation.
Nothing == [c \in Ids |-> {}]
NewJob  == [at |-> "todo", conv |-> 0, read |-> {}, label |-> {}, held |-> FALSE,
            list |-> Nothing, left |-> {}]

Init ==
  /\ threads = <<>> /\ cache = 0 /\ lock = FALSE /\ faults = 0
  /\ job = [j \in Jobs |-> NewJob]
  /\ late = FALSE /\ beside = FALSE /\ raced = FALSE

-----------------------------------------------------------------------------
(* Helpers *)

At(j, place)   == job[j].at = place
Done           == [NewJob EXCEPT !.at = "done"]
Goto(j, place) == job' = [job EXCEPT ![j] = IF place = "done" THEN Done ELSE [@ EXCEPT !.at = place]]
Conv(j)        == job[j].conv
InSection(j)   == job[j].at \in Section
Shares(j)      == Kind[j] \in Web
Running        == {j \in Jobs : job[j].at \notin {"todo", "done"}}
Live(c)        == threads[c].status # "resolved"
Threads        == 1 .. Len(threads)
Fault          == faults < MaxFaults /\ faults' = faults + 1

\* The way into the section, with a look at who is there.
Enters(j, place) ==
  /\ job' = [job EXCEPT ![j].at = place, ![j].held = At(j, "lock")]
  /\ beside' = (beside \/ \E i \in Jobs \ {j} : InSection(i))

\* After get_or_create_conversation.
Ends(j) == IF Kind[j] \in {"mirrorIn", "mirrorOut"} THEN "use" ELSE "get"

-----------------------------------------------------------------------------
(* get_or_create_conversation *)

\* The fast path, in the web process; the worker has neither cache nor lock.
Start(j) ==
  /\ At(j, "todo") /\ Kind[j] \in Finds /\ Cardinality(Running) < Overlap
  /\ \/ /\ Shares(j) /\ cache # 0
        /\ job' = [job EXCEPT ![j].conv = cache, ![j].at = "get"]
        /\ UNCHANGED beside
     \/ /\ Shares(j) /\ cache = 0
        /\ Goto(j, "lock")
        /\ UNCHANGED beside
     \/ ~Shares(j) /\ Enters(j, "find")
  /\ UNCHANGED <<threads, cache, lock, faults, late, raced>>

\* Mutant: SET without NX.
LockIsFree_NoNX == TRUE
LockIsFree      == ~lock

Acquire(j) ==
  /\ At(j, "lock")
  /\ \/ LockIsFree /\ lock' = TRUE /\ Enters(j, "recheck") /\ UNCHANGED <<faults, late>>
     \/ ~LockIsFree /\ Goto(j, "poll") /\ UNCHANGED <<lock, faults, late, beside>>
     \/ Fault /\ late' = TRUE /\ Enters(j, "recheck") /\ UNCHANGED lock     \* fail open
  /\ UNCHANGED <<threads, cache, raced>>

\* Every 0.5 s, 15 s at most; then it creates without the lock.
Poll(j) ==
  /\ At(j, "poll")
  /\ \/ /\ cache # 0
        /\ job' = [job EXCEPT ![j].conv = cache, ![j].at = "get"]
        /\ UNCHANGED <<late, beside>>
     \/ cache = 0 /\ late' = TRUE /\ Enters(j, "recheck")
  /\ UNCHANGED <<threads, cache, lock, faults, raced>>

Recheck(j) ==
  /\ At(j, "recheck")
  /\ job' = [job EXCEPT ![j].conv = cache, ![j].at = IF cache # 0 THEN "unlock" ELSE "find"]
  /\ UNCHANGED <<threads, cache, lock, faults, ghosts>>

\* Mutant: only an open conversation, as before the 30th of July.
Reusable_Open(c) == threads[c].status = "open"
Reusable(c)      == Live(c)

\* An open conversation before a snoozed one, then the latest.
Found        == {c \in Threads : Reusable(c)}
Preferred(c) ==
  \A o \in Found \ {c} :
    \/ threads[c].status = "open" /\ threads[o].status # "open"
    \/ (threads[c].status = "open" <=> threads[o].status = "open") /\ o < c

\* The contact is created or, after a 422, searched for. A listing that fails
\* counts as an empty one; anything else raises.
Find(j) ==
  /\ At(j, "find")
  /\ \/ /\ \E c \in Found : /\ Preferred(c)
                             /\ job' = [job EXCEPT ![j].conv = c, ![j].at = "keep"]
        /\ UNCHANGED <<faults, beside>>
     \/ Found = {} /\ Goto(j, "create") /\ UNCHANGED <<faults, beside>>
     \/ Fault /\ Goto(j, "create") /\ beside' = TRUE
     \/ Fault /\ Goto(j, "unlock") /\ UNCHANGED beside
  /\ UNCHANGED <<threads, cache, lock, late, raced>>

Create(j) ==
  /\ At(j, "create")
  /\ \/ /\ Len(threads) < MaxThreads
        /\ threads' = Append(threads, [status |-> "open", labels |-> {}, answered |-> FALSE])
        /\ job' = [job EXCEPT ![j].conv = Len(threads'), ![j].at = "keep"]
        /\ UNCHANGED faults
     \/ Fault /\ Goto(j, "unlock") /\ UNCHANGED threads
  /\ UNCHANGED <<cache, lock, ghosts>>

Keep(j) ==
  /\ At(j, "keep")
  /\ \/ cache' = (IF Shares(j) THEN Conv(j) ELSE cache) /\ UNCHANGED faults
     \/ Shares(j) /\ Fault /\ UNCHANGED cache
  /\ Goto(j, "unlock")
  /\ UNCHANGED <<threads, lock, ghosts>>

\* Mutant: the exception of a call is swallowed.
Raised_Never(j) == FALSE
Raised(j)       == Conv(j) = 0

\* finally: whoever's lock it is; a call that raised ends its job.
Unlock(j) ==
  /\ At(j, "unlock")
  /\ lock' = (lock /\ ~Shares(j))
  /\ late' = (late \/ \E i \in Jobs \ {j} : Shares(j) /\ job[i].held /\ InSection(i))
  /\ job' = [job EXCEPT ![j] = IF Raised(j) THEN Done
                               ELSE [@ EXCEPT !.at = Ends(j), !.held = FALSE]]
  /\ UNCHANGED <<threads, cache, faults, beside, raced>>

-----------------------------------------------------------------------------
(* What the jobs do with it *)

\* A snoozed thread comes back when the client writes.
Mirror(j) ==
  /\ At(j, "use")
  /\ threads' = IF Kind[j] = "mirrorOut" THEN threads
                ELSE [threads EXCEPT ![Conv(j)].answered = TRUE,
                                     ![Conv(j)].status = IF @ = "snoozed" THEN "open" ELSE @]
  /\ raced' = (\/ raced
               \/ \E i \in Jobs : /\ Kind[i] = "sweep" /\ Conv(i) = Conv(j)
                                  /\ job[i].at \in {"get", "post", "snooze"})
  /\ Goto(j, "done")
  /\ UNCHANGED <<cache, lock, faults, late, beside>>

\* Of a claim's stages, the latest counts; 0: none.
StageOf(labels) ==
  CHOOSE i \in 0 .. Len(Stages) :
    /\ i # 0 => Stages[i] \in labels
    /\ \A k \in i + 1 .. Len(Stages) : Stages[k] \notin labels

\* next_labels
WithStatus(labels, s) ==
  (labels \ States) \cup {s} \cup (IF s \in NeedsAgent THEN {Escalado} ELSE {})

\* set_stage_label: the marker of the campaign has the prefix too.
WithStage(labels, s) == (labels \ Prefixed) \cup {s}

\* A GET that fails is an empty set of labels.
GetLabels(j) ==
  /\ At(j, "get")
  /\ \E read \in {threads[Conv(j)].labels, {}} :
       /\ \/ read = threads[Conv(j)].labels /\ UNCHANGED faults
          \/ read = {} /\ Fault
       /\ job' = [job EXCEPT ![j] = IF Kind[j] = "status" /\ Sismo \notin read THEN Done
                                    ELSE [@ EXCEPT !.read = read, !.at = "post"]]
  /\ UNCHANGED <<threads, cache, lock, ghosts>>

Write(j, labels, place) ==
  /\ threads' = [threads EXCEPT ![Conv(j)].labels = labels]
  /\ raced' = (\/ raced \/ threads[Conv(j)].labels # job[j].read
               \/ Kind[j] = "sync" /\ threads[Conv(j)].labels # job[j].list[Conv(j)])
  /\ job' = [job EXCEPT ![j] = IF place = "done" THEN Done
                               ELSE [@ EXCEPT !.at = place, !.read = {}, !.label = {}]]
  /\ UNCHANGED faults

\* add_labels, replace_labels, set_stage_label. An exception ends the job; in the
\* sweep of the silent threads only the turn of the conversation.
PostLabels(j) ==
  /\ At(j, "post")
  /\ \/ Kind[j] = "escalation" /\ Write(j, job[j].read \cup {Escalado}, "done")
     \/ Kind[j] = "mark"       /\ Write(j, job[j].read \cup {Sismo}, "done")
     \/ /\ Kind[j] = "status"
        /\ \/ \E s \in States : Write(j, WithStatus(job[j].read, s), "done")
           \/ Goto(j, "done") /\ UNCHANGED <<threads, faults, raced>>     \* classify: None
     \/ Kind[j] = "sync" /\ \E s \in job[j].label : Write(j, WithStage(job[j].read, s), "decide")
     \/ Kind[j] = "sweep" /\ Write(j, job[j].read \cup {Silent}, "snooze")
     \/ /\ Fault
        /\ Goto(j, IF Kind[j] = "sweep" THEN "decide" ELSE "done")
        /\ UNCHANGED <<threads, raced>>
  /\ UNCHANGED <<cache, lock, late, beside>>

-----------------------------------------------------------------------------
(* The crons *)

\* list_conversations_by_label(siniestro-sismo); list_conversations, of those
\* that are neither resolved nor marked.
Listed(j) == {c \in Threads : IF Kind[j] = "sync" THEN Sismo \in threads[c].labels
                              ELSE Live(c) /\ Silent \notin threads[c].labels}

Sweep(j) ==
  /\ At(j, "todo") /\ Kind[j] \in {"sync", "sweep"} /\ Cardinality(Running) < Overlap
  /\ job' = [job EXCEPT ![j].at = "decide", ![j].left = Listed(j),
                        ![j].list = [c \in Ids |-> IF Kind[j] = "sync" /\ c \in Listed(j)
                                                  THEN threads[c].labels ELSE {}]]
  /\ UNCHANGED <<threads, cache, lock, faults, ghosts>>

\* Mutant: whatever the model reads.
Advances_Any(labels, i) == i > 0
Advances(labels, i)     == i > StageOf(labels)

\* The next conversation, which may be passed over: too recent, nothing read, an
\* error. The stage that the LLM reads is compared with the listing.
NextListed(j) ==
  /\ At(j, "decide")
  /\ \/ job[j].left = {} /\ Goto(j, "done")
     \/ \E c \in job[j].left :
          LET going(place, l) ==
                job' = [job EXCEPT ![j].at = place, ![j].conv = c, ![j].label = l,
                                   ![j].left = @ \ {c}]
          IN \/ going("decide", {})
             \/ Kind[j] = "sweep" /\ going("messages", {})
             \/ /\ Kind[j] = "sync"
                /\ \E i \in 1 .. Len(Stages) :
                     Advances(job[j].list[c], i) /\ going("get", {Stages[i]})
  /\ UNCHANGED <<threads, cache, lock, faults, ghosts>>

\* Mutant: the messages are not looked at.
Answered_Never(c) == FALSE
Answered(c)       == threads[c].answered

ListMessages(j) ==
  /\ At(j, "messages")
  /\ Goto(j, IF Answered(Conv(j)) THEN "decide" ELSE "get")
  /\ UNCHANGED <<threads, cache, lock, faults, ghosts>>

Snooze(j) ==
  /\ At(j, "snooze")
  /\ \/ /\ threads' = [threads EXCEPT ![Conv(j)].status = "snoozed"]
        /\ raced' = (raced \/ ~Live(Conv(j)))
        /\ UNCHANGED faults
     \/ Fault /\ UNCHANGED <<threads, raced>>
  /\ Goto(j, "decide")
  /\ UNCHANGED <<cache, lock, late, beside>>

-----------------------------------------------------------------------------
(* Agents and time *)

Resolve(c) ==
  /\ Live(c)
  /\ threads' = [threads EXCEPT ![c].status = "resolved"]
  /\ UNCHANGED <<cache, lock, job, faults, ghosts>>

\* An agent moves the claim on by hand.
AgentMoves(c) ==
  /\ Sismo \in threads[c].labels
  /\ \E i \in 1 .. Len(Stages) :
       /\ i = StageOf(threads[c].labels) + 1
       /\ threads' = [threads EXCEPT ![c].labels = (@ \ StageSet) \cup {Stages[i]}]
  /\ UNCHANGED <<cache, lock, job, faults, ghosts>>

CacheExpires == cache # 0 /\ cache' = 0 /\ UNCHANGED <<threads, lock, job, faults, ghosts>>

LockExpires ==
  /\ lock
  /\ lock' = FALSE
  /\ late' = (late \/ \E j \in Jobs : job[j].held)
  /\ UNCHANGED <<threads, cache, job, faults, beside, raced>>

Next ==
  \/ \E j \in Jobs :
       \/ Start(j) \/ Acquire(j) \/ Poll(j) \/ Recheck(j) \/ Find(j) \/ Create(j) \/ Keep(j)
       \/ Unlock(j) \/ Mirror(j) \/ GetLabels(j) \/ PostLabels(j)
       \/ Sweep(j) \/ NextListed(j) \/ ListMessages(j) \/ Snooze(j)
  \/ \E c \in Threads : Resolve(c) \/ AgentMoves(c)
  \/ CacheExpires \/ LockExpires

Spec == Init /\ [][Next]_vars

-----------------------------------------------------------------------------
(* Properties *)

\* Types; and whoever goes on after the search has a conversation.
TypeOK ==
  /\ threads \in Seq(Thread) /\ Len(threads) <= MaxThreads
  /\ cache \in 0 .. Len(threads) /\ lock \in BOOLEAN
  /\ job \in [Jobs -> [at: Places, conv: Ids, read: SUBSET Labels, label: SUBSET StageSet,
                       held: BOOLEAN, list: Known, left: SUBSET Ids]]
  /\ \A j \in Jobs : job[j].at \in {"use", "get", "post", "messages", "snooze"} => Conv(j) \in Threads
  /\ faults \in 0 .. MaxFaults
  /\ late \in BOOLEAN /\ beside \in BOOLEAN /\ raced \in BOOLEAN

\* In the web process one caller at a time looks for the client's conversation,
\* unless one outlived its 15 s, waited them out, or Redis failed.
OneAtATime ==
  \A i, j \in Jobs : Shares(i) /\ Shares(j) /\ InSection(i) /\ InSection(j) => i = j \/ late

\* A client has one thread that is not resolved, as long as no two callers were
\* in the section at once, every listing was answered, and the sweep snoozed no
\* thread that was resolved after it had looked.
OneThread == ~beside /\ ~raced => Cardinality({c \in Threads : Live(c)}) <= 1

\* The same without the provision, as the comment of the slow path promises.
NoSplitThread == faults = 0 => Cardinality({c \in Threads : Live(c)}) <= 1

\* Reading a conversation never takes a claim back to an earlier stage, unless
\* its labels were edited between the listing and the write.
StageNeverGoesBack ==
  [][\A c \in Threads :
       ~raced' => StageOf(threads[c].labels) <= StageOf(threads'[c].labels)]_vars

\* A thread in which the client has written is not hidden from the agents,
\* unless the message arrived after the sweep had looked.
AnsweredIsVisible == ~raced => \A c \in Threads : threads[c].answered => threads[c].status # "snoozed"
=============================================================================
