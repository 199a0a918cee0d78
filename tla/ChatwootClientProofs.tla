------------------------ MODULE ChatwootClientProofs ------------------------
(***************************************************************************)
(* For every number of jobs, threads and faults: the web process looks for *)
(* a client's conversation one caller at a time, a client has one live     *)
(* thread, and the sweep hides none in which the client has written.       *)
(*                                                                         *)
(* The first rests on who holds the lock, the second on who is in the      *)
(* section and what its search found, the third on what the sweep saw.     *)
(***************************************************************************)
EXTENDS ChatwootClient, FiniteSetTheorems, SequenceTheorems, TLAPS

\* The places from which a job uses the conversation it has.
Using == {"keep", "use", "get", "post", "messages", "snooze"}

JobType == [at: Places, conv: Ids, read: SUBSET Labels, label: SUBSET StageSet,
            held: BOOLEAN, list: Known, left: SUBSET Ids]

\* A job of j, when there are n threads.
JobOK(b, j, n) ==
  /\ b \in JobType
  /\ b.conv \in 0 .. n /\ b.left \subseteq 1 .. n
  /\ b.at \in Using => b.conv # 0
  /\ b.at \in {"messages", "snooze"} => Kind[j] = "sweep"
  /\ b.at \in Section \cup {"lock", "poll"} => Kind[j] \in Finds

Typed ==
  /\ threads \in Seq(Thread) /\ Len(threads) <= MaxThreads
  /\ cache \in 0 .. Len(threads) /\ lock \in BOOLEAN
  /\ job \in [Jobs -> JobType]
  /\ \A j \in Jobs : JobOK(job[j], j, Len(threads))
  /\ faults \in 0 .. MaxFaults
  /\ late \in BOOLEAN /\ beside \in BOOLEAN /\ raced \in BOOLEAN

\* A web job in the section holds the lock, and is the only one.
LockInv ==
  ~late => \A i \in Jobs : Shares(i) /\ InSection(i) =>
             /\ lock /\ job[i].held
             /\ \A k \in Jobs : Shares(k) /\ InSection(k) => k = i

\* Of both processes together, at most one job is in the section; the client has
\* one live thread, and none when a job is about to create one.
SectionInv == ~beside => \A i, k \in Jobs : InSection(i) /\ InSection(k) => i = k
LiveInv ==
  ~beside /\ ~raced =>
    /\ \A c, d \in Threads : Live(c) /\ Live(d) => c = d
    /\ \A j \in Jobs : At(j, "create") => \A c \in Threads : ~Live(c)

\* The sweep is about to snooze only what nobody has answered.
SweepInv ==
  ~raced => \A j \in Jobs :
    Kind[j] = "sweep" /\ job[j].at \in {"get", "post", "snooze"} => ~threads[Conv(j)].answered

-----------------------------------------------------------------------------
(* Facts about threads and jobs *)

\* One thread of a client is changed.
LEMMA Changed ==
  ASSUME NEW s \in Seq(Thread), NEW c \in 1 .. Len(s), NEW t \in Thread
  PROVE  LET u == [s EXCEPT ![c] = t]
         IN u \in Seq(Thread) /\ Len(u) = Len(s)
            /\ \A d \in 1 .. Len(s) : u[d] = IF d = c THEN t ELSE s[d]
  BY ExceptSeq

\* A thread is added behind the others.
LEMMA Added ==
  ASSUME NEW s \in Seq(Thread), NEW t \in Thread
  PROVE  LET u == Append(s, t)
         IN u \in Seq(Thread) /\ Len(u) = Len(s) + 1 /\ u[Len(s) + 1] = t
            /\ \A d \in 1 .. Len(s) : u[d] = s[d]
  OBVIOUS


\* Job j goes to place p, where it has the conversation c and h of the lock.
Moved(j, p, c, h) ==
  /\ job' \in [Jobs -> JobType]
  /\ \A i \in Jobs \ {j} : job'[i] = job[i]
  /\ job'[j].at = p /\ job'[j].conv = c /\ job'[j].held = h
  /\ job'[j].left \subseteq job[j].left

\* Facts of a typed state.
LEMMA Bounds ==
  ASSUME Typed
  PROVE  /\ MaxThreads \in Nat /\ MaxFaults \in Nat
         /\ Len(threads) \in Nat /\ Len(threads) <= MaxThreads
         /\ cache \in Ids
         /\ threads \in [1 .. Len(threads) -> Thread]
         /\ \A j \in Jobs : job[j] \in JobType /\ JobOK(job[j], j, Len(threads))
  BY BoundsAssumption, LenProperties DEF Typed, Ids

\* The moves of the code: on, on with a conversation, into the section, to the end.
LEMMA GoesOn ==
  ASSUME job \in [Jobs -> JobType], NEW j \in Jobs, NEW p \in Places,
         job' = [job EXCEPT ![j].at = p]
  PROVE  Moved(j, p, job[j].conv, job[j].held)
  BY DEF Moved, JobType

LEMMA GoesWith ==
  ASSUME job \in [Jobs -> JobType], NEW j \in Jobs, NEW p \in Places, NEW c \in Ids,
         job' = [job EXCEPT ![j].conv = c, ![j].at = p]
  PROVE  Moved(j, p, c, job[j].held)
  BY DEF Moved, JobType

LEMMA GoesIn ==
  ASSUME job \in [Jobs -> JobType], NEW j \in Jobs, NEW p \in Places, Enters(j, p)
  PROVE  Moved(j, p, job[j].conv, At(j, "lock")) /\ beside' \in BOOLEAN
<1>1. PICK h \in BOOLEAN : h = At(j, "lock") BY DEF At
<1>2. job' = [job EXCEPT ![j].at = p, ![j].held = h] BY <1>1 DEF Enters
<1>3. Moved(j, p, job[j].conv, h) BY <1>2 DEF Moved, JobType
<1> QED BY <1>1, <1>3 DEF Enters

LEMMA Ended ==
  ASSUME job \in [Jobs -> JobType], NEW j \in Jobs, job' = [job EXCEPT ![j] = Done]
  PROVE  Moved(j, "done", 0, FALSE)
<1>1. Nothing \in Known BY DEF Known, Nothing
<1>2. 0 \in Ids BY BoundsAssumption DEF Ids
<1>3. NewJob \in JobType /\ NewJob.conv = 0 /\ NewJob.left = {} /\ NewJob.held = FALSE
  BY <1>1, <1>2 DEF NewJob, JobType, Places
<1>4. /\ Done \in JobType /\ Done.at = "done" /\ Done.conv = 0 /\ Done.left = {}
      /\ Done.held = FALSE
  BY <1>3 DEF Done, JobType, Places
<1> QED BY <1>4 DEF Moved

\* Job j may be at p with conversation c, when there are n threads.
Fits(j, p, c, n) ==
  /\ c \in 0 .. n
  /\ p \in Using => c # 0
  /\ p \in {"messages", "snooze"} => Kind[j] = "sweep"
  /\ p \in Section \cup {"lock", "poll"} => Kind[j] \in Finds

\* All but the jobs has its type after a step, and no thread is lost.
Flags     == lock \in BOOLEAN /\ late \in BOOLEAN /\ beside \in BOOLEAN /\ raced \in BOOLEAN
Numbers   == /\ threads' \in Seq(Thread) /\ Len(threads') <= MaxThreads
             /\ Len(threads) <= Len(threads')
             /\ cache' \in 0 .. Len(threads') /\ faults' \in 0 .. MaxFaults
RestTyped == Numbers /\ Flags'

\* The types again, after one job has moved.
LEMMA JobMoves ==
  ASSUME Typed, NEW j \in Jobs, NEW p, NEW c, NEW h, Moved(j, p, c, h),
         Fits(j, p, c, Len(threads')), RestTyped
  PROVE  Typed'
<1>1. Len(threads) \in Nat /\ Len(threads') \in Nat BY LenProperties DEF Typed, RestTyped, Numbers
<1>2. \A i \in Jobs \ {j} : JobOK(job[i], i, Len(threads'))
  BY <1>1 DEF Typed, JobOK, RestTyped, Numbers
<1>3. job'[j] \in JobType /\ job'[j].left \subseteq 1 .. Len(threads')
  BY <1>1 DEF Typed, JobOK, Moved, RestTyped, Numbers
<1>4. JobOK(job'[j], j, Len(threads')) BY <1>3 DEF JobOK, Moved, Fits
<1>5. \A i \in Jobs : JobOK(job'[i], i, Len(threads')) BY <1>2, <1>4 DEF Moved
<1> QED BY <1>5 DEF Typed, Moved, RestTyped, Numbers, Flags

-----------------------------------------------------------------------------
(* What each action does, by its moves *)

LEMMA StartDoes ==
  ASSUME Typed, NEW j \in Jobs, Start(j)
  PROVE  /\ At(j, "todo") /\ Kind[j] \in Finds
         /\ UNCHANGED <<threads, cache, lock, faults, late, raced>>
         /\ \/ Moved(j, "get", cache, job[j].held) /\ cache # 0 /\ Shares(j) /\ UNCHANGED beside
            \/ Moved(j, "lock", Conv(j), job[j].held) /\ UNCHANGED beside
            \/ ~Shares(j) /\ Enters(j, "find") /\ Moved(j, "find", Conv(j), FALSE)
<1>1. "get" \in Places /\ "lock" \in Places /\ "find" \in Places BY DEF Places, Section
<1>2. At(j, "todo") /\ Kind[j] \in Finds
      /\ UNCHANGED <<threads, cache, lock, faults, late, raced>>
  BY DEF Start
<1>3. ~At(j, "lock") BY <1>2 DEF At
<1>4. CASE Shares(j) /\ cache # 0 /\ job' = [job EXCEPT ![j].conv = cache, ![j].at = "get"]
           /\ UNCHANGED beside
  BY <1>1, <1>2, <1>4, GoesWith, Bounds DEF Typed
<1>5. CASE Goto(j, "lock") /\ UNCHANGED beside
  <2>1. job' = [job EXCEPT ![j].at = "lock"] BY <1>5 DEF Goto
  <2> QED BY <1>1, <1>2, <1>5, <2>1, GoesOn DEF Typed, Conv
<1>6. CASE ~Shares(j) /\ Enters(j, "find")
  <2>1. Moved(j, "find", job[j].conv, At(j, "lock")) BY <1>1, <1>6, GoesIn DEF Typed
  <2>2. Moved(j, "find", job[j].conv, FALSE) BY <1>3, <2>1 DEF Moved, At
  <2> QED BY <1>2, <1>6, <2>2 DEF Conv
<1> QED BY <1>4, <1>5, <1>6 DEF Start

LEMMA AcquireDoes ==
  ASSUME Typed, NEW j \in Jobs, Acquire(j)
  PROVE  /\ At(j, "lock") /\ UNCHANGED <<threads, cache, raced>>
         /\ lock' \in BOOLEAN /\ faults' \in 0 .. MaxFaults
         /\ \/ /\ ~lock /\ lock' = TRUE /\ Enters(j, "recheck")
               /\ Moved(j, "recheck", Conv(j), TRUE) /\ UNCHANGED late
            \/ Moved(j, "poll", Conv(j), job[j].held) /\ UNCHANGED <<lock, late, beside>>
            \/ Enters(j, "recheck") /\ Moved(j, "recheck", Conv(j), TRUE) /\ late' = TRUE
<1>1. "recheck" \in Places /\ "poll" \in Places BY DEF Places, Section
<1>2. At(j, "lock") /\ UNCHANGED <<threads, cache, raced>> BY DEF Acquire
<1>3. faults' \in 0 .. MaxFaults BY Bounds DEF Acquire, Typed, Fault
<1>4. lock' \in BOOLEAN BY Zenon DEF Acquire, Typed
<1>5. CASE Enters(j, "recheck")
  <2>1. Moved(j, "recheck", job[j].conv, At(j, "lock")) BY <1>1, <1>5, GoesIn DEF Typed
  <2>2. Moved(j, "recheck", Conv(j), TRUE) BY <1>2, <2>1 DEF Moved, At, Conv
  <2>3. \/ ~lock /\ lock' = TRUE /\ UNCHANGED late
        \/ late' = TRUE
        \/ Goto(j, "poll")
    BY DEF Acquire, LockIsFree
  <2>4. ~Goto(j, "poll")
    <3>1. SUFFICES ASSUME Goto(j, "poll") PROVE FALSE OBVIOUS
    <3>2. Moved(j, "poll", job[j].conv, job[j].held) BY <1>1, <3>1, GoesOn DEF Goto, Typed
    <3> QED BY <2>2, <3>2 DEF Moved
  <2> QED BY <1>2, <1>3, <1>4, <1>5, <2>2, <2>3, <2>4
<1>6. CASE Goto(j, "poll") /\ UNCHANGED <<lock, faults, late, beside>>
  <2>1. job' = [job EXCEPT ![j].at = "poll"] BY <1>6 DEF Goto
  <2>2. Moved(j, "poll", Conv(j), job[j].held) BY <1>1, <2>1, GoesOn DEF Typed, Conv
  <2> QED BY <1>2, <1>3, <1>4, <1>6, <2>2
<1> QED BY <1>5, <1>6 DEF Acquire

LEMMA PollDoes ==
  ASSUME Typed, NEW j \in Jobs, Poll(j)
  PROVE  /\ At(j, "poll") /\ UNCHANGED <<threads, cache, lock, faults, raced>>
         /\ \/ Moved(j, "get", cache, job[j].held) /\ cache # 0 /\ UNCHANGED <<late, beside>>
            \/ Enters(j, "recheck") /\ Moved(j, "recheck", Conv(j), FALSE) /\ late' = TRUE
<1>1. "recheck" \in Places /\ "get" \in Places BY DEF Places, Section
<1>2. At(j, "poll") /\ UNCHANGED <<threads, cache, lock, faults, raced>> BY DEF Poll
<1>3. CASE cache # 0 /\ job' = [job EXCEPT ![j].conv = cache, ![j].at = "get"]
           /\ UNCHANGED <<late, beside>>
  BY <1>1, <1>2, <1>3, GoesWith, Bounds DEF Typed
<1>4. CASE late' = TRUE /\ Enters(j, "recheck")
  <2>1. Moved(j, "recheck", job[j].conv, At(j, "lock")) BY <1>1, <1>4, GoesIn DEF Typed
  <2>2. Moved(j, "recheck", Conv(j), FALSE) BY <1>2, <2>1 DEF Moved, At, Conv
  <2> QED BY <1>2, <1>4, <2>2
<1> QED BY <1>3, <1>4 DEF Poll

LEMMA RecheckDoes ==
  ASSUME Typed, NEW j \in Jobs, Recheck(j)
  PROVE  /\ At(j, "recheck") /\ UNCHANGED <<threads, cache, lock, faults, late, beside, raced>>
         /\ \/ Moved(j, "unlock", cache, job[j].held)
            \/ Moved(j, "find", cache, job[j].held)
<1>1. "unlock" \in Places /\ "find" \in Places BY DEF Places, Section
<1>2. CASE cache # 0
  <2>1. job' = [job EXCEPT ![j].conv = cache, ![j].at = "unlock"] BY <1>2 DEF Recheck
  <2> QED BY <1>1, <2>1, GoesWith, Bounds DEF Typed, Recheck, ghosts
<1>3. CASE cache = 0
  <2>1. job' = [job EXCEPT ![j].conv = cache, ![j].at = "find"] BY <1>3 DEF Recheck
  <2> QED BY <1>1, <2>1, GoesWith, Bounds DEF Typed, Recheck, ghosts
<1> QED BY <1>2, <1>3

LEMMA FindDoes ==
  ASSUME Typed, NEW j \in Jobs, Find(j)
  PROVE  /\ At(j, "find") /\ UNCHANGED <<threads, cache, lock, late, raced>>
         /\ faults' \in 0 .. MaxFaults
         /\ \/ /\ \E c \in Threads : Moved(j, "keep", c, job[j].held)
               /\ UNCHANGED beside
            \/ /\ Moved(j, "create", Conv(j), job[j].held)
               /\ \/ Found = {} /\ UNCHANGED beside
                  \/ beside' = TRUE
            \/ Moved(j, "unlock", Conv(j), job[j].held) /\ UNCHANGED beside
<1>1. "keep" \in Places /\ "create" \in Places /\ "unlock" \in Places BY DEF Places, Section
<1>2. At(j, "find") /\ UNCHANGED <<threads, cache, lock, late, raced>> BY DEF Find
<1>3. faults' \in 0 .. MaxFaults BY Bounds DEF Find, Typed, Fault
<1>4. CASE /\ \E c \in Found : job' = [job EXCEPT ![j].conv = c, ![j].at = "keep"]
           /\ UNCHANGED beside
  <2>1. PICK c \in Threads : job' = [job EXCEPT ![j].conv = c, ![j].at = "keep"]
    BY <1>4 DEF Found
  <2>2. c \in Ids BY Bounds DEF Ids, Threads
  <2>3. Moved(j, "keep", c, job[j].held) BY <1>1, <2>1, <2>2, GoesWith DEF Typed
  <2> QED BY <1>2, <1>3, <1>4, <2>3
<1>5. CASE Goto(j, "create") /\ ((Found = {} /\ UNCHANGED beside) \/ beside' = TRUE)
  <2>1. job' = [job EXCEPT ![j].at = "create"] BY <1>5 DEF Goto
  <2> QED BY <1>1, <1>2, <1>3, <1>5, <2>1, GoesOn DEF Typed, Conv
<1>6. CASE Goto(j, "unlock") /\ UNCHANGED beside
  <2>1. job' = [job EXCEPT ![j].at = "unlock"] BY <1>6 DEF Goto
  <2> QED BY <1>1, <1>2, <1>3, <1>6, <2>1, GoesOn DEF Typed, Conv
<1> QED BY <1>4, <1>5, <1>6 DEF Find

LEMMA CreateDoes ==
  ASSUME Typed, NEW j \in Jobs, Create(j)
  PROVE  /\ At(j, "create") /\ UNCHANGED <<cache, lock, late, beside, raced>>
         /\ faults' \in 0 .. MaxFaults /\ threads' \in Seq(Thread) /\ Len(threads') <= MaxThreads
         /\ \/ /\ Len(threads') = Len(threads) + 1
               /\ \A d \in 1 .. Len(threads) : threads'[d] = threads[d]
               /\ threads'[Len(threads')].answered = FALSE
               /\ threads'[Len(threads')].status = "open"
               /\ Moved(j, "keep", Len(threads'), job[j].held)
            \/ Moved(j, "unlock", Conv(j), job[j].held) /\ UNCHANGED threads
<1>1. "keep" \in Places /\ "unlock" \in Places BY DEF Places, Section
<1>2. At(j, "create") /\ UNCHANGED <<cache, lock, late, beside, raced>> BY DEF Create, ghosts
<1>3. CASE Goto(j, "unlock") /\ Fault /\ UNCHANGED threads
  <2>1. job' = [job EXCEPT ![j].at = "unlock"] BY <1>3 DEF Goto
  <2>2. faults' \in 0 .. MaxFaults BY <1>3, Bounds DEF Fault, Typed
  <2> QED BY <1>1, <1>2, <1>3, <2>1, <2>2, GoesOn, Bounds DEF Typed, Conv
<1>4. CASE /\ Len(threads) < MaxThreads
           /\ threads' = Append(threads, [status |-> "open", labels |-> {}, answered |-> FALSE])
           /\ job' = [job EXCEPT ![j].conv = Len(threads'), ![j].at = "keep"]
           /\ UNCHANGED faults
  <2>1. [status |-> "open", labels |-> {}, answered |-> FALSE] \in Thread BY DEF Thread
  <2>2. /\ threads' \in Seq(Thread) /\ Len(threads') = Len(threads) + 1
        /\ threads'[Len(threads')] = [status |-> "open", labels |-> {}, answered |-> FALSE]
        /\ \A d \in 1 .. Len(threads) : threads'[d] = threads[d]
    BY <1>4, <2>1, Added DEF Typed
  <2>3. Len(threads') \in Ids /\ Len(threads') <= MaxThreads BY <1>4, <2>2, Bounds DEF Ids
  <2>4. Moved(j, "keep", Len(threads'), job[j].held) BY <1>1, <1>4, <2>3, GoesWith DEF Typed
  <2>5. faults' \in 0 .. MaxFaults BY <1>4 DEF Typed
  <2> QED BY <1>2, <2>2, <2>3, <2>4, <2>5
<1> QED BY <1>3, <1>4 DEF Create

LEMMA KeepDoes ==
  ASSUME Typed, NEW j \in Jobs, Keep(j)
  PROVE  /\ At(j, "keep") /\ UNCHANGED <<threads, lock, late, beside, raced>>
         /\ cache' \in 0 .. Len(threads) /\ faults' \in 0 .. MaxFaults
         /\ Moved(j, "unlock", Conv(j), job[j].held)
<1>1. "unlock" \in Places BY DEF Places, Section
<1>2. At(j, "keep") /\ UNCHANGED <<threads, lock, late, beside, raced>> BY DEF Keep, ghosts
<1>3. cache' \in 0 .. Len(threads) /\ faults' \in 0 .. MaxFaults
  BY Bounds DEF Keep, Typed, Fault, JobOK, Conv
<1>4. job' = [job EXCEPT ![j].at = "unlock"] BY DEF Keep, Goto
<1> QED BY <1>1, <1>2, <1>3, <1>4, GoesOn DEF Typed, Conv

LEMMA UnlockDoes ==
  ASSUME Typed, NEW j \in Jobs, Unlock(j)
  PROVE  /\ At(j, "unlock") /\ UNCHANGED <<threads, cache, faults, beside, raced>>
         /\ lock' = (lock /\ ~Shares(j))
         /\ late' = (late \/ \E i \in Jobs \ {j} : Shares(j) /\ job[i].held /\ InSection(i))
         /\ \/ Moved(j, "done", 0, FALSE)
            \/ Conv(j) # 0 /\ \E p \in {"use", "get"} : Moved(j, p, Conv(j), FALSE)
<1>1. "use" \in Places /\ "get" \in Places BY DEF Places
<1>2. CASE Raised(j)
  <2>1. job' = [job EXCEPT ![j] = Done] BY <1>2 DEF Unlock
  <2> QED BY <2>1, Ended DEF Unlock, Typed
<1>3. CASE ~Raised(j)
  <2>1. PICK p \in {"use", "get"} : p = Ends(j) BY DEF Ends
  <2>2. job' = [job EXCEPT ![j].at = p, ![j].held = FALSE] BY <1>3, <2>1 DEF Unlock
  <2>3. Moved(j, p, Conv(j), FALSE) BY <1>1, <2>2 DEF Moved, JobType, Typed, Conv
  <2> QED BY <1>3, <2>3 DEF Unlock, Raised
<1> QED BY <1>2, <1>3

\* The thread of a job that uses one.
LEMMA HasThread ==
  ASSUME Typed, NEW j \in Jobs, job[j].at \in Using
  PROVE  Conv(j) \in Threads
  BY Bounds DEF JobOK, Conv, Threads

LEMMA MirrorDoes ==
  ASSUME Typed, NEW j \in Jobs, Mirror(j)
  PROVE  /\ At(j, "use") /\ UNCHANGED <<cache, lock, faults, late, beside>>
         /\ Moved(j, "done", 0, FALSE)
         /\ threads' \in Seq(Thread) /\ Len(threads') = Len(threads)
         /\ \A c \in Threads : /\ threads'[c].status = "resolved" <=> threads[c].status = "resolved"
                               /\ c # Conv(j) => threads'[c] = threads[c]
                               /\ threads'[c] = threads[c] \/ threads'[c].status # "snoozed"
         /\ raced' = (\/ raced
                      \/ \E i \in Jobs : /\ Kind[i] = "sweep" /\ Conv(i) = Conv(j)
                                         /\ job[i].at \in {"get", "post", "snooze"})
<1>1. /\ At(j, "use") /\ UNCHANGED <<cache, lock, faults, late, beside>>
      /\ raced' = (\/ raced
                   \/ \E i \in Jobs : /\ Kind[i] = "sweep" /\ Conv(i) = Conv(j)
                                      /\ job[i].at \in {"get", "post", "snooze"})
  BY DEF Mirror
<1>2. Moved(j, "done", 0, FALSE)
  <2>1. job' = [job EXCEPT ![j] = Done] BY DEF Mirror, Goto
  <2> QED BY <2>1, Ended DEF Typed
<1>3. CASE threads' = threads BY <1>1, <1>2, <1>3, Bounds DEF Typed, Threads
<1>4. CASE threads' = [threads EXCEPT ![Conv(j)].answered = TRUE,
                                      ![Conv(j)].status = IF @ = "snoozed" THEN "open" ELSE @]
  <2>1. Conv(j) \in 1 .. Len(threads) BY <1>1, HasThread DEF At, Using, Threads
  <2>2. PICK s \in {"open", "snoozed", "resolved"} :
          s = IF threads[Conv(j)].status = "snoozed" THEN "open" ELSE threads[Conv(j)].status
    BY <2>1, Bounds DEF Thread
  <2>3. PICK t \in Thread : t = [threads[Conv(j)] EXCEPT !.answered = TRUE, !.status = s]
    BY <2>1, Bounds DEF Thread
  <2>4. t.status = s BY <2>1, <2>3, Bounds DEF Thread
  <2>5. threads' = [threads EXCEPT ![Conv(j)] = t]
    BY <1>4, <2>1, <2>2, <2>3, Bounds DEF Thread
  <2>6. /\ threads' \in Seq(Thread) /\ Len(threads') = Len(threads)
        /\ \A d \in 1 .. Len(threads) : threads'[d] = IF d = Conv(j) THEN t ELSE threads[d]
    BY <2>1, <2>5, Changed DEF Typed
  <2> QED BY <1>1, <1>2, <2>1, <2>2, <2>4, <2>6 DEF Threads
<1> QED BY <1>3, <1>4 DEF Mirror

\* Nothing of the threads but labels changes.
Relabelled ==
  /\ threads' \in Seq(Thread) /\ Len(threads') = Len(threads)
  /\ \A c \in Threads : /\ threads'[c].status = threads[c].status
                        /\ threads'[c].answered = threads[c].answered

LEMMA Relabels ==
  ASSUME Typed, NEW c \in Threads, NEW labels \in SUBSET Labels,
         threads' = [threads EXCEPT ![c].labels = labels]
  PROVE  Relabelled
<1>1. PICK t \in Thread : t = [threads[c] EXCEPT !.labels = labels]
  BY Bounds DEF Thread, Threads
<1>2. t.status = threads[c].status /\ t.answered = threads[c].answered
  BY <1>1, Bounds DEF Thread, Threads
<1>3. threads' = [threads EXCEPT ![c] = t] BY <1>1, Bounds DEF Thread, Threads
<1>4. c \in 1 .. Len(threads) /\ threads \in Seq(Thread) /\ t \in Thread BY DEF Threads, Typed
<1>5. /\ threads' \in Seq(Thread) /\ Len(threads') = Len(threads)
      /\ \A d \in 1 .. Len(threads) : threads'[d] = IF d = c THEN t ELSE threads[d]
  BY ONLY <1>3, <1>4, Changed
<1> QED BY <1>2, <1>5 DEF Relabelled, Threads

LEMMA Same == ASSUME Typed, UNCHANGED threads PROVE Relabelled
  BY Bounds DEF Relabelled, Threads, Typed

LEMMA GetLabelsDoes ==
  ASSUME Typed, NEW j \in Jobs, GetLabels(j)
  PROVE  /\ At(j, "get") /\ UNCHANGED <<threads, cache, lock, late, beside, raced>>
         /\ faults' \in 0 .. MaxFaults
         /\ Moved(j, "done", 0, FALSE) \/ Moved(j, "post", Conv(j), job[j].held)
<1>1. At(j, "get") /\ UNCHANGED <<threads, cache, lock, late, beside, raced>>
  BY DEF GetLabels, ghosts
<1>2. PICK read \in {threads[Conv(j)].labels, {}} :
        /\ faults' = faults \/ Fault
        /\ job' = [job EXCEPT ![j] = IF Kind[j] = "status" /\ Sismo \notin read THEN Done
                                     ELSE [@ EXCEPT !.read = read, !.at = "post"]]
  BY DEF GetLabels
<1>3. faults' \in 0 .. MaxFaults BY <1>2, Bounds DEF Typed, Fault
<1>4. CASE job' = [job EXCEPT ![j] = Done] BY <1>1, <1>3, <1>4, Ended DEF Typed
<1>5. CASE job' = [job EXCEPT ![j].read = read, ![j].at = "post"]
  <2>1. read \in SUBSET Labels
    BY <1>1, HasThread, Bounds DEF At, Using, Threads, Thread
  <2>2. "post" \in Places BY DEF Places
  <2>3. Moved(j, "post", Conv(j), job[j].held)
    BY <1>5, <2>1, <2>2 DEF Moved, JobType, Typed, Conv
  <2> QED BY <1>1, <1>3, <2>3
<1> QED BY <1>2, <1>4, <1>5

\* What is written is made of labels.
LEMMA Written ==
  ASSUME NEW read \in SUBSET Labels
  PROVE  /\ read \cup {Escalado} \subseteq Labels /\ read \cup {Sismo} \subseteq Labels
         /\ read \cup {Silent} \subseteq Labels
         /\ \A s \in States : WithStatus(read, s) \subseteq Labels
         /\ \A s \in StageSet : WithStage(read, s) \subseteq Labels
  BY DEF Labels, WithStatus, WithStage

LEMMA WriteDoes ==
  ASSUME Typed, NEW j \in Jobs, At(j, "post"), NEW labels \in SUBSET Labels,
         NEW p \in {"done", "decide", "snooze"}, Write(j, labels, p)
  PROVE  /\ Relabelled /\ faults' = faults /\ raced' \in BOOLEAN /\ (raced => raced')
         /\ IF p = "done" THEN Moved(j, "done", 0, FALSE) ELSE Moved(j, p, Conv(j), job[j].held)
<1>1. Conv(j) \in Threads BY HasThread DEF At, Using
<1>2. threads' = [threads EXCEPT ![Conv(j)].labels = labels] BY DEF Write
<1>3. Relabelled BY <1>1, <1>2, Relabels
<1>4. faults' = faults /\ raced' \in BOOLEAN /\ (raced => raced') BY Zenon DEF Write, Typed
<1>5. CASE p = "done"
  <2>1. job' = [job EXCEPT ![j] = Done] BY <1>5 DEF Write
  <2> QED BY <1>3, <1>4, <1>5, <2>1, Ended DEF Typed
<1>6. CASE p # "done"
  <2>1. job' = [job EXCEPT ![j].at = p, ![j].read = {}, ![j].label = {}] BY <1>6 DEF Write
  <2>2. p \in Places BY DEF Places
  <2>3. Moved(j, p, Conv(j), job[j].held) BY <2>1, <2>2 DEF Moved, JobType, Typed, Conv
  <2> QED BY <1>3, <1>4, <1>6, <2>3
<1> QED BY <1>5, <1>6

LEMMA PostLabelsDoes ==
  ASSUME Typed, NEW j \in Jobs, PostLabels(j)
  PROVE  /\ At(j, "post") /\ UNCHANGED <<cache, lock, late, beside>>
         /\ faults' \in 0 .. MaxFaults /\ Relabelled /\ raced' \in BOOLEAN /\ (raced => raced')
         /\ \/ Moved(j, "done", 0, FALSE)
            \/ Moved(j, "decide", Conv(j), job[j].held)
            \/ Kind[j] = "sweep" /\ Moved(j, "snooze", Conv(j), job[j].held)
<1>1. At(j, "post") /\ UNCHANGED <<cache, lock, late, beside>> BY DEF PostLabels
<1>2. job[j].read \in SUBSET Labels /\ job[j].label \in SUBSET StageSet
      /\ faults \in 0 .. MaxFaults /\ raced \in BOOLEAN
  BY Bounds DEF JobType, Typed
<1> DEFINE R == job[j].read
<1>3. CASE Write(j, R \cup {Escalado}, "done") \/ Write(j, R \cup {Sismo}, "done")
  BY <1>1, <1>2, <1>3, Written, WriteDoes
<1>4. CASE \E s \in States : Write(j, WithStatus(R, s), "done")
  BY <1>1, <1>2, <1>4, Written, WriteDoes
<1>5. CASE \E s \in job[j].label : Write(j, WithStage(R, s), "decide")
  BY <1>1, <1>2, <1>5, Written, WriteDoes
<1>6. CASE Kind[j] = "sweep" /\ Write(j, R \cup {Silent}, "snooze")
  BY <1>1, <1>2, <1>6, Written, WriteDoes
<1>7. CASE /\ Goto(j, "done") \/ Goto(j, "decide")
           /\ UNCHANGED <<threads, raced>> /\ faults' \in 0 .. MaxFaults
  <2>1. Relabelled BY <1>7, Same
  <2>2. CASE Goto(j, "done")
    <3>1. job' = [job EXCEPT ![j] = Done] BY <2>2 DEF Goto
    <3> QED BY <1>1, <1>2, <1>7, <2>1, <3>1, Ended DEF Typed
  <2>3. CASE Goto(j, "decide")
    <3>1. job' = [job EXCEPT ![j].at = "decide"] BY <2>3 DEF Goto
    <3>2. "decide" \in Places BY DEF Places
    <3> QED BY <1>1, <1>2, <1>7, <2>1, <3>1, <3>2, GoesOn DEF Typed, Conv
  <2> QED BY <1>7, <2>2, <2>3
<1>8. Fault => faults' \in 0 .. MaxFaults BY Bounds DEF Fault, Typed
<1> QED BY <1>2, <1>3, <1>4, <1>5, <1>6, <1>7, <1>8 DEF PostLabels

LEMMA SweepDoes ==
  ASSUME Typed, NEW j \in Jobs, Sweep(j)
  PROVE  /\ At(j, "todo") /\ UNCHANGED <<threads, cache, lock, faults, late, beside, raced>>
         /\ job' \in [Jobs -> JobType] /\ \A i \in Jobs \ {j} : job'[i] = job[i]
         /\ job'[j].at = "decide" /\ job'[j].conv = job[j].conv
         /\ job'[j].left \subseteq Threads
<1>1. At(j, "todo") /\ UNCHANGED <<threads, cache, lock, faults, late, beside, raced>>
  BY DEF Sweep, ghosts
<1> DEFINE list == [c \in Ids |-> IF Kind[j] = "sync" /\ c \in Listed(j)
                                  THEN threads[c].labels ELSE {}]
<1>2. Listed(j) \subseteq Threads BY DEF Listed
<1>3. list \in Known BY <1>2, Bounds DEF Known, Threads, Thread
<1>4. Listed(j) \in SUBSET Ids BY <1>2, Bounds DEF Threads, Ids
<1>5. "decide" \in Places BY DEF Places
<1>6. job' = [job EXCEPT ![j].at = "decide", ![j].left = Listed(j), ![j].list = list] BY DEF Sweep
<1> HIDE DEF list
<1> QED BY <1>1, <1>2, <1>3, <1>4, <1>5, <1>6 DEF JobType, Typed

LEMMA NextListedDoes ==
  ASSUME Typed, NEW j \in Jobs, NextListed(j)
  PROVE  /\ At(j, "decide") /\ UNCHANGED <<threads, cache, lock, faults, late, beside, raced>>
         /\ \/ Moved(j, "done", 0, FALSE)
            \/ \E c \in Threads : \/ Moved(j, "decide", c, job[j].held)
                                  \/ Kind[j] = "sweep" /\ Moved(j, "messages", c, job[j].held)
                                  \/ Kind[j] = "sync" /\ Moved(j, "get", c, job[j].held)
<1>1. At(j, "decide") /\ UNCHANGED <<threads, cache, lock, faults, late, beside, raced>>
  BY DEF NextListed, ghosts
<1>2. ASSUME NEW c \in job[j].left, NEW p \in Places, NEW l \in SUBSET StageSet,
             job' = [job EXCEPT ![j].at = p, ![j].conv = c, ![j].label = l, ![j].left = @ \ {c}]
      PROVE  c \in Threads /\ Moved(j, p, c, job[j].held)
  <2>1. c \in Threads /\ c \in Ids BY Bounds DEF JobOK, Threads, Ids
  <2>2. PICK rest \in SUBSET Ids : rest = job[j].left \ {c} BY Bounds DEF JobType
  <2>3. job' = [job EXCEPT ![j].at = p, ![j].conv = c, ![j].label = l, ![j].left = rest]
    BY <1>2, <2>2 DEF Typed, JobType
  <2> QED BY <2>1, <2>2, <2>3, <1>2 DEF Moved, JobType, Typed
<1>3. CASE Goto(j, "done")
  <2>1. job' = [job EXCEPT ![j] = Done] BY <1>3 DEF Goto
  <2> QED BY <1>1, <2>1, Ended DEF Typed
<1>4. CASE \E c \in job[j].left :
        \/ job' = [job EXCEPT ![j].at = "decide", ![j].conv = c, ![j].label = {}, ![j].left = @ \ {c}]
        \/ /\ Kind[j] = "sweep"
           /\ job' = [job EXCEPT ![j].at = "messages", ![j].conv = c, ![j].label = {}, ![j].left = @ \ {c}]
        \/ /\ Kind[j] = "sync"
           /\ \E i \in 1 .. Len(Stages) :
                job' = [job EXCEPT ![j].at = "get", ![j].conv = c, ![j].label = {Stages[i]}, ![j].left = @ \ {c}]
  <2>1. \A i \in 1 .. Len(Stages) : {Stages[i]} \in SUBSET StageSet BY DEF StageSet
  <2>2. {} \in SUBSET StageSet /\ {"decide", "messages", "get"} \subseteq Places BY DEF Places
  <2> QED BY <1>1, <1>2, <1>4, <2>1, <2>2
<1> QED BY <1>3, <1>4 DEF NextListed

LEMMA ListMessagesDoes ==
  ASSUME Typed, NEW j \in Jobs, ListMessages(j)
  PROVE  /\ At(j, "messages") /\ UNCHANGED <<threads, cache, lock, faults, late, beside, raced>>
         /\ \/ Moved(j, "decide", Conv(j), job[j].held)
            \/ ~threads[Conv(j)].answered /\ Moved(j, "get", Conv(j), job[j].held)
<1>1. At(j, "messages") /\ UNCHANGED <<threads, cache, lock, faults, late, beside, raced>>
  BY DEF ListMessages, ghosts
<1>2. "decide" \in Places /\ "get" \in Places BY DEF Places
<1>3. CASE Answered(Conv(j))
  <2>1. job' = [job EXCEPT ![j].at = "decide"] BY <1>3 DEF ListMessages, Goto
  <2> QED BY <1>1, <1>2, <2>1, GoesOn DEF Typed, Conv
<1>4. CASE ~Answered(Conv(j))
  <2>1. job' = [job EXCEPT ![j].at = "get"] BY <1>4 DEF ListMessages, Goto
  <2> QED BY <1>1, <1>2, <1>4, <2>1, GoesOn DEF Typed, Conv, Answered
<1> QED BY <1>3, <1>4

LEMMA SnoozeDoes ==
  ASSUME Typed, NEW j \in Jobs, Snooze(j)
  PROVE  /\ At(j, "snooze") /\ UNCHANGED <<cache, lock, late, beside>>
         /\ faults' \in 0 .. MaxFaults /\ raced' \in BOOLEAN /\ (raced => raced')
         /\ Moved(j, "decide", Conv(j), job[j].held)
         /\ threads' \in Seq(Thread) /\ Len(threads') = Len(threads)
         /\ \A c \in Threads :
              /\ threads'[c].answered = threads[c].answered
              /\ c # Conv(j) => threads'[c] = threads[c]
              /\ threads'[c] # threads[c] => raced' \/ threads[c].status # "resolved"
<1>1. At(j, "snooze") /\ UNCHANGED <<cache, lock, late, beside>> BY DEF Snooze
<1>2. Moved(j, "decide", Conv(j), job[j].held)
  <2>1. job' = [job EXCEPT ![j].at = "decide"] BY DEF Snooze, Goto
  <2>2. "decide" \in Places BY DEF Places
  <2> QED BY <2>1, <2>2, GoesOn DEF Typed, Conv
<1>3. CASE Fault /\ UNCHANGED <<threads, raced>>
  <2>1. faults' \in 0 .. MaxFaults BY <1>3, Bounds DEF Fault, Typed
  <2> QED BY <1>1, <1>2, <1>3, <2>1, Bounds DEF Typed, Threads
<1>4. CASE /\ threads' = [threads EXCEPT ![Conv(j)].status = "snoozed"]
           /\ raced' = (raced \/ ~Live(Conv(j)))
           /\ UNCHANGED faults
  <2>1. Conv(j) \in 1 .. Len(threads) BY <1>1, HasThread DEF At, Using, Threads
  <2>2. PICK t \in Thread : t = [threads[Conv(j)] EXCEPT !.status = "snoozed"]
    BY <2>1, Bounds DEF Thread
  <2>3. t.answered = threads[Conv(j)].answered BY <2>1, <2>2, Bounds DEF Thread
  <2>4. threads' = [threads EXCEPT ![Conv(j)] = t] BY <1>4, <2>1, <2>2, Bounds DEF Thread
  <2>5. /\ threads' \in Seq(Thread) /\ Len(threads') = Len(threads)
        /\ \A d \in 1 .. Len(threads) : threads'[d] = IF d = Conv(j) THEN t ELSE threads[d]
    BY <2>1, <2>4, Changed DEF Typed
  <2>6. raced' \in BOOLEAN /\ (raced => raced') /\ (raced' \/ threads[Conv(j)].status # "resolved")
    BY <1>4, Zenon DEF Typed, Live
  <2>7. faults' \in 0 .. MaxFaults BY <1>4 DEF Typed
  <2> QED BY <1>1, <1>2, <2>1, <2>3, <2>5, <2>6, <2>7 DEF Threads
<1> QED BY <1>3, <1>4 DEF Snooze

LEMMA ResolveDoes ==
  ASSUME Typed, NEW c \in Threads, Resolve(c)
  PROVE  /\ UNCHANGED <<cache, lock, job, faults, late, beside, raced>>
         /\ threads' \in Seq(Thread) /\ Len(threads') = Len(threads)
         /\ \A d \in Threads : /\ threads'[d].answered = threads[d].answered
                               /\ threads'[d] = threads[d] \/ threads'[d].status = "resolved"
<1>1. UNCHANGED <<cache, lock, job, faults, late, beside, raced>> BY DEF Resolve, ghosts
<1>2. PICK t \in Thread : t = [threads[c] EXCEPT !.status = "resolved"]
  BY Bounds DEF Thread, Threads
<1>3. t.answered = threads[c].answered /\ t.status = "resolved"
  BY <1>2, Bounds DEF Thread, Threads
<1>4. threads' = [threads EXCEPT ![c] = t] BY <1>2, Bounds DEF Thread, Threads, Resolve
<1>5. c \in 1 .. Len(threads) /\ threads \in Seq(Thread) /\ t \in Thread BY DEF Threads, Typed
<1>6. /\ threads' \in Seq(Thread) /\ Len(threads') = Len(threads)
      /\ \A d \in 1 .. Len(threads) : threads'[d] = IF d = c THEN t ELSE threads[d]
  BY ONLY <1>4, <1>5, Changed
<1> QED BY <1>1, <1>3, <1>6 DEF Threads

LEMMA AgentMovesDoes ==
  ASSUME Typed, NEW c \in Threads, AgentMoves(c)
  PROVE  Relabelled /\ UNCHANGED <<cache, lock, job, faults, late, beside, raced>>
<1>1. UNCHANGED <<cache, lock, job, faults, late, beside, raced>> BY DEF AgentMoves, ghosts
<1>2. PICK i \in 1 .. Len(Stages) :
        threads' = [threads EXCEPT ![c].labels = (@ \ StageSet) \cup {Stages[i]}]
  BY DEF AgentMoves
<1>3. threads[c].labels \in SUBSET Labels BY Bounds DEF Thread, Threads
<1>4. PICK l \in SUBSET Labels : l = (threads[c].labels \ StageSet) \cup {Stages[i]}
  BY <1>3 DEF Labels, StageSet
<1>5. threads' = [threads EXCEPT ![c].labels = l] BY <1>2, <1>4, Bounds DEF Threads
<1> QED BY <1>1, <1>5, Relabels

LEMMA CacheExpiresDoes ==
  ASSUME Typed, CacheExpires
  PROVE  UNCHANGED <<threads, lock, job, faults, late, beside, raced>> /\ cache' = 0
  BY DEF CacheExpires, ghosts

LEMMA LockExpiresDoes ==
  ASSUME Typed, LockExpires
  PROVE  /\ UNCHANGED <<threads, cache, job, faults, beside, raced>>
         /\ lock' = FALSE /\ late' = (late \/ \E j \in Jobs : job[j].held)
  BY DEF LockExpires

-----------------------------------------------------------------------------
(* Types *)

\* Nothing but the threads moves.
LEMMA ThreadsMove ==
  ASSUME Typed, UNCHANGED <<job, faults, beside, raced>>, late' \in BOOLEAN, lock' \in BOOLEAN,
         cache' \in 0 .. Len(threads), threads' \in Seq(Thread), Len(threads') = Len(threads)
  PROVE  Typed'
  BY DEF Typed

LEMMA TypedInit == ASSUME Init PROVE Typed
<1>1. Nothing \in Known BY DEF Known, Nothing
<1>2. 0 \in Ids /\ MaxThreads \in Nat /\ MaxFaults \in Nat BY BoundsAssumption DEF Ids
<1>3. NewJob \in JobType /\ NewJob.conv = 0 /\ NewJob.left = {} /\ NewJob.at = "todo"
  BY <1>1, <1>2 DEF NewJob, JobType, Places
<1>4. threads = <<>> /\ Len(threads) = 0 /\ threads \in Seq(Thread) BY DEF Init
<1>5. \A j \in Jobs : JobOK(NewJob, j, 0) BY <1>3 DEF JobOK, Using, Section
<1>6. job \in [Jobs -> JobType] /\ \A j \in Jobs : job[j] = NewJob BY <1>3 DEF Init
<1>7. Flags BY Zenon DEF Init, Flags
<1>8. threads \in Seq(Thread) /\ Len(threads) <= MaxThreads /\ cache \in 0 .. Len(threads)
      /\ faults \in 0 .. MaxFaults
  BY <1>2, <1>4 DEF Init
<1>9. \A j \in Jobs : JobOK(job[j], j, Len(threads)) BY <1>4, <1>5, <1>6
<1> QED BY <1>6, <1>7, <1>8, <1>9 DEF Typed, Flags

\* What the types say of a job.
LEMMA JobFacts ==
  ASSUME Typed, NEW j \in Jobs
  PROVE  /\ threads \in Seq(Thread) /\ Len(threads) <= MaxThreads /\ Len(threads) \in Nat
         /\ cache \in 0 .. Len(threads)
         /\ faults \in 0 .. MaxFaults
         /\ Conv(j) \in 0 .. Len(threads)
         /\ job[j].at \in Using => Conv(j) # 0
         /\ job[j].at \in {"messages", "snooze"} => Kind[j] = "sweep"
         /\ job[j].at \in Section \cup {"lock", "poll"} => Kind[j] \in Finds
<1>1. JobOK(job[j], j, Len(threads)) /\ Len(threads) \in Nat BY Bounds
<1> QED BY <1>1 DEF Typed, JobOK, Conv

LEMMA TypedFlags == Typed => Flags
  BY DEF Typed, Flags

LEMMA TypedJob ==
  ASSUME Typed, NEW j \in Jobs,
         \/ Start(j) \/ Acquire(j) \/ Poll(j) \/ Recheck(j) \/ Find(j) \/ Create(j) \/ Keep(j)
         \/ Unlock(j) \/ Mirror(j) \/ GetLabels(j) \/ PostLabels(j)
         \/ Sweep(j) \/ NextListed(j) \/ ListMessages(j) \/ Snooze(j)
  PROVE  Typed'
<1>1. CASE Start(j)
  <2>1. RestTyped
    <3>1. Flags'
      <4>1. lock' \in BOOLEAN BY <1>1, TypedFlags, Zenon DEF Flags, Start, Enters
      <4>2. late' \in BOOLEAN BY <1>1, TypedFlags, Zenon DEF Flags, Start, Enters
      <4>3. beside' \in BOOLEAN BY <1>1, TypedFlags, Zenon DEF Flags, Start, Enters
      <4>4. raced' \in BOOLEAN BY <1>1, TypedFlags, Zenon DEF Flags, Start, Enters
      <4> QED BY <4>1, <4>2, <4>3, <4>4 DEF Flags
    <3>2. Numbers
      <4>1. UNCHANGED <<threads, cache, faults>>
        BY <1>1, StartDoes
      <4> QED BY <4>1, JobFacts DEF Numbers
    <3> QED BY <3>1, <3>2 DEF RestTyped
  <2>2. /\ (cache # 0 => Fits(j, "get", cache, Len(threads)))
        /\ Fits(j, "lock", Conv(j), Len(threads))
        /\ Fits(j, "find", Conv(j), Len(threads))
    BY <1>1, JobFacts, StartDoes DEF Fits, Using, Section, At, Threads
  <2> QED BY <1>1, <2>1, <2>2, StartDoes, JobMoves
<1>2. CASE Acquire(j)
  <2>1. RestTyped
    <3>1. Flags'
      <4>1. lock' \in BOOLEAN BY <1>2, TypedFlags, Zenon DEF Flags, Acquire, Enters
      <4>2. late' \in BOOLEAN BY <1>2, TypedFlags, Zenon DEF Flags, Acquire, Enters
      <4>3. beside' \in BOOLEAN BY <1>2, TypedFlags, Zenon DEF Flags, Acquire, Enters
      <4>4. raced' \in BOOLEAN BY <1>2, TypedFlags, Zenon DEF Flags, Acquire, Enters
      <4> QED BY <4>1, <4>2, <4>3, <4>4 DEF Flags
    <3>2. Numbers
      <4>1. UNCHANGED <<threads, cache>> /\ faults' \in 0 .. MaxFaults
        BY <1>2, AcquireDoes
      <4> QED BY <4>1, JobFacts DEF Numbers
    <3> QED BY <3>1, <3>2 DEF RestTyped
  <2>2. /\ Fits(j, "recheck", Conv(j), Len(threads))
        /\ Fits(j, "poll", Conv(j), Len(threads))
    BY <1>2, JobFacts, AcquireDoes DEF Fits, Using, Section, At, Threads
  <2> QED BY <1>2, <2>1, <2>2, AcquireDoes, JobMoves
<1>3. CASE Poll(j)
  <2>1. RestTyped
    <3>1. Flags'
      <4>1. lock' \in BOOLEAN BY <1>3, TypedFlags, Zenon DEF Flags, Poll, Enters
      <4>2. late' \in BOOLEAN BY <1>3, TypedFlags, Zenon DEF Flags, Poll, Enters
      <4>3. beside' \in BOOLEAN BY <1>3, TypedFlags, Zenon DEF Flags, Poll, Enters
      <4>4. raced' \in BOOLEAN BY <1>3, TypedFlags, Zenon DEF Flags, Poll, Enters
      <4> QED BY <4>1, <4>2, <4>3, <4>4 DEF Flags
    <3>2. Numbers
      <4>1. UNCHANGED <<threads, cache, faults>>
        BY <1>3, PollDoes
      <4> QED BY <4>1, JobFacts DEF Numbers
    <3> QED BY <3>1, <3>2 DEF RestTyped
  <2>2. /\ (cache # 0 => Fits(j, "get", cache, Len(threads)))
        /\ Fits(j, "recheck", Conv(j), Len(threads))
    BY <1>3, JobFacts, PollDoes DEF Fits, Using, Section, At, Threads
  <2> QED BY <1>3, <2>1, <2>2, PollDoes, JobMoves
<1>4. CASE Recheck(j)
  <2>1. RestTyped
    <3>1. Flags'
      <4>1. lock' \in BOOLEAN BY <1>4, TypedFlags, Zenon DEF Flags, Recheck, ghosts
      <4>2. late' \in BOOLEAN BY <1>4, TypedFlags, Zenon DEF Flags, Recheck, ghosts
      <4>3. beside' \in BOOLEAN BY <1>4, TypedFlags, Zenon DEF Flags, Recheck, ghosts
      <4>4. raced' \in BOOLEAN BY <1>4, TypedFlags, Zenon DEF Flags, Recheck, ghosts
      <4> QED BY <4>1, <4>2, <4>3, <4>4 DEF Flags
    <3>2. Numbers BY <1>4, JobFacts, RecheckDoes DEF Numbers
    <3> QED BY <3>1, <3>2 DEF RestTyped
  <2>2. /\ Fits(j, "unlock", cache, Len(threads))
        /\ Fits(j, "find", cache, Len(threads))
    BY <1>4, JobFacts, RecheckDoes DEF Fits, Using, Section, At, Threads
  <2> QED BY <1>4, <2>1, <2>2, RecheckDoes, JobMoves
<1>5. CASE Find(j)
  <2>1. RestTyped
    <3>1. Flags'
      <4>1. lock' \in BOOLEAN BY <1>5, TypedFlags, Zenon DEF Flags, Find, ghosts
      <4>2. late' \in BOOLEAN BY <1>5, TypedFlags, Zenon DEF Flags, Find, ghosts
      <4>3. beside' \in BOOLEAN BY <1>5, TypedFlags, Zenon DEF Flags, Find, ghosts
      <4>4. raced' \in BOOLEAN BY <1>5, TypedFlags, Zenon DEF Flags, Find, ghosts
      <4> QED BY <4>1, <4>2, <4>3, <4>4 DEF Flags
    <3>2. Numbers
      <4>1. UNCHANGED <<threads, cache>> /\ faults' \in 0 .. MaxFaults
        BY <1>5, FindDoes
      <4> QED BY <4>1, JobFacts DEF Numbers
    <3> QED BY <3>1, <3>2 DEF RestTyped
  <2>2. /\ (\A c \in Threads : Fits(j, "keep", c, Len(threads)))
        /\ Fits(j, "create", Conv(j), Len(threads))
        /\ Fits(j, "unlock", Conv(j), Len(threads))
    <3>1. At(j, "find") BY <1>5, FindDoes
    <3>2. Conv(j) \in 0 .. Len(threads) /\ Len(threads) \in Nat /\ Kind[j] \in Finds
      BY <3>1, JobFacts DEF At, Section
    <3> QED BY <3>2 DEF Fits, Using, Section, Threads
  <2> QED BY <1>5, <2>1, <2>2, FindDoes, JobMoves
<1>6. CASE Create(j)
  <2>1. RestTyped
    <3>1. Flags'
      <4>1. lock' \in BOOLEAN BY <1>6, TypedFlags, Zenon DEF Flags, Create, ghosts
      <4>2. late' \in BOOLEAN BY <1>6, TypedFlags, Zenon DEF Flags, Create, ghosts
      <4>3. beside' \in BOOLEAN BY <1>6, TypedFlags, Zenon DEF Flags, Create, ghosts
      <4>4. raced' \in BOOLEAN BY <1>6, TypedFlags, Zenon DEF Flags, Create, ghosts
      <4> QED BY <4>1, <4>2, <4>3, <4>4 DEF Flags
    <3>2. Numbers
      <4>1. /\ threads' \in Seq(Thread) /\ Len(threads') <= MaxThreads /\ UNCHANGED cache
          /\ faults' \in 0 .. MaxFaults /\ (Len(threads') = Len(threads) + 1 \/ UNCHANGED threads)
        BY <1>6, CreateDoes
      <4> QED BY <4>1, JobFacts DEF Numbers
    <3> QED BY <3>1, <3>2 DEF RestTyped
  <2>2. /\ (Len(threads') = Len(threads) + 1 => Fits(j, "keep", Len(threads'), Len(threads')))
        /\ (UNCHANGED threads => Fits(j, "unlock", Conv(j), Len(threads')))
    <3>1. At(j, "create") BY <1>6, CreateDoes
    <3>2. Conv(j) \in 0 .. Len(threads) /\ Len(threads) \in Nat /\ Kind[j] \in Finds
      BY <3>1, JobFacts DEF At, Section
    <3> QED BY <3>2, <2>1 DEF Fits, Using, Section, Threads, RestTyped, Numbers
  <2> QED BY <1>6, <2>1, <2>2, CreateDoes, JobMoves
<1>7. CASE Keep(j)
  <2>1. RestTyped
    <3>1. Flags'
      <4>1. lock' \in BOOLEAN BY <1>7, TypedFlags, Zenon DEF Flags, Keep, ghosts
      <4>2. late' \in BOOLEAN BY <1>7, TypedFlags, Zenon DEF Flags, Keep, ghosts
      <4>3. beside' \in BOOLEAN BY <1>7, TypedFlags, Zenon DEF Flags, Keep, ghosts
      <4>4. raced' \in BOOLEAN BY <1>7, TypedFlags, Zenon DEF Flags, Keep, ghosts
      <4> QED BY <4>1, <4>2, <4>3, <4>4 DEF Flags
    <3>2. Numbers BY <1>7, JobFacts, KeepDoes DEF Numbers
    <3> QED BY <3>1, <3>2 DEF RestTyped
  <2>2. Fits(j, "unlock", Conv(j), Len(threads))
    BY <1>7, JobFacts, KeepDoes DEF Fits, Using, Section, At, Threads
  <2> QED BY <1>7, <2>1, <2>2, KeepDoes, JobMoves
<1>8. CASE Unlock(j)
  <2>1. RestTyped
    <3>1. Flags'
      <4>1. lock' \in BOOLEAN BY <1>8, TypedFlags, Zenon DEF Flags, Unlock, ghosts
      <4>2. late' \in BOOLEAN BY <1>8, TypedFlags, Zenon DEF Flags, Unlock, ghosts
      <4>3. beside' \in BOOLEAN BY <1>8, TypedFlags, Zenon DEF Flags, Unlock, ghosts
      <4>4. raced' \in BOOLEAN BY <1>8, TypedFlags, Zenon DEF Flags, Unlock, ghosts
      <4> QED BY <4>1, <4>2, <4>3, <4>4 DEF Flags
    <3>2. Numbers
      <4>1. UNCHANGED <<threads, cache, faults>>
        BY <1>8, UnlockDoes
      <4> QED BY <4>1, JobFacts DEF Numbers
    <3> QED BY <3>1, <3>2 DEF RestTyped
  <2>2. /\ Fits(j, "done", 0, Len(threads))
        /\ (Conv(j) # 0 => \A p \in {"use", "get"} : Fits(j, p, Conv(j), Len(threads)))
    BY <1>8, JobFacts, UnlockDoes DEF Fits, Using, Section, At, Threads
  <2> QED BY <1>8, <2>1, <2>2, UnlockDoes, JobMoves
<1>9. CASE Mirror(j)
  <2>1. RestTyped
    <3>1. Flags'
      <4>1. lock' \in BOOLEAN BY <1>9, TypedFlags, Zenon DEF Flags, Mirror, ghosts
      <4>2. late' \in BOOLEAN BY <1>9, TypedFlags, Zenon DEF Flags, Mirror, ghosts
      <4>3. beside' \in BOOLEAN BY <1>9, TypedFlags, Zenon DEF Flags, Mirror, ghosts
      <4>4. raced' \in BOOLEAN BY <1>9, TypedFlags, Zenon DEF Flags, Mirror, ghosts
      <4> QED BY <4>1, <4>2, <4>3, <4>4 DEF Flags
    <3>2. Numbers
      <4>1. UNCHANGED <<cache, faults>> /\ threads' \in Seq(Thread) /\ Len(threads') = Len(threads)
        BY <1>9, MirrorDoes
      <4> QED BY <4>1, JobFacts DEF Numbers
    <3> QED BY <3>1, <3>2 DEF RestTyped
  <2>2. Fits(j, "done", 0, Len(threads))
    BY <1>9, JobFacts, MirrorDoes DEF Fits, Using, Section, At, Threads
  <2>3. Len(threads') = Len(threads) BY <1>9, MirrorDoes DEF Relabelled
  <2> QED BY <1>9, <2>1, <2>2, <2>3, MirrorDoes, JobMoves
<1>10. CASE GetLabels(j)
  <2>1. RestTyped
    <3>1. Flags'
      <4>1. lock' \in BOOLEAN BY <1>10, TypedFlags, Zenon DEF Flags, GetLabels, ghosts
      <4>2. late' \in BOOLEAN BY <1>10, TypedFlags, Zenon DEF Flags, GetLabels, ghosts
      <4>3. beside' \in BOOLEAN BY <1>10, TypedFlags, Zenon DEF Flags, GetLabels, ghosts
      <4>4. raced' \in BOOLEAN BY <1>10, TypedFlags, Zenon DEF Flags, GetLabels, ghosts
      <4> QED BY <4>1, <4>2, <4>3, <4>4 DEF Flags
    <3>2. Numbers
      <4>1. UNCHANGED <<threads, cache>> /\ faults' \in 0 .. MaxFaults
        BY <1>10, GetLabelsDoes
      <4> QED BY <4>1, JobFacts DEF Numbers
    <3> QED BY <3>1, <3>2 DEF RestTyped
  <2>2. /\ Fits(j, "done", 0, Len(threads))
        /\ Fits(j, "post", Conv(j), Len(threads))
    <3>1. At(j, "get") BY <1>10, GetLabelsDoes
    <3>2. Conv(j) \in 0 .. Len(threads) /\ Len(threads) \in Nat /\ Conv(j) # 0
      BY <3>1, JobFacts DEF At, Using
    <3> QED BY <3>2 DEF Fits, Using, Section, Threads
  <2> QED BY <1>10, <2>1, <2>2, GetLabelsDoes, JobMoves
<1>11. CASE PostLabels(j)
  <2>1. RestTyped
    <3>1. Flags'
      <4>1. lock' \in BOOLEAN BY <1>11, TypedFlags, Zenon DEF Flags, PostLabels, Write, ghosts
      <4>2. late' \in BOOLEAN BY <1>11, TypedFlags, Zenon DEF Flags, PostLabels, Write, ghosts
      <4>3. beside' \in BOOLEAN BY <1>11, TypedFlags, Zenon DEF Flags, PostLabels, Write, ghosts
      <4>4. raced' \in BOOLEAN BY <1>11, TypedFlags, Zenon DEF Flags, PostLabels, Write, ghosts
      <4> QED BY <4>1, <4>2, <4>3, <4>4 DEF Flags
    <3>2. Numbers
      <4>1. UNCHANGED cache /\ faults' \in 0 .. MaxFaults /\ Relabelled
        BY <1>11, PostLabelsDoes
      <4> QED BY <4>1, JobFacts DEF Numbers, Relabelled
    <3> QED BY <3>1, <3>2 DEF RestTyped
  <2>2. /\ Fits(j, "done", 0, Len(threads))
        /\ Fits(j, "decide", Conv(j), Len(threads))
        /\ (Kind[j] = "sweep" => Fits(j, "snooze", Conv(j), Len(threads)))
    <3>1. At(j, "post") BY <1>11, PostLabelsDoes
    <3>2. Conv(j) \in 0 .. Len(threads) /\ Len(threads) \in Nat /\ Conv(j) # 0
      BY <3>1, JobFacts DEF At, Using
    <3> QED BY <3>2 DEF Fits, Using, Section, Threads
  <2>3. Len(threads') = Len(threads) BY <1>11, PostLabelsDoes DEF Relabelled
  <2> QED BY <1>11, <2>1, <2>2, <2>3, PostLabelsDoes, JobMoves
<1>12. CASE NextListed(j)
  <2>1. RestTyped
    <3>1. Flags'
      <4>1. lock' \in BOOLEAN BY <1>12, TypedFlags, Zenon DEF Flags, NextListed, ghosts
      <4>2. late' \in BOOLEAN BY <1>12, TypedFlags, Zenon DEF Flags, NextListed, ghosts
      <4>3. beside' \in BOOLEAN BY <1>12, TypedFlags, Zenon DEF Flags, NextListed, ghosts
      <4>4. raced' \in BOOLEAN BY <1>12, TypedFlags, Zenon DEF Flags, NextListed, ghosts
      <4> QED BY <4>1, <4>2, <4>3, <4>4 DEF Flags
    <3>2. Numbers
      <4>1. UNCHANGED <<threads, cache, faults>>
        BY <1>12, NextListedDoes
      <4> QED BY <4>1, JobFacts DEF Numbers
    <3> QED BY <3>1, <3>2 DEF RestTyped
  <2>2. /\ Fits(j, "done", 0, Len(threads))
        /\ (\A c \in Threads : \A p \in {"decide", "get"} : Fits(j, p, c, Len(threads)))
        /\ (Kind[j] = "sweep" => \A c \in Threads : Fits(j, "messages", c, Len(threads)))
    BY <1>12, JobFacts, NextListedDoes DEF Fits, Using, Section, At, Threads
  <2> QED BY <1>12, <2>1, <2>2, NextListedDoes, JobMoves
<1>13. CASE ListMessages(j)
  <2>1. RestTyped
    <3>1. Flags'
      <4>1. lock' \in BOOLEAN BY <1>13, TypedFlags, Zenon DEF Flags, ListMessages, ghosts
      <4>2. late' \in BOOLEAN BY <1>13, TypedFlags, Zenon DEF Flags, ListMessages, ghosts
      <4>3. beside' \in BOOLEAN BY <1>13, TypedFlags, Zenon DEF Flags, ListMessages, ghosts
      <4>4. raced' \in BOOLEAN BY <1>13, TypedFlags, Zenon DEF Flags, ListMessages, ghosts
      <4> QED BY <4>1, <4>2, <4>3, <4>4 DEF Flags
    <3>2. Numbers BY <1>13, JobFacts, ListMessagesDoes DEF Numbers
    <3> QED BY <3>1, <3>2 DEF RestTyped
  <2>2. /\ Fits(j, "decide", Conv(j), Len(threads))
        /\ Fits(j, "get", Conv(j), Len(threads))
    BY <1>13, JobFacts, ListMessagesDoes DEF Fits, Using, Section, At, Threads
  <2> QED BY <1>13, <2>1, <2>2, ListMessagesDoes, JobMoves
<1>14. CASE Snooze(j)
  <2>1. RestTyped
    <3>1. Flags'
      <4>1. lock' \in BOOLEAN BY <1>14, TypedFlags, Zenon DEF Flags, Snooze, ghosts
      <4>2. late' \in BOOLEAN BY <1>14, TypedFlags, Zenon DEF Flags, Snooze, ghosts
      <4>3. beside' \in BOOLEAN BY <1>14, TypedFlags, Zenon DEF Flags, Snooze, ghosts
      <4>4. raced' \in BOOLEAN BY <1>14, TypedFlags, Zenon DEF Flags, Snooze, ghosts
      <4> QED BY <4>1, <4>2, <4>3, <4>4 DEF Flags
    <3>2. Numbers BY <1>14, JobFacts, SnoozeDoes DEF Numbers
    <3> QED BY <3>1, <3>2 DEF RestTyped
  <2>2. Fits(j, "decide", Conv(j), Len(threads))
    BY <1>14, JobFacts, SnoozeDoes DEF Fits, Using, Section, At, Threads
  <2>3. Len(threads') = Len(threads) BY <1>14, SnoozeDoes DEF Relabelled
  <2> QED BY <1>14, <2>1, <2>2, <2>3, SnoozeDoes, JobMoves
<1>15. CASE Sweep(j)
  <2>1. RestTyped
    <3>1. Flags'
      <4>1. lock' \in BOOLEAN BY <1>15, TypedFlags, Zenon DEF Flags, Sweep, ghosts
      <4>2. late' \in BOOLEAN BY <1>15, TypedFlags, Zenon DEF Flags, Sweep, ghosts
      <4>3. beside' \in BOOLEAN BY <1>15, TypedFlags, Zenon DEF Flags, Sweep, ghosts
      <4>4. raced' \in BOOLEAN BY <1>15, TypedFlags, Zenon DEF Flags, Sweep, ghosts
      <4> QED BY <4>1, <4>2, <4>3, <4>4 DEF Flags
    <3>2. Numbers BY <1>15, JobFacts, SweepDoes DEF Numbers
    <3> QED BY <3>1, <3>2 DEF RestTyped
  <2>2. JobOK(job'[j], j, Len(threads))
    BY <1>15, SweepDoes, JobFacts DEF JobOK, Using, Section, Conv, Threads
  <2>3. \A i \in Jobs : JobOK(job'[i], i, Len(threads)) BY <1>15, <2>2, SweepDoes, Bounds
  <2> QED BY <1>15, <2>1, <2>3, SweepDoes DEF Typed, RestTyped, Numbers, Flags
<1> QED BY <1>1, <1>2, <1>3, <1>4, <1>5, <1>6, <1>7, <1>8, <1>9, <1>10, <1>11, <1>12, <1>13, <1>14, <1>15

LEMMA TypedStep ==
  ASSUME Typed, [Next]_vars
  PROVE  Typed'
<1>1. /\ threads \in Seq(Thread) /\ cache \in 0 .. Len(threads) /\ Len(threads) \in Nat
  BY LenProperties DEF Typed
<1>2. CASE \E j \in Jobs :
        \/ Start(j) \/ Acquire(j) \/ Poll(j) \/ Recheck(j) \/ Find(j) \/ Create(j) \/ Keep(j)
        \/ Unlock(j) \/ Mirror(j) \/ GetLabels(j) \/ PostLabels(j)
        \/ Sweep(j) \/ NextListed(j) \/ ListMessages(j) \/ Snooze(j)
  BY <1>2, TypedJob
<1>3. CASE \E c \in Threads : Resolve(c)
  <2>1. /\ UNCHANGED <<cache, lock, job, faults, late, beside, raced>>
        /\ threads' \in Seq(Thread) /\ Len(threads') = Len(threads)
    BY <1>3, ResolveDoes
  <2> QED BY <1>1, <2>1, ThreadsMove DEF Typed
<1>4. CASE \E c \in Threads : AgentMoves(c)
  <2>1. /\ UNCHANGED <<cache, lock, job, faults, late, beside, raced>>
        /\ threads' \in Seq(Thread) /\ Len(threads') = Len(threads)
    BY <1>4, AgentMovesDoes DEF Relabelled
  <2> QED BY <1>1, <2>1, ThreadsMove DEF Typed
<1>5. CASE CacheExpires
  BY <1>1, <1>5, CacheExpiresDoes, ThreadsMove DEF Typed
<1>6. CASE LockExpires
  <2>1. lock' \in BOOLEAN /\ late' \in BOOLEAN BY <1>6, LockExpiresDoes, Zenon
  <2> QED BY <1>1, <1>6, <2>1, LockExpiresDoes, ThreadsMove DEF Typed
<1>7. CASE UNCHANGED vars
  <2>1. UNCHANGED <<threads, cache, lock, job, faults, late, beside, raced>>
    BY <1>7 DEF vars, ghosts
  <2> QED BY <1>1, <2>1, ThreadsMove DEF Typed
<1> QED BY <1>2, <1>3, <1>4, <1>5, <1>6, <1>7 DEF Next

\* The places and values of every variable, and that a job which goes on after the
\* search has a conversation of the client.
THEOREM TypeCorrect == Spec => []TypeOK
<1>1. ASSUME Typed PROVE TypeOK
  <2>1. \A j \in Jobs : job[j].at \in {"use", "get", "post", "messages", "snooze"} => Conv(j) \in Threads
    BY <1>1, HasThread DEF Using
  <2> QED BY <1>1, <2>1 DEF Typed, TypeOK, JobType
<1>2. Spec => []Typed BY TypedInit, TypedStep, PTL DEF Spec
<1> QED BY <1>1, <1>2, PTL

-----------------------------------------------------------------------------
(* One at a time *)

\* Within the section.
LEMMA Inside ==
  ASSUME Typed, NEW j \in Jobs, Recheck(j) \/ Find(j) \/ Create(j) \/ Keep(j)
  PROVE  /\ InSection(j) /\ UNCHANGED <<lock, late, raced>> /\ (beside => beside')
         /\ \E p \in Section : /\ \E c : Moved(j, p, c, job[j].held)
                               /\ p = "create" /\ ~beside' => Found = {}
<1> USE DEF At, InSection, Section
<1>1. CASE Recheck(j) BY <1>1, RecheckDoes
<1>2. CASE Find(j) BY <1>2, FindDoes
<1>3. CASE Create(j) BY <1>3, CreateDoes
<1>4. CASE Keep(j) BY <1>4, KeepDoes
<1> QED BY <1>1, <1>2, <1>3, <1>4

\* Out of it.
LEMMA Outside ==
  ASSUME Typed, NEW j \in Jobs,
         \/ Mirror(j) \/ GetLabels(j) \/ PostLabels(j) \/ Sweep(j) \/ NextListed(j)
         \/ ListMessages(j) \/ Snooze(j)
  PROVE  /\ UNCHANGED <<lock, late, beside>> /\ \A i \in Jobs \ {j} : job'[i] = job[i]
         /\ job'[j].at \notin Section
<1> USE DEF Moved, Section
<1>1. CASE Mirror(j) BY <1>1, MirrorDoes
<1>2. CASE GetLabels(j) BY <1>2, GetLabelsDoes
<1>3. CASE PostLabels(j) BY <1>3, PostLabelsDoes
<1>4. CASE Sweep(j) BY <1>4, SweepDoes
<1>5. CASE NextListed(j) BY <1>5, NextListedDoes
<1>6. CASE ListMessages(j) BY <1>6, ListMessagesDoes
<1>7. CASE Snooze(j) BY <1>7, SnoozeDoes
<1> QED BY <1>1, <1>2, <1>3, <1>4, <1>5, <1>6, <1>7

\* Nothing of a job or the lock moves.
LEMMA Elsewhere ==
  ASSUME Typed, (\E c \in Threads : Resolve(c) \/ AgentMoves(c)) \/ CacheExpires \/ UNCHANGED vars
  PROVE  UNCHANGED <<lock, job, late, beside, raced>>
  BY ResolveDoes, AgentMovesDoes, CacheExpiresDoes DEF vars, ghosts

\* Who enters by the lock finds no other; who leaves takes the lock along.
LEMMA LockStep ==
  ASSUME Typed, LockInv, [Next]_vars
  PROVE  LockInv'
<1> USE DEF LockInv, InSection, Shares
<1>1. ASSUME NEW j \in Jobs, NEW p, NEW c, NEW h, Moved(j, p, c, h),
             p \notin Section \/ ~Shares(j), lock' = lock, late' = late
      PROVE  LockInv'
  BY <1>1 DEF Moved
<1>2. ASSUME NEW j \in Jobs, Acquire(j) PROVE LockInv'
  BY <1>2, AcquireDoes DEF Moved, Section
<1>3. ASSUME NEW j \in Jobs, Start(j) \/ Poll(j) PROVE LockInv'
  <2>1. CASE Start(j)
    <3>1. lock' = lock /\ late' = late BY <2>1, StartDoes
    <3> QED BY <1>1, <2>1, <3>1, StartDoes DEF Section
  <2>2. CASE Poll(j)
    <3>1. lock' = lock BY <2>2, PollDoes
    <3>2. CASE late' = TRUE BY <3>2
    <3>3. CASE late' = late /\ Moved(j, "get", cache, job[j].held)
      BY <1>1, <3>1, <3>3 DEF Section
    <3> QED BY <2>2, <3>2, <3>3, PollDoes
  <2> QED BY <1>3, <2>1, <2>2
<1>4. ASSUME NEW j \in Jobs, Recheck(j) \/ Find(j) \/ Create(j) \/ Keep(j) PROVE LockInv'
  BY <1>4, Inside DEF Moved
<1>5. ASSUME NEW j \in Jobs, Unlock(j) PROVE LockInv'
  BY <1>5, UnlockDoes DEF Moved, Section, At
<1>6. ASSUME NEW j \in Jobs,
             \/ Mirror(j) \/ GetLabels(j) \/ PostLabels(j) \/ Sweep(j) \/ NextListed(j)
             \/ ListMessages(j) \/ Snooze(j)
      PROVE  LockInv'
  BY <1>6, Outside
<1>7. CASE (\E c \in Threads : Resolve(c) \/ AgentMoves(c)) \/ CacheExpires \/ UNCHANGED vars
  BY <1>7, Elsewhere
<1>8. CASE LockExpires
  BY <1>8, LockExpiresDoes
<1> QED BY <1>1, <1>2, <1>3, <1>4, <1>5, <1>6, <1>7, <1>8 DEF Next

\* Two web processes' callers never look for the client's conversation at once,
\* unless the lock was outlived or done without.
THEOREM CallersTakeTurns == Spec => []OneAtATime
<1>1. Init => LockInv BY DEF Init, LockInv, InSection, Section, NewJob
<1>2. LockInv => OneAtATime BY DEF LockInv, OneAtATime
<1>3. Init => Typed BY TypedInit
<1>4. Typed /\ LockInv /\ [Next]_vars => Typed' /\ LockInv' BY TypedStep, LockStep
<1>5. Spec => [](Typed /\ LockInv) BY <1>1, <1>3, <1>4, PTL DEF Spec
<1> QED BY <1>2, <1>5, PTL

-----------------------------------------------------------------------------
(* One thread *)

\* Of both processes, at most one caller is in the section.
LEMMA SectionStep ==
  ASSUME Typed, SectionInv, [Next]_vars
  PROVE  SectionInv'
<1> USE DEF SectionInv, InSection
<1>1. ASSUME NEW j \in Jobs, NEW p \in Section, NEW c, NEW h, Enters(j, p), Moved(j, p, c, h)
      PROVE  SectionInv'
  <2>1. ~beside' => ~beside /\ \A i \in Jobs \ {j} : ~InSection(i) BY <1>1 DEF Enters
  <2> QED BY <1>1, <2>1 DEF Moved
<1>2. ASSUME NEW j \in Jobs, NEW p, NEW c, NEW h, Moved(j, p, c, h), p \notin Section, beside' = beside
      PROVE  SectionInv'
  BY <1>2 DEF Moved
<1>3. ASSUME NEW j \in Jobs, Start(j) PROVE SectionInv'
  BY <1>1, <1>2, <1>3, StartDoes DEF Section
<1>4. ASSUME NEW j \in Jobs, Acquire(j) PROVE SectionInv'
  BY <1>1, <1>2, <1>4, AcquireDoes DEF Section
<1>5. ASSUME NEW j \in Jobs, Poll(j) PROVE SectionInv'
  BY <1>1, <1>2, <1>5, PollDoes DEF Section
<1>6. ASSUME NEW j \in Jobs, Recheck(j) \/ Find(j) \/ Create(j) \/ Keep(j) PROVE SectionInv'
  BY <1>6, Inside DEF Moved
<1>7. ASSUME NEW j \in Jobs, Unlock(j) PROVE SectionInv'
  BY <1>2, <1>7, UnlockDoes DEF Section
<1>8. ASSUME NEW j \in Jobs,
             \/ Mirror(j) \/ GetLabels(j) \/ PostLabels(j) \/ Sweep(j) \/ NextListed(j)
             \/ ListMessages(j) \/ Snooze(j)
      PROVE  SectionInv'
  BY <1>8, Outside
<1>9. CASE (\E c \in Threads : Resolve(c) \/ AgentMoves(c)) \/ CacheExpires \/ UNCHANGED vars
  BY <1>9, Elsewhere
<1>10. CASE LockExpires
  BY <1>10, LockExpiresDoes
<1> QED BY <1>3, <1>4, <1>5, <1>6, <1>7, <1>8, <1>9, <1>10 DEF Next

\* No thread comes to life, and none was alive for a job that is about to create one.
LEMMA NoneRevives ==
  ASSUME Typed, LiveInv, beside => beside', raced => raced',
         Len(threads') = Len(threads),
         \A c \in Threads : threads'[c].status # "resolved" => Live(c) \/ raced',
         \A i \in Jobs : job'[i].at = "create" => job[i].at = "create" \/ beside' \/ Found = {}
  PROVE  LiveInv'
<1> SUFFICES ASSUME ~beside', ~raced'
             PROVE  /\ \A c, d \in Threads' : Live(c)' /\ Live(d)' => c = d
                    /\ \A j \in Jobs : At(j, "create")' => \A c \in Threads' : ~Live(c)'
  BY DEF LiveInv
<1>1. Threads' = Threads BY DEF Threads
<1>2. \A c \in Threads : Live(c)' => Live(c) BY DEF Live
<1>3. Found = {} => \A c \in Threads : ~Live(c) BY DEF Found, Reusable
<1> QED BY <1>1, <1>2, <1>3 DEF LiveInv, At

LEMMA LiveStep ==
  ASSUME Typed, SectionInv, LiveInv, [Next]_vars
  PROVE  LiveInv'
<1>1. ASSUME NEW j \in Jobs, Start(j) \/ Acquire(j) \/ Poll(j) PROVE LiveInv'
  <2>1. UNCHANGED <<threads, raced>> /\ (beside => beside')
    BY <1>1, StartDoes, AcquireDoes, PollDoes DEF Enters
  <2>2. \A i \in Jobs : job'[i].at = "create" => job[i].at = "create"
    BY <1>1, StartDoes, AcquireDoes, PollDoes DEF Moved
  <2> QED BY <2>1, <2>2, NoneRevives DEF Live
<1>2. ASSUME NEW j \in Jobs, Recheck(j) \/ Find(j) \/ Keep(j) PROVE LiveInv'
  <2>1. UNCHANGED threads BY <1>2, RecheckDoes, FindDoes, KeepDoes
  <2>2. UNCHANGED raced /\ (beside => beside') BY <1>2, Inside
  <2>3. \A i \in Jobs : job'[i].at = "create" => job[i].at = "create" \/ beside' \/ Found = {}
    BY <1>2, Inside DEF Moved
  <2> QED BY <2>1, <2>2, <2>3, NoneRevives DEF Live
<1>3. ASSUME NEW j \in Jobs, Create(j) PROVE LiveInv'
  <2>1. At(j, "create") /\ UNCHANGED <<beside, raced>> BY <1>3, CreateDoes
  <2>2. CASE UNCHANGED threads
    <3>1. \A i \in Jobs : job'[i].at = "create" => job[i].at = "create"
      BY <1>3, <2>1, CreateDoes DEF Moved, At
    <3> QED BY <2>1, <2>2, <3>1, NoneRevives DEF Live
  <2>3. CASE /\ Len(threads') = Len(threads) + 1
             /\ \A d \in 1 .. Len(threads) : threads'[d] = threads[d]
             /\ Moved(j, "keep", Len(threads'), job[j].held)
    <3>1. SUFFICES ASSUME ~beside, ~raced
                   PROVE  /\ \A c, d \in Threads' : Live(c)' /\ Live(d)' => c = d
                          /\ \A i \in Jobs : ~At(i, "create")'
      BY <2>1 DEF LiveInv
    <3>2. \A c \in Threads : ~Live(c) BY <2>1, <3>1 DEF LiveInv
    <3>3. \A c \in Threads' : Live(c)' => c = Len(threads')
      BY <2>3, <3>2, Bounds DEF Live, Threads
    <3>4. \A i \in Jobs \ {j} : ~InSection(i)
      BY <2>1, <3>1 DEF SectionInv, InSection, At, Section
    <3>5. \A i \in Jobs : ~At(i, "create")'
      BY <2>3, <3>4 DEF Moved, At, InSection, Section
    <3> QED BY <3>3, <3>5
  <2> QED BY <1>3, <2>2, <2>3, CreateDoes
<1>4. ASSUME NEW j \in Jobs, Unlock(j) PROVE LiveInv'
  <2>1. UNCHANGED <<threads, beside, raced>> BY <1>4, UnlockDoes
  <2>2. \A i \in Jobs : job'[i].at = "create" => job[i].at = "create"
    BY <1>4, UnlockDoes DEF Moved
  <2> QED BY <2>1, <2>2, NoneRevives DEF Live
<1>5. ASSUME NEW j \in Jobs,
             \/ Mirror(j) \/ GetLabels(j) \/ PostLabels(j) \/ Sweep(j) \/ NextListed(j)
             \/ ListMessages(j) \/ Snooze(j)
      PROVE  LiveInv'
  <2>1. \A i \in Jobs : job'[i].at = "create" => job[i].at = "create"
    BY <1>5, Outside DEF Section
  <2>2. UNCHANGED beside BY <1>5, Outside
  <2>3. /\ raced => raced' 
        /\ Len(threads') = Len(threads)
        /\ \A c \in Threads : threads'[c].status # "resolved" => Live(c) \/ raced'
    <3>1. CASE Mirror(j) BY <3>1, MirrorDoes DEF Live
    <3>2. CASE GetLabels(j) \/ Sweep(j) \/ NextListed(j) \/ ListMessages(j)
      BY <3>2, GetLabelsDoes, SweepDoes, NextListedDoes, ListMessagesDoes DEF Live
    <3>3. CASE PostLabels(j) BY <3>3, PostLabelsDoes DEF Live, Relabelled
    <3>4. CASE Snooze(j) BY <3>4, SnoozeDoes DEF Live
    <3> QED BY <1>5, <3>1, <3>2, <3>3, <3>4
  <2> QED BY <2>1, <2>2, <2>3, NoneRevives
<1>6. CASE (\E c \in Threads : Resolve(c) \/ AgentMoves(c)) \/ CacheExpires \/ UNCHANGED vars
  <2>1. /\ Len(threads') = Len(threads)
        /\ \A c \in Threads : threads'[c].status # "resolved" => Live(c)
    BY <1>6, ResolveDoes, AgentMovesDoes, CacheExpiresDoes DEF Live, Relabelled, vars
  <2> QED BY <1>6, <2>1, Elsewhere, NoneRevives
<1>7. CASE LockExpires
  BY <1>7, LockExpiresDoes, NoneRevives DEF Live
<1> QED BY <1>1, <1>2, <1>3, <1>4, <1>5, <1>6, <1>7 DEF Next

\* A set without two elements has at most one.
LEMMA AtMostOne ==
  ASSUME NEW S, \A x, y \in S : x = y
  PROVE  Cardinality(S) <= 1
<1>1. CASE S = {} BY <1>1, FS_EmptySet
<1>2. CASE S # {}
  <2>1. PICK x : S = {x} BY <1>2
  <2> QED BY <2>1, FS_Singleton
<1> QED BY <1>1, <1>2

\* A client's messages never end up in two threads, unless two processes looked for
\* its thread at once, a listing failed, or the sweep revived a resolved one.
THEOREM ThreadIsNotSplit == Spec => []OneThread
<1>1. Init => SectionInv /\ LiveInv
  BY DEF Init, SectionInv, LiveInv, InSection, Section, NewJob, At, Threads
<1>2. Typed /\ LiveInv => OneThread BY AtMostOne DEF LiveInv, OneThread
<1>3. Init => Typed BY TypedInit
<1>4. Typed /\ SectionInv /\ LiveInv /\ [Next]_vars => Typed' /\ SectionInv' /\ LiveInv'
  BY TypedStep, SectionStep, LiveStep
<1>5. Spec => [](Typed /\ SectionInv /\ LiveInv) BY <1>1, <1>3, <1>4, PTL DEF Spec
<1> QED BY <1>2, <1>5, PTL

-----------------------------------------------------------------------------
(* What the sweep hides *)

\* A job of the sweep stays with a thread it has seen unanswered.
Watching(b) == b.at \in {"get", "post", "snooze"}

\* Nobody but the jobs of the sweep matters, and those that go on watching.
LEMMA StillWatches ==
  ASSUME Typed, SweepInv, raced => raced', Len(threads) <= Len(threads'),
         \A c \in Threads : threads'[c].answered = threads[c].answered,
         \A i \in Jobs : Kind[i] = "sweep" /\ Watching(job'[i]) =>
                           Watching(job[i]) /\ job'[i].conv = job[i].conv
  PROVE  SweepInv'
<1>1. \A i \in Jobs : Watching(job[i]) => Conv(i) \in Threads BY HasThread DEF Watching, Using
<1> QED BY <1>1 DEF SweepInv, Watching, Conv

LEMMA SweepStep ==
  ASSUME Typed, SweepInv, [Next]_vars
  PROVE  SweepInv'
<1>1. Len(threads) \in Nat BY Bounds
<1>2. \A j \in Jobs : Kind[j] \in Finds => Kind[j] # "sweep" BY DEF Finds
<1>3. ASSUME NEW j \in Jobs,
             \/ Start(j) \/ Acquire(j) \/ Poll(j) \/ Recheck(j) \/ Find(j) \/ Create(j) \/ Keep(j)
             \/ Unlock(j)
      PROVE  SweepInv'
  <2>1. Kind[j] # "sweep" /\ \A i \in Jobs \ {j} : job'[i] = job[i]
    <3>1. Kind[j] \in Finds
      BY <1>3, JobFacts, StartDoes, AcquireDoes, PollDoes, RecheckDoes, FindDoes, CreateDoes,
         KeepDoes, UnlockDoes DEF At, Section
    <3>2. \A i \in Jobs \ {j} : job'[i] = job[i]
      BY <1>3, StartDoes, AcquireDoes, PollDoes, Inside, UnlockDoes DEF Moved
    <3> QED BY <1>2, <3>1, <3>2
  <2>2. raced => raced'
    BY <1>3, StartDoes, AcquireDoes, PollDoes, Inside, UnlockDoes
  <2>3. Len(threads) <= Len(threads') /\ \A c \in Threads : threads'[c].answered = threads[c].answered
    <3>1. CASE Create(j)
      <4>1. \/ /\ Len(threads') = Len(threads) + 1
               /\ \A d \in 1 .. Len(threads) : threads'[d] = threads[d]
            \/ UNCHANGED threads
        BY <3>1, CreateDoes
      <4> QED BY <1>1, <4>1 DEF Threads
    <3>2. CASE UNCHANGED threads BY <1>1, <3>2
    <3> QED BY <1>3, <3>1, <3>2, StartDoes, AcquireDoes, PollDoes, RecheckDoes, FindDoes, KeepDoes,
            UnlockDoes
  <2> QED BY <2>1, <2>2, <2>3, StillWatches
<1>4. ASSUME NEW j \in Jobs, Mirror(j) PROVE SweepInv'
  <2>1. SUFFICES ASSUME NEW i \in Jobs, ~raced', Kind[i] = "sweep", Watching(job'[i])
                 PROVE  ~threads'[job'[i].conv].answered
    BY DEF SweepInv, Watching, Conv
  <2>2. i # j BY <1>4, <2>1, MirrorDoes DEF Moved, Watching
  <2>3. job'[i] = job[i] BY <1>4, <2>2, MirrorDoes DEF Moved
  <2>4. Conv(i) \in Threads BY <2>1, <2>3, HasThread DEF Watching, Using
  <2>5. ~raced /\ Conv(i) # Conv(j) BY <1>4, <2>1, <2>3, MirrorDoes DEF Watching
  <2>6. threads'[Conv(i)] = threads[Conv(i)] BY <1>4, <2>4, <2>5, MirrorDoes
  <2> QED BY <2>1, <2>3, <2>5, <2>6 DEF SweepInv, Watching, Conv
<1>5. ASSUME NEW j \in Jobs, GetLabels(j) \/ PostLabels(j) \/ Snooze(j) PROVE SweepInv'
  <2>1. \A i \in Jobs : Watching(job'[i]) => Watching(job[i]) /\ job'[i].conv = job[i].conv
    BY <1>5, GetLabelsDoes, PostLabelsDoes, SnoozeDoes DEF Moved, Watching, At, Conv
  <2>2. CASE GetLabels(j)
    <3>1. UNCHANGED <<threads, raced>> BY <2>2, GetLabelsDoes
    <3> QED BY <1>1, <2>1, <3>1, StillWatches
  <2>3. CASE PostLabels(j)
    <3>1. Relabelled /\ (raced => raced') BY <2>3, PostLabelsDoes
    <3>2. /\ Len(threads) <= Len(threads')
          /\ \A c \in Threads : threads'[c].answered = threads[c].answered
      BY <1>1, <3>1 DEF Relabelled
    <3> QED BY <2>1, <3>1, <3>2, StillWatches
  <2>4. CASE Snooze(j)
    <3>1. raced => raced' BY <2>4, SnoozeDoes
    <3>2. /\ Len(threads) <= Len(threads')
          /\ \A c \in Threads : threads'[c].answered = threads[c].answered
      BY <1>1, <2>4, SnoozeDoes
    <3> QED BY <2>1, <3>1, <3>2, StillWatches
  <2> QED BY <1>5, <2>2, <2>3, <2>4
<1>6. ASSUME NEW j \in Jobs, Sweep(j) \/ NextListed(j) PROVE SweepInv'
  <2>1. UNCHANGED <<threads, raced>> BY <1>6, SweepDoes, NextListedDoes
  <2>2. \A i \in Jobs : Kind[i] = "sweep" /\ Watching(job'[i]) => job'[i] = job[i]
    BY <1>6, SweepDoes, NextListedDoes DEF Moved, Watching
  <2> QED BY <1>1, <2>1, <2>2, StillWatches
<1>7. ASSUME NEW j \in Jobs, ListMessages(j) PROVE SweepInv'
  <2>1. UNCHANGED <<threads, raced>> BY <1>7, ListMessagesDoes
  <2>2. CASE Moved(j, "decide", Conv(j), job[j].held)
    BY <1>1, <2>1, <2>2, StillWatches DEF Moved, Watching
  <2>3. CASE ~threads[Conv(j)].answered /\ Moved(j, "get", Conv(j), job[j].held)
    BY <2>1, <2>3 DEF SweepInv, Moved, Conv
  <2> QED BY <1>7, <2>2, <2>3, ListMessagesDoes
<1>8. CASE (\E c \in Threads : Resolve(c) \/ AgentMoves(c)) \/ CacheExpires \/ UNCHANGED vars
  <2>1. /\ Len(threads') = Len(threads)
        /\ \A c \in Threads : threads'[c].answered = threads[c].answered
    BY <1>8, ResolveDoes, AgentMovesDoes, CacheExpiresDoes DEF Relabelled, vars
  <2> QED BY <1>1, <1>8, <2>1, Elsewhere, StillWatches
<1>9. CASE LockExpires
  BY <1>1, <1>9, LockExpiresDoes, StillWatches
<1> QED BY <1>3, <1>4, <1>5, <1>6, <1>7, <1>8, <1>9 DEF Next

LEMMA VisibleStep ==
  ASSUME Typed, SweepInv, AnsweredIsVisible, [Next]_vars
  PROVE  AnsweredIsVisible'
<1>1. ASSUME UNCHANGED threads, raced => raced' PROVE AnsweredIsVisible'
  BY <1>1 DEF AnsweredIsVisible, Threads
<1>2. ASSUME Relabelled, raced => raced' PROVE AnsweredIsVisible'
  BY <1>2 DEF AnsweredIsVisible, Threads, Relabelled
<1>3. ASSUME NEW j \in Jobs,
             Start(j) \/ Acquire(j) \/ Poll(j) \/ Recheck(j) \/ Find(j) \/ Keep(j) \/ Unlock(j)
      PROVE  AnsweredIsVisible'
  BY <1>1, <1>3, StartDoes, AcquireDoes, PollDoes, RecheckDoes, FindDoes, KeepDoes, UnlockDoes
<1>4. ASSUME NEW j \in Jobs, Create(j) PROVE AnsweredIsVisible'
  <2>1. UNCHANGED raced BY <1>4, CreateDoes
  <2>2. CASE UNCHANGED threads BY <1>1, <2>1, <2>2
  <2>3. CASE /\ Len(threads') = Len(threads) + 1
             /\ \A d \in 1 .. Len(threads) : threads'[d] = threads[d]
             /\ threads'[Len(threads')].answered = FALSE
    BY <2>1, <2>3, Bounds DEF AnsweredIsVisible, Threads
  <2> QED BY <1>4, <2>2, <2>3, CreateDoes
<1>5. ASSUME NEW j \in Jobs, Mirror(j) PROVE AnsweredIsVisible'
  BY <1>5, MirrorDoes DEF AnsweredIsVisible, Threads
<1>6. ASSUME NEW j \in Jobs, GetLabels(j) \/ Sweep(j) \/ NextListed(j) \/ ListMessages(j)
      PROVE  AnsweredIsVisible'
  BY <1>1, <1>6, GetLabelsDoes, SweepDoes, NextListedDoes, ListMessagesDoes
<1>7. ASSUME NEW j \in Jobs, PostLabels(j) PROVE AnsweredIsVisible'
  BY <1>2, <1>7, PostLabelsDoes
<1>8. ASSUME NEW j \in Jobs, Snooze(j) PROVE AnsweredIsVisible'
  <2>1. Kind[j] = "sweep" /\ Conv(j) \in Threads
    BY <1>8, SnoozeDoes, JobFacts, HasThread DEF At, Using
  <2>2. ~raced => ~threads[Conv(j)].answered
    BY <1>8, <2>1, SnoozeDoes DEF SweepInv, At
  <2> QED BY <1>8, <2>2, SnoozeDoes DEF AnsweredIsVisible, Threads
<1>9. CASE \E c \in Threads : Resolve(c)
  BY <1>9, ResolveDoes DEF AnsweredIsVisible, Threads
<1>10. CASE \E c \in Threads : AgentMoves(c)
  BY <1>2, <1>10, AgentMovesDoes
<1>11. CASE CacheExpires \/ LockExpires \/ UNCHANGED vars
  <2>1. UNCHANGED <<threads, raced>>
    BY <1>11, CacheExpiresDoes, LockExpiresDoes DEF vars, ghosts
  <2> QED BY <1>1, <2>1
<1> QED BY <1>3, <1>4, <1>5, <1>6, <1>7, <1>8, <1>9, <1>10, <1>11 DEF Next

\* The sweep of the silent hides no thread in which the client has written, unless
\* the message came after its look at the messages.
THEOREM SweepHidesNoAnswer == Spec => []AnsweredIsVisible
<1>1. Init => SweepInv /\ AnsweredIsVisible
  BY DEF Init, SweepInv, AnsweredIsVisible, NewJob, Threads
<1>2. Init => Typed BY TypedInit
<1>3. Typed /\ SweepInv /\ AnsweredIsVisible /\ [Next]_vars
        => Typed' /\ SweepInv' /\ AnsweredIsVisible'
  BY TypedStep, SweepStep, VisibleStep
<1> QED BY <1>1, <1>2, <1>3, PTL DEF Spec
=============================================================================
