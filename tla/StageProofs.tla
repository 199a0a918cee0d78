---------------------------- MODULE StageProofs ----------------------------
(***************************************************************************)
(* Reading a claim never takes it back to an earlier stage, for every      *)
(* number of stages, jobs and threads. What the stage job writes is ahead  *)
(* of the listing, and unless something raced the listing is what it       *)
(* overwrites; the other jobs put back the stages they read.               *)
(***************************************************************************)
EXTENDS ChatwootClientProofs, WellFoundedInduction

-----------------------------------------------------------------------------
(* The stage of a set of labels *)

LEMMA StageExists ==
  ASSUME NEW labels
  PROVE  \E i \in 0 .. Len(Stages) : /\ i # 0 => Stages[i] \in labels
                                     /\ \A k \in i + 1 .. Len(Stages) : Stages[k] \notin labels
<1> DEFINE n == Len(Stages)
           Gaps == {n - i : i \in {i \in 1 .. n : Stages[i] \in labels}}
<1>1. n \in Nat BY StagesAssumption
<1>2. CASE \A i \in 1 .. n : Stages[i] \notin labels BY <1>1, <1>2
<1>3. CASE \E i \in 1 .. n : Stages[i] \in labels
  <2>1. Gaps \subseteq Nat /\ Gaps # {} BY <1>1, <1>3
  <2>2. \A i \in 1 .. n : Stages[i] \in labels => n - i \in Gaps OBVIOUS
  <2>3. \A g \in Gaps : \E i \in 1 .. n : g = n - i /\ Stages[i] \in labels OBVIOUS
  <2> HIDE DEF n, Gaps
  <2>4. PICK g \in Gaps : \A h \in Gaps : ~ (<<h, g>> \in OpToRel(<, Nat))
    BY <2>1, NatLessThanWellFounded, WFMin
  <2>5. \A h \in Gaps : ~ (h < g) BY <2>1, <2>4 DEF OpToRel
  <2>6. PICK i \in 1 .. n : g = n - i /\ Stages[i] \in labels BY <2>3
  <2>7. \A k \in i + 1 .. n : Stages[k] \notin labels
    <3> SUFFICES ASSUME NEW k \in i + 1 .. n, Stages[k] \in labels PROVE FALSE OBVIOUS
    <3>1. k \in 1 .. n /\ n - k < n - i BY <1>1
    <3> QED BY <2>2, <2>5, <2>6, <3>1
  <2>8. i \in 0 .. n BY <1>1
  <2> QED BY <2>6, <2>7, <2>8 DEF n
<1> QED BY <1>2, <1>3

LEMMA StageFacts ==
  ASSUME NEW labels
  PROVE  /\ StageOf(labels) \in 0 .. Len(Stages)
         /\ StageOf(labels) # 0 => Stages[StageOf(labels)] \in labels
         /\ \A k \in StageOf(labels) + 1 .. Len(Stages) : Stages[k] \notin labels
  BY StageExists DEF StageOf

\* A stage that is marked is reached.
LEMMA Reached ==
  ASSUME NEW labels, NEW i \in 1 .. Len(Stages), Stages[i] \in labels
  PROVE  i <= StageOf(labels)
<1>1. StageOf(labels) \in Nat /\ Len(Stages) \in Nat BY StageFacts, StagesAssumption
<1>2. i \notin StageOf(labels) + 1 .. Len(Stages) BY StageFacts
<1> QED BY <1>1, <1>2

\* Labels that keep the stages lose none.
LEMMA Kept ==
  ASSUME NEW old, NEW new, old \cap StageSet \subseteq new
  PROVE  StageOf(old) <= StageOf(new)
<1>1. StageOf(old) \in 0 .. Len(Stages) /\ StageOf(new) \in Nat BY StageFacts, StagesAssumption
<1>2. CASE StageOf(old) = 0 BY <1>1, <1>2
<1>3. CASE StageOf(old) # 0
  <2>1. StageOf(old) \in 1 .. Len(Stages) /\ Stages[StageOf(old)] \in old
    BY <1>1, <1>3, StageFacts, StagesAssumption
  <2>2. Stages[StageOf(old)] \in new BY <2>1 DEF StageSet
  <2> QED BY <2>1, <2>2, Reached
<1> QED BY <1>2, <1>3

\* Everything but a stage is written over the stages that were read.
LEMMA OthersKeep ==
  ASSUME NEW read
  PROVE  /\ \A l : read \cap StageSet \subseteq read \cup {l}
         /\ \A s \in States : read \cap StageSet \subseteq WithStatus(read, s)
  BY StagesAssumption DEF WithStatus

-----------------------------------------------------------------------------
(* What the stage job is about to write *)

\* It is ahead of the labels of the listing.
Ahead(b) == \E i \in 1 .. Len(Stages) : /\ b.label = {Stages[i]}
                                        /\ StageOf(b.list[b.conv]) < i
AheadInv == \A j \in Jobs : Kind[j] = "sync" /\ job[j].at \in {"get", "post"} => Ahead(job[j])

LEMMA AheadStep ==
  ASSUME Typed, AheadInv, [Next]_vars
  PROVE  AheadInv'
<1>1. ASSUME \A i \in Jobs : Kind[i] = "sync" /\ job'[i].at \in {"get", "post"} => job'[i] = job[i]
      PROVE  AheadInv'
  BY <1>1 DEF AheadInv, Ahead
<1>2. ASSUME NEW j \in Jobs,
             \/ Start(j) \/ Acquire(j) \/ Poll(j) \/ Recheck(j) \/ Find(j) \/ Create(j) \/ Keep(j)
             \/ Unlock(j)
      PROVE  AheadInv'
  <2>1. Kind[j] \in Finds
    BY <1>2, JobFacts, StartDoes, AcquireDoes, PollDoes, RecheckDoes, FindDoes, CreateDoes,
       KeepDoes, UnlockDoes DEF At, Section
  <2>2. \A i \in Jobs \ {j} : job'[i] = job[i]
    BY <1>2, StartDoes, AcquireDoes, PollDoes, Inside, UnlockDoes DEF Moved
  <2> QED BY <1>1, <2>1, <2>2 DEF Finds
<1>3. ASSUME NEW j \in Jobs,
             Mirror(j) \/ PostLabels(j) \/ Sweep(j) \/ ListMessages(j) \/ Snooze(j)
      PROVE  AheadInv'
  <2>1. \A i \in Jobs \ {j} : job'[i] = job[i] BY <1>3, Outside
  <2>2. job'[j].at \in {"get", "post"} => Kind[j] = "sweep"
    BY <1>3, JobFacts, MirrorDoes, PostLabelsDoes, SweepDoes, ListMessagesDoes, SnoozeDoes
       DEF Moved, At
  <2> QED BY <1>1, <2>1, <2>2
<1>4. ASSUME NEW j \in Jobs, GetLabels(j) PROVE AheadInv'
  <2>1. \A i \in Jobs \ {j} : job'[i] = job[i] BY <1>4, Outside
  <2>2. CASE job' = [job EXCEPT ![j] = Done]
    <3>1. job'[j].at = "done" BY <2>2, Ended DEF Typed, Moved
    <3> QED BY <1>1, <2>1, <3>1
  <2>3. CASE \E read : job' = [job EXCEPT ![j] = [@ EXCEPT !.read = read, !.at = "post"]]
    <3>1. /\ job'[j].label = job[j].label /\ job'[j].list = job[j].list
          /\ job'[j].conv = job[j].conv
      BY <2>3 DEF Typed, JobType
    <3>2. job[j].at = "get" BY <1>4, GetLabelsDoes DEF At
    <3> QED BY <2>1, <3>1, <3>2 DEF AheadInv, Ahead
  <2> QED BY <1>4, <2>2, <2>3 DEF GetLabels
<1>5. ASSUME NEW j \in Jobs, NextListed(j) PROVE AheadInv'
  <2>1. \A i \in Jobs \ {j} : job'[i] = job[i] BY <1>5, Outside
  <2>2. ASSUME NEW c \in job[j].left, NEW p \in Places, NEW l \in SUBSET StageSet,
               job' = [job EXCEPT ![j].at = p, ![j].conv = c, ![j].label = l, ![j].left = @ \ {c}],
               p \in {"get", "post"} /\ Kind[j] = "sync" =>
                 \E i \in 1 .. Len(Stages) : Advances(job[j].list[c], i) /\ l = {Stages[i]}
        PROVE  AheadInv'
    <3>1. /\ job'[j].at = p /\ job'[j].label = l /\ job'[j].list = job[j].list
          /\ job'[j].conv = c
      <4>1. PICK rest : rest = job[j].left \ {c} OBVIOUS
      <4>2. job' = [job EXCEPT ![j].at = p, ![j].conv = c, ![j].label = l, ![j].left = rest]
        BY <2>2, <4>1 DEF Typed, JobType
      <4> QED BY <4>2 DEF Typed, JobType
    <3>2. p \in {"get", "post"} /\ Kind[j] = "sync" => Ahead(job'[j])
      BY <2>2, <3>1, StageFacts, StagesAssumption DEF Advances, Ahead
    <3> QED BY <2>1, <3>1, <3>2 DEF AheadInv, Ahead
  <2>3. CASE Goto(j, "done")
    <3>1. job'[j].at = "done" BY <2>3, Ended DEF Goto, Moved, Typed
    <3> QED BY <1>1, <2>1, <3>1
  <2>4. CASE \E c \in job[j].left :
          \/ job' = [job EXCEPT ![j].at = "decide", ![j].conv = c, ![j].label = {},
                                ![j].left = @ \ {c}]
          \/ job' = [job EXCEPT ![j].at = "messages", ![j].conv = c, ![j].label = {},
                                ![j].left = @ \ {c}]
          \/ \E i \in 1 .. Len(Stages) :
               /\ Advances(job[j].list[c], i)
               /\ job' = [job EXCEPT ![j].at = "get", ![j].conv = c, ![j].label = {Stages[i]},
                                     ![j].left = @ \ {c}]
    <3>1. \A i \in 1 .. Len(Stages) : {Stages[i]} \in SUBSET StageSet BY DEF StageSet
    <3>2. {} \in SUBSET StageSet /\ {"decide", "messages", "get"} \subseteq Places BY DEF Places
    <3> QED BY <2>2, <2>4, <3>1, <3>2
  <2> QED BY <1>5, <2>3, <2>4 DEF NextListed
<1>6. CASE UNCHANGED job BY <1>1, <1>6
<1> QED BY <1>2, <1>3, <1>4, <1>5, <1>6, Elsewhere, LockExpiresDoes DEF Next

-----------------------------------------------------------------------------
(* The step *)

NoneGoesBack == \A c \in Threads : StageOf(threads[c].labels) <= StageOf(threads'[c].labels)

\* A thread keeps its labels.
LEMMA SameLabels ==
  ASSUME \A c \in Threads : threads'[c].labels = threads[c].labels
  PROVE  NoneGoesBack
  BY StageFacts, StagesAssumption DEF NoneGoesBack

\* A thread gets other labels.
LEMMA OtherLabels ==
  ASSUME Typed, NEW c \in Threads, NEW labels, StageOf(threads[c].labels) <= StageOf(labels),
         threads' = [threads EXCEPT ![c].labels = labels]
  PROVE  NoneGoesBack
<1>1. /\ threads'[c].labels = labels
      /\ \A d \in Threads \ {c} : threads'[d] = threads[d]
  BY Bounds DEF Threads, Thread
<1> QED BY <1>1, StageFacts, StagesAssumption DEF NoneGoesBack

LEMMA WriteAdvances ==
  ASSUME Typed, AheadInv, NEW j \in Jobs, PostLabels(j), ~raced'
  PROVE  NoneGoesBack
<1>1. job[j].at = "post" /\ Conv(j) \in Threads BY PostLabelsDoes, HasThread DEF At, Using
<1> DEFINE R == job[j].read
<1>2. ASSUME NEW labels, NEW p, Write(j, labels, p), R \cap StageSet \subseteq labels
      PROVE  NoneGoesBack
  <2>1. threads[Conv(j)].labels = R BY <1>2 DEF Write
  <2>2. StageOf(threads[Conv(j)].labels) <= StageOf(labels) BY <1>2, <2>1, Kept
  <2> QED BY <1>1, <1>2, <2>2, OtherLabels DEF Write
<1>3. CASE Write(j, R \cup {Escalado}, "done") \/ Write(j, R \cup {Sismo}, "done")
  BY <1>2, <1>3, OthersKeep
<1>4. CASE \E s \in States : Write(j, WithStatus(R, s), "done") BY <1>2, <1>4, OthersKeep
<1>5. CASE Write(j, R \cup {Silent}, "snooze") BY <1>2, <1>5, OthersKeep
<1>6. CASE Kind[j] = "sync" /\ \E s \in job[j].label : Write(j, WithStage(R, s), "decide")
  <2>1. PICK s \in job[j].label : Write(j, WithStage(R, s), "decide") BY <1>6
  <2>2. PICK i \in 1 .. Len(Stages) : s = Stages[i] /\ StageOf(job[j].list[Conv(j)]) < i
    BY <1>1, <1>6 DEF AheadInv, Ahead, Conv
  <2>3. threads[Conv(j)].labels = job[j].list[Conv(j)] BY <1>6, <2>1 DEF Write
  <2>4. i <= StageOf(WithStage(R, s)) BY <2>2, Reached DEF WithStage
  <2>5. StageOf(threads[Conv(j)].labels) <= StageOf(WithStage(R, s))
    BY <2>2, <2>3, <2>4, StageFacts, StagesAssumption
  <2> QED BY <1>1, <2>1, <2>5, OtherLabels DEF Write
<1>7. CASE UNCHANGED threads BY <1>7, SameLabels DEF Threads
<1> QED BY <1>3, <1>4, <1>5, <1>6, <1>7 DEF PostLabels

LEMMA StageStep ==
  ASSUME Typed, AheadInv, [Next]_vars, ~raced'
  PROVE  NoneGoesBack
<1>1. CASE UNCHANGED threads BY <1>1, SameLabels DEF Threads
<1>2. ASSUME NEW j \in Jobs, Create(j) PROVE NoneGoesBack
  <2>1. CASE /\ Len(threads') = Len(threads) + 1
             /\ \A d \in 1 .. Len(threads) : threads'[d] = threads[d]
    BY <2>1, SameLabels DEF Threads
  <2> QED BY <1>1, <1>2, <2>1, CreateDoes
<1>3. ASSUME NEW j \in Jobs, Mirror(j) PROVE NoneGoesBack
  <2>1. Conv(j) \in Threads BY <1>3, MirrorDoes, HasThread DEF At, Using
  <2>2. CASE threads' = [threads EXCEPT ![Conv(j)].answered = TRUE,
                           ![Conv(j)].status = IF @ = "snoozed" THEN "open" ELSE @]
    BY <2>1, <2>2, Bounds, SameLabels DEF Threads, Thread
  <2> QED BY <1>1, <1>3, <2>2 DEF Mirror
<1>4. ASSUME NEW j \in Jobs, Snooze(j) PROVE NoneGoesBack
  <2>1. CASE threads' = [threads EXCEPT ![Conv(j)].status = "snoozed"]
    BY <2>1, Bounds, SameLabels DEF Threads, Thread
  <2> QED BY <1>1, <1>4, <2>1 DEF Snooze
<1>5. ASSUME NEW c \in Threads, Resolve(c) PROVE NoneGoesBack
  BY <1>5, Bounds, SameLabels DEF Threads, Thread, Resolve
<1>6. ASSUME NEW c \in Threads, AgentMoves(c) PROVE NoneGoesBack
  <2>1. PICK i \in 1 .. Len(Stages) :
          /\ i = StageOf(threads[c].labels) + 1
          /\ threads' = [threads EXCEPT ![c].labels = (@ \ StageSet) \cup {Stages[i]}]
    BY <1>6 DEF AgentMoves
  <2> DEFINE new == (threads[c].labels \ StageSet) \cup {Stages[i]}
  <2>2. i <= StageOf(new) BY Reached
  <2>3. threads' = [threads EXCEPT ![c].labels = new] BY <2>1, Bounds DEF Threads
  <2>4. StageOf(threads[c].labels) <= StageOf(new) BY <2>1, <2>2, StageFacts, StagesAssumption
  <2> HIDE DEF new
  <2> QED BY <2>3, <2>4, OtherLabels
<1>7. ASSUME NEW j \in Jobs,
             \/ Start(j) \/ Acquire(j) \/ Poll(j) \/ Recheck(j) \/ Find(j) \/ Keep(j) \/ Unlock(j)
             \/ GetLabels(j) \/ Sweep(j) \/ NextListed(j) \/ ListMessages(j)
      PROVE  NoneGoesBack
  <2>1. UNCHANGED threads
    BY <1>7 DEF Start, Acquire, Poll, Recheck, Find, Keep, Unlock, GetLabels, Sweep, NextListed,
                ListMessages
  <2> QED BY <1>1, <2>1
<1>8. CASE CacheExpires \/ LockExpires \/ UNCHANGED vars
  BY <1>1, <1>8, CacheExpiresDoes, LockExpiresDoes DEF vars
<1> QED BY <1>2, <1>3, <1>4, <1>5, <1>6, <1>7, <1>8, WriteAdvances DEF Next

\* A claim that was moved on, by its client's answers or by an agent, stays there: the
\* stage job writes only what is ahead of the labels it overwrites (stages.py, sync.py:105,
\* chatwoot.py:542-575).
THEOREM ClaimsOnlyAdvance == Spec => StageNeverGoesBack
<1>1. Init => Typed BY TypedInit
<1>2. Init => AheadInv BY DEF Init, AheadInv, NewJob
<1>3. Typed /\ AheadInv /\ [Next]_vars => Typed' /\ AheadInv' BY TypedStep, AheadStep
<1>4. Typed /\ AheadInv /\ [Next]_vars =>
        [\A c \in Threads :
           ~raced' => StageOf(threads[c].labels) <= StageOf(threads'[c].labels)]_vars
  BY StageStep DEF NoneGoesBack
<1> QED BY <1>1, <1>2, <1>3, <1>4, PTL DEF Spec, StageNeverGoesBack
=============================================================================
