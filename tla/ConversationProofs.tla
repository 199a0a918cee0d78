-------------------------- MODULE ConversationProofs -------------------------
(***************************************************************************)
(* For every number of turns, documents, policies and faults: two turns    *)
(* never work on the client's thread at once, and the bot only talks about *)
(* a policy that was found under the document the conversation stands on.  *)
(*                                                                         *)
(* The first rests on who holds the lock. The second is kept by each node  *)
(* of the graph, for the turn's copy of the thread and so for the          *)
(* checkpoint; the route into the graph gives the node what it needs.      *)
(* What a node may make of a thread is one relation, After: whatever it    *)
(* preserves holds of every thread (ThreadsStep), here and in VoiceHandoff.*)
(***************************************************************************)
EXTENDS Conversation, TLAPS

\* A turn, and what the route into the graph has seen to.
Sound(b) ==
  /\ b \in Turn
  /\ b.at # "idle" => b.text \in Texts
  /\ b.at = "awaiting_identification" => b.th.poliza = None
  /\ b.at = "awaiting_policy_choice" => b.th.node = "awaiting_policy_choice"

TurnInv == thread \in Thread /\ turn \in [Turns -> Turn] /\ \A h \in Turns : Sound(turn[h])

\* The checkpoint, and the copies the turns work on.
Threads == {thread} \cup {turn[h].th : h \in {g \in Turns : turn[g].at \in Nodes}}

\* The rest of the state.
Counts == faults \in 0 .. MaxFaults
Flags  == /\ lock \in BOOLEAN /\ muted \in BOOLEAN /\ alerted \in {"none", "sent", "failed"}
          /\ late \in BOOLEAN /\ released \in BOOLEAN /\ untold \in BOOLEAN

\* A turn at work holds the lock, and is the only one.
LockInv ==
  ~late => \A h \in Turns : Working(h) => /\ lock /\ turn[h].held
                                          /\ \A g \in Turns : Working(g) => g = h

-----------------------------------------------------------------------------
(* What a node makes of thread a *)

\* Nothing was found or chosen; no list is newly offered.
Leaves(a, b) ==
  /\ b.doc = a.doc /\ b.plist = a.plist /\ b.poliza = a.poliza
  /\ b.node = "awaiting_policy_choice" => a.node = "awaiting_policy_choice"
\* The document led nowhere.
Misses(b) == b.poliza = None /\ b.node # "awaiting_policy_choice"
\* The document owns the policy of the handoff.
Fixes(a, b) ==
  /\ b.doc \in Documents /\ a.number \in PoliciesOf[b.doc]
  /\ b.poliza = a.number /\ b.node # "awaiting_policy_choice"
\* It does not: the only policy in force is fixed, or a list offered.
Presents(a, b) ==
  /\ b.doc \in Documents /\ a.number \notin PoliciesOf[b.doc]
  /\ b.plist \subseteq PoliciesOf[b.doc] \cap Vigentes
  /\ \/ b.poliza \in b.plist /\ b.node # "awaiting_policy_choice"
     \/ b.poliza = None
\* One of the list is chosen.
Chooses(a, b) ==
  /\ a.node = "awaiting_policy_choice" /\ b.node # "awaiting_policy_choice"
  /\ b.poliza \in a.plist /\ b.doc = a.doc

After(a, b) ==
  /\ b \in Thread /\ b.number = a.number
  /\ Leaves(a, b) \/ Misses(b) \/ Fixes(a, b) \/ Presents(a, b) \/ Chooses(a, b)

LEMMA FreshIsThread == Fresh \in Thread
  BY PoliciesAssumption DEF Fresh, Thread, Nodes

\* The bot asks for the document, offers the same list again, or hands over.
LEMMA NodeChanges ==
  ASSUME NEW th \in Thread, NEW n \in {"awaiting_identification", "escalating", "answering_qa"}
  PROVE  After(th, [th EXCEPT !.node = n])
  BY DEF After, Leaves, Thread, Nodes

LEMMA AskChanges ==
  ASSUME NEW th \in Thread
  PROVE  After(th, [th EXCEPT !.node = "awaiting_identification", !.asked = TRUE])
  BY DEF After, Leaves, Thread, Nodes

\* A policy is chosen.
LEMMA LockedChanges ==
  ASSUME NEW th \in Thread, NEW doc \in Documents, NEW p \in Policies, NEW list \in SUBSET Policies
  PROVE  LET b == Locked(th, p, list, doc)
         IN /\ b \in Thread /\ b.number = th.number /\ b.node = "answering_qa"
            /\ b.poliza = p /\ b.doc = doc /\ b.plist = list /\ b.asked = th.asked
  BY DEF Thread, Nodes, Locked

-----------------------------------------------------------------------------
(* Nodes *)

\* Turn h goes on past the lock, and keeps it if it holds it; no other turn moves.
Moved(h) ==
  /\ \A g \in Turns \ {h} : turn'[g] = turn[g]
  /\ turn'[h].held = turn[h].held /\ turn'[h].clean = turn[h].clean
  /\ turn'[h].at \in PastLock

\* It has written a checkpoint, and if that hands the client over it is about to reply.
\* Otherwise it may go on to node_answer.
GoesOn(h, th) ==
  /\ th.node = "answering_qa" /\ th.asked = Th(h).asked
  /\ th.doc \in {Th(h).doc, DocInput(h)}
Wrote(h) ==
  /\ turn'[h].th = thread' /\ After(Th(h), thread')
  /\ \/ turn'[h].at = "send"
     \/ turn'[h].at = "answering_qa" /\ GoesOn(h, thread')

Kept(h) == Moved(h) /\ Wrote(h)

\* It has raised.
Failed(h) ==
  /\ Moved(h) /\ thread' = thread /\ Fault
  /\ turn'[h].th = Fresh /\ turn'[h].at = "fallback"

\* A checkpoint; the turn replies or goes on to node_answer.
LEMMA CheckpointKeeps ==
  ASSUME TurnInv, NEW h \in Turns, NEW th, After(Th(h), th),
         NEW p \in {"send", "answering_qa"}, Checkpoint(h, th, p), turn[h].at # "idle",
         p = "send" \/ GoesOn(h, th)
  PROVE  TurnInv' /\ Kept(h)
<1>1. th \in Thread /\ p \in Places /\ p \in PastLock
  BY DEF After, Places, PastLock, Nodes
<1>2. turn' = [turn EXCEPT ![h].th = th, ![h].at = p] BY DEF Checkpoint
<1>3. /\ turn' \in [Turns -> Turn] /\ \A g \in Turns \ {h} : turn'[g] = turn[g]
      /\ turn'[h].th = th /\ turn'[h].at = p /\ turn'[h].text = turn[h].text
      /\ turn'[h].held = turn[h].held /\ turn'[h].clean = turn[h].clean
  BY <1>1, <1>2 DEF TurnInv, Turn
<1>4. Sound(turn'[h]) BY <1>3 DEF TurnInv, Sound
<1>5. \A g \in Turns : Sound(turn'[g]) BY <1>3, <1>4 DEF TurnInv
<1>6. thread' = th BY DEF Checkpoint
<1>7. TurnInv' BY <1>1, <1>3, <1>5, <1>6 DEF TurnInv
<1>8. Moved(h) BY <1>1, <1>3 DEF Moved
<1>9. After(Th(h), thread') /\ (p = "send" \/ GoesOn(h, thread')) BY <1>6
<1>10. Wrote(h) BY <1>3, <1>6, <1>9 DEF Wrote
<1> QED BY <1>7, <1>8, <1>10 DEF Kept

LEMMA ReplyKeeps ==
  ASSUME TurnInv, NEW h \in Turns, NEW th, After(Th(h), th), Replies(h, th), turn[h].at # "idle"
  PROVE  TurnInv' /\ Kept(h)
<1>1. Checkpoint(h, th, "send") BY DEF Replies
<1> QED BY <1>1, CheckpointKeeps

LEMMA HasThread == ASSUME TurnInv, NEW h \in Turns PROVE Th(h) \in Thread
  BY DEF TurnInv, Turn, Th

LEMMA EscalatesKeeps ==
  ASSUME TurnInv, NEW h \in Turns, Escalates(h), turn[h].at # "idle"
  PROVE  TurnInv' /\ Kept(h)
<1>1. After(Th(h), [Th(h) EXCEPT !.node = "escalating"]) BY HasThread, NodeChanges
<1> QED BY <1>1, ReplyKeeps DEF Escalates

LEMMA AsksKeeps ==
  ASSUME TurnInv, NEW h \in Turns, AsksDocument(h), turn[h].at # "idle"
  PROVE  TurnInv' /\ Kept(h)
<1>1. After(Th(h), [Th(h) EXCEPT !.node = "awaiting_identification", !.asked = TRUE])
  BY HasThread, AskChanges
<1> QED BY <1>1, ReplyKeeps DEF AsksDocument

\* The document that is looked up, and what the thread says while it is.
LEMMA LookingUp ==
  ASSUME TurnInv, NEW h \in Turns, LooksUp(h)
  PROVE  /\ turn[h].at # "idle" /\ Th(h) \in Thread /\ Th(h).poliza = None
         /\ DocInput(h) \in Documents \cup Texts
<1>1. turn[h].at = "awaiting_identification" BY DEF LooksUp, In
<1>2. Th(h) \in Thread /\ Th(h).poliza = None /\ Text(h) \in Texts
  BY <1>1, HasThread DEF TurnInv, Sound, Th, Text
<1>3. Th(h).doc \in Documents \cup Texts \cup {None} BY <1>2 DEF Thread
<1> QED BY <1>1, <1>2, <1>3 DEF DocInput, Given

LEMMA RetryKeeps ==
  ASSUME TurnInv, NEW h \in Turns, LooksUp(h), RetryOrEscalate(h, DocInput(h))
  PROVE  TurnInv' /\ Kept(h)
<1>1. turn[h].at # "idle" /\ Th(h) \in Thread /\ Th(h).poliza = None
      /\ DocInput(h) \in Documents \cup Texts
  BY LookingUp
<1>2. CASE Th(h).docRetries >= 1
  BY <1>1, <1>2, EscalatesKeeps DEF RetryOrEscalate
<1>3. CASE ~(Th(h).docRetries >= 1)
  <2> DEFINE th == [Th(h) EXCEPT !.node = "awaiting_identification", !.asked = TRUE,
                                 !.doc = DocInput(h), !.docRetries = @ + 1]
  <2>1. Th(h).docRetries + 1 \in 0 .. 1 BY <1>1, <1>3 DEF Thread
  <2>2. th \in Thread /\ th.poliza = None /\ th.node = "awaiting_identification"
        /\ th.number = Th(h).number
    BY <1>1, <2>1 DEF Thread, Nodes
  <2>3. After(Th(h), th) BY <2>2 DEF After, Misses
  <2>4. Replies(h, th) BY <1>3 DEF RetryOrEscalate
  <2> HIDE DEF th
  <2> QED BY <1>1, <2>3, <2>4, ReplyKeeps
<1> QED BY <1>2, <1>3

LEMMA FoundKeeps ==
  ASSUME TurnInv, NEW h \in Turns, Found(h)
  PROVE  TurnInv' /\ Kept(h)
<1> DEFINE doc == DocInput(h)
           owned == PoliciesOf[doc]
<1>1. LooksUp(h) /\ doc \in Documents BY DEF Found
<1>2. turn[h].at # "idle" /\ Th(h) \in Thread /\ Th(h).poliza = None BY <1>1, LookingUp
<1>3. owned \subseteq Policies BY <1>1, DocumentsAssumption
<1>4. CASE RetryOrEscalate(h, doc) BY <1>1, <1>4, RetryKeeps
<1>5. CASE Th(h).number \in owned /\ Matched(h)
  <2> DEFINE p == Th(h).number
             th == Locked(Th(h), p, {p}, doc)
  <2>1. p \in Policies /\ {p} \in SUBSET Policies BY <1>3, <1>5
  <2>2. /\ th \in Thread /\ th.number = p /\ th.node = "answering_qa"
        /\ th.poliza = p /\ th.doc = doc /\ th.asked = Th(h).asked
    BY <1>1, <1>2, <2>1, LockedChanges
  <2>3. PICK place \in {"send", "answering_qa"} : Checkpoint(h, th, place)
    BY <1>5 DEF Matched
  <2> HIDE DEF th
  <2>4. After(Th(h), th) BY <1>1, <1>5, <2>2 DEF After, Fixes
  <2>5. GoesOn(h, th) BY <2>2 DEF GoesOn
  <2> QED BY <1>2, <2>3, <2>4, <2>5, CheckpointKeeps
<1>6. CASE Th(h).number \notin owned /\ Offered(h, Listed(owned))
  <2> DEFINE list == Listed(owned)
  <2>1. list \subseteq owned \cap Vigentes /\ list \subseteq Policies BY <1>3 DEF Listed
  <2>2. ASSUME Replies(h, [Th(h) EXCEPT !.node = "escalating", !.doc = doc])
        PROVE  TurnInv' /\ Kept(h)
    <3> DEFINE th == [Th(h) EXCEPT !.node = "escalating", !.doc = doc]
    <3>1. th \in Thread /\ th.poliza = None /\ th.node = "escalating" /\ th.number = Th(h).number
      BY <1>1, <1>2 DEF Thread
    <3>2. After(Th(h), th) BY <3>1 DEF After, Misses
    <3> HIDE DEF th
    <3> QED BY <1>2, <2>2, <3>2, ReplyKeeps DEF th
  <2>3. ASSUME NEW p \in list, Replies(h, Locked(Th(h), p, list, doc))
        PROVE  TurnInv' /\ Kept(h)
    <3> DEFINE th == Locked(Th(h), p, list, doc)
    <3>1. /\ th \in Thread /\ th.number = Th(h).number /\ th.node = "answering_qa"
          /\ th.poliza = p /\ th.doc = doc /\ th.plist = list
      BY <1>1, <1>2, <2>1, <2>3, LockedChanges
    <3> HIDE DEF th
    <3>2. After(Th(h), th) BY <1>1, <1>6, <2>1, <2>3, <3>1 DEF After, Presents
    <3> QED BY <1>2, <2>3, <3>2, ReplyKeeps DEF th
  <2>4. ASSUME Replies(h, [Th(h) EXCEPT !.node = "awaiting_policy_choice",
                                        !.plist = list, !.doc = doc])
        PROVE  TurnInv' /\ Kept(h)
    <3> DEFINE th == [Th(h) EXCEPT !.node = "awaiting_policy_choice", !.plist = list, !.doc = doc]
    <3>1. /\ th \in Thread /\ th.poliza = None /\ th.doc = doc /\ th.plist = list
          /\ th.number = Th(h).number
      BY <1>1, <1>2, <2>1 DEF Thread, Nodes
    <3> HIDE DEF th
    <3>2. After(Th(h), th) BY <1>1, <1>6, <2>1, <3>1 DEF After, Presents
    <3> QED BY <1>2, <2>4, <3>2, ReplyKeeps DEF th
  <2> HIDE DEF list
  <2> QED BY <1>6, <2>2, <2>3, <2>4 DEF Offered, list
<1> QED BY <1>1, <1>4, <1>5, <1>6 DEF Found, MatchHint

\* What the thread says while a policy is chosen.
LEMMA Choosing ==
  ASSUME TurnInv, NEW h \in Turns, In(h, "awaiting_policy_choice")
  PROVE  /\ turn[h].at # "idle" /\ Th(h) \in Thread /\ Th(h).node = "awaiting_policy_choice"
         /\ Th(h).plist \in SUBSET Policies
<1>1. Th(h) \in Thread /\ Th(h).node = "awaiting_policy_choice"
  BY HasThread DEF TurnInv, Sound, Th, In
<1> QED BY <1>1 DEF Thread, In

\* One of the list is fixed.
LEMMA ChosenKeeps ==
  ASSUME TurnInv, NEW h \in Turns, In(h, "awaiting_policy_choice"),
         NEW p \in Th(h).plist, NEW l \in SUBSET Policies, Replies(h, Locked(Th(h), p, l, Th(h).doc))
  PROVE  TurnInv' /\ Kept(h)
<1> DEFINE th == Locked(Th(h), p, l, Th(h).doc)
<1>1. p \in Policies BY Choosing
<1>2. /\ th \in Thread /\ th.number = Th(h).number /\ th.node = "answering_qa"
      /\ th.poliza = p /\ th.doc = Th(h).doc
  BY <1>1, Choosing DEF Locked, Thread, Nodes
<1> HIDE DEF th
<1>3. After(Th(h), th) BY <1>2, Choosing DEF After, Chooses
<1> QED BY <1>3, Choosing, ReplyKeeps DEF th

LEMMA RelistKeeps ==
  ASSUME TurnInv, NEW h \in Turns, In(h, "awaiting_policy_choice"), Relist(h)
  PROVE  TurnInv' /\ Kept(h)
<1> DEFINE th == [Th(h) EXCEPT !.node = "awaiting_policy_choice"]
<1>1. th = Th(h) BY Choosing DEF Thread
<1>2. After(Th(h), th) BY <1>1, Choosing DEF After, Leaves
<1> QED BY <1>2, Choosing, ReplyKeeps DEF Relist

LEMMA ChooseKeeps ==
  ASSUME TurnInv, NEW h \in Turns, ChooseAside(h) \/ ChooseResolves(h) \/ ChooseFails(h)
  PROVE  In(h, "awaiting_policy_choice") /\ TurnInv' /\ Kept(h)
<1> DEFINE list == Th(h).plist
           doc  == Th(h).doc
<1>1. In(h, "awaiting_policy_choice") BY DEF ChooseAside, ChooseResolves, ChooseFails
<1>2. /\ turn[h].at # "idle" /\ Th(h) \in Thread /\ Th(h).node = "awaiting_policy_choice"
      /\ list \in SUBSET Policies
  BY <1>1, Choosing
<1>3. CASE Escalates(h) BY <1>1, <1>2, <1>3, EscalatesKeeps
<1>4. CASE Relist(h) BY <1>1, <1>4, RelistKeeps
<1>5. ASSUME NEW p \in list, NEW l \in SUBSET Policies, Replies(h, Locked(Th(h), p, l, doc))
      PROVE  TurnInv' /\ Kept(h)
  BY <1>1, <1>5, ChosenKeeps
<1>6. CASE ChooseAside(h)
  BY <1>1, <1>2, <1>3, <1>4, <1>5, <1>6 DEF ChooseAside, MatchHint
<1>7. CASE ChooseResolves(h)
  BY <1>1, <1>2, <1>5, <1>7 DEF ChooseResolves
<1>8. CASE ChooseFails(h)
  <2>1. CASE ~LastChoice(Th(h))
    <3> DEFINE th == [Th(h) EXCEPT !.node = "awaiting_policy_choice", !.choiceRetries = @ + 1]
    <3>1. Th(h).choiceRetries + 1 \in 0 .. 1 BY <1>2, <2>1 DEF Thread, LastChoice
    <3>2. /\ th \in Thread /\ th.node = Th(h).node /\ th.doc = doc /\ th.plist = list
          /\ th.poliza = Th(h).poliza /\ th.number = Th(h).number
      BY <1>2, <3>1 DEF Thread, Nodes
    <3>3. After(Th(h), th) BY <1>2, <3>2 DEF After, Leaves
    <3>4. Replies(h, th) BY <1>8, <2>1 DEF ChooseFails
    <3> HIDE DEF th
    <3> QED BY <1>1, <1>2, <3>3, <3>4, ReplyKeeps
  <2> QED BY <1>1, <1>3, <1>8, <2>1 DEF ChooseFails
<1> QED BY <1>1, <1>6, <1>7, <1>8

LEMMA AnswerKeeps ==
  ASSUME TurnInv, NEW h \in Turns, AnswerEscalates(h) \/ AnswerApproved(h) \/ AnswerRejected(h)
  PROVE  In(h, "answering_qa") /\ TurnInv' /\ Kept(h)
<1>1. In(h, "answering_qa") BY DEF AnswerEscalates, AnswerApproved, AnswerRejected
<1>2. turn[h].at # "idle" /\ Th(h) \in Thread BY <1>1, HasThread DEF In
<1>3. CASE Escalates(h) BY <1>1, <1>2, <1>3, EscalatesKeeps
<1>4. ASSUME NEW n \in 0 .. 1
      PROVE  LET b == [Th(h) EXCEPT !.node = "answering_qa", !.judgeRetries = n]
             IN  After(Th(h), b) /\ GoesOn(h, b)
  BY <1>2 DEF After, Leaves, GoesOn, Thread, Nodes
<1>5. CASE AnswerApproved(h)
  <2>1. Replies(h, [Th(h) EXCEPT !.node = "answering_qa", !.judgeRetries = 0])
    BY <1>5 DEF AnswerApproved
  <2> QED BY <1>1, <1>2, <1>4, <2>1, ReplyKeeps
<1>6. CASE AnswerRejected(h) /\ ~(Th(h).judgeRetries >= 1)
  <2>1. Th(h).judgeRetries + 1 \in 0 .. 1 BY <1>2, <1>6 DEF Thread
  <2>2. Rejected(Th(h)) =
          [Th(h) EXCEPT !.node = "answering_qa", !.judgeRetries = Th(h).judgeRetries + 1]
    BY <1>2, <2>1 DEF Rejected, Thread
  <2>3. After(Th(h), Rejected(Th(h))) /\ GoesOn(h, Rejected(Th(h))) BY <1>4, <2>1, <2>2
  <2>4. Checkpoint(h, Rejected(Th(h)), "answering_qa") BY <1>6 DEF AnswerRejected
  <2> QED BY <1>1, <1>2, <2>3, <2>4, CheckpointKeeps
<1> QED BY <1>1, <1>3, <1>5, <1>6 DEF AnswerEscalates, AnswerRejected

LEMMA IdentifyKeeps ==
  ASSUME TurnInv, NEW h \in Turns,
         IdentifyRetap(h) \/ IdentifyFaq(h) \/ Greet(h) \/ NotFound(h) \/ LookupFails(h) \/ Found(h)
  PROVE  In(h, "awaiting_identification") /\ TurnInv' /\ Kept(h)
<1>1. In(h, "awaiting_identification")
  BY DEF IdentifyRetap, IdentifyFaq, Greet, NotFound, LookupFails, Found, LooksUp
<1>2. turn[h].at # "idle" BY <1>1 DEF In
<1>3. CASE Escalates(h) BY <1>1, <1>2, <1>3, EscalatesKeeps
<1>4. CASE AsksDocument(h) BY <1>1, <1>2, <1>4, AsksKeeps
<1>5. CASE LooksUp(h) /\ RetryOrEscalate(h, DocInput(h)) BY <1>1, <1>5, RetryKeeps
<1>6. CASE Found(h) BY <1>1, <1>6, FoundKeeps
<1> QED BY <1>3, <1>4, <1>5, <1>6 DEF IdentifyRetap, IdentifyFaq, Greet, NotFound, LookupFails

LEMMA FailureKeeps ==
  ASSUME TurnInv, NEW h \in Turns, GraphFails(h)
  PROVE  turn[h].at \in Nodes /\ TurnInv' /\ Failed(h)
<1>1. turn[h].at \in Nodes /\ thread' = thread
      /\ turn' = [turn EXCEPT ![h].at = "fallback", ![h].th = Fresh]
  BY DEF GraphFails
<1>2. Fresh \in Thread /\ "fallback" \in Places BY FreshIsThread DEF Places
<1>3. /\ turn' \in [Turns -> Turn] /\ \A g \in Turns \ {h} : turn'[g] = turn[g]
      /\ turn'[h].th = Fresh /\ turn'[h].at = "fallback" /\ turn'[h].text = turn[h].text
      /\ turn'[h].held = turn[h].held /\ turn'[h].clean = turn[h].clean
  BY <1>1, <1>2 DEF TurnInv, Turn
<1>4. turn[h].at # "idle" BY <1>1 DEF Nodes
<1>5. Sound(turn'[h]) BY <1>3, <1>4 DEF TurnInv, Sound
<1>6. \A g \in Turns : Sound(turn'[g]) BY <1>3, <1>5 DEF TurnInv
<1> QED BY <1>1, <1>3, <1>6 DEF TurnInv, Failed, Moved, PastLock, GraphFails

LEMMA NodeKeeps ==
  ASSUME TurnInv, NEW h \in Turns, Node(h)
  PROVE  /\ turn[h].at \in Nodes /\ TurnInv' /\ Moved(h)
         /\ Wrote(h) \/ Failed(h)
<1>1. CASE \/ IdentifyRetap(h) \/ IdentifyFaq(h) \/ Greet(h)
           \/ NotFound(h) \/ LookupFails(h) \/ Found(h)
  <2>1. In(h, "awaiting_identification") /\ TurnInv' /\ Kept(h) BY <1>1, IdentifyKeeps
  <2> QED BY <2>1 DEF In, Nodes, Kept
<1>2. CASE ChooseAside(h) \/ ChooseResolves(h) \/ ChooseFails(h)
  <2>1. In(h, "awaiting_policy_choice") /\ TurnInv' /\ Kept(h) BY <1>2, ChooseKeeps
  <2> QED BY <2>1 DEF In, Nodes, Kept
<1>3. CASE AnswerEscalates(h) \/ AnswerApproved(h) \/ AnswerRejected(h)
  <2>1. In(h, "answering_qa") /\ TurnInv' /\ Kept(h) BY <1>3, AnswerKeeps
  <2> QED BY <2>1 DEF In, Nodes, Kept
<1>4. CASE GraphFails(h)
  <2>1. turn[h].at \in Nodes /\ TurnInv' /\ Failed(h) BY <1>4, FailureKeeps
  <2> QED BY <2>1 DEF Failed
<1> QED BY <1>1, <1>2, <1>3, <1>4 DEF Node

-----------------------------------------------------------------------------
(* The turns around the graph *)

\* Turn h goes to a place outside the graph, with thread th.
LEMMA PlaceKeeps ==
  ASSUME TurnInv, NEW h \in Turns, NEW p \in Places \ (Nodes \cup {"idle"}), NEW th \in Thread,
         turn[h].at # "idle", thread' = thread \/ thread' = Fresh,
         turn' = [turn EXCEPT ![h].at = p, ![h].th = th]
  PROVE  /\ TurnInv' /\ \A g \in Turns \ {h} : turn'[g] = turn[g]
         /\ turn'[h].at = p /\ turn'[h].held = turn[h].held
         /\ turn'[h].clean = turn[h].clean /\ turn'[h].th = th
<1>2. /\ turn' \in [Turns -> Turn] /\ \A g \in Turns \ {h} : turn'[g] = turn[g]
      /\ turn'[h].th = th /\ turn'[h].at = p /\ turn'[h].text = turn[h].text
      /\ turn'[h].held = turn[h].held /\ turn'[h].clean = turn[h].clean
  BY DEF TurnInv, Turn
<1>3. Sound(turn'[h]) BY <1>2 DEF TurnInv, Sound, Nodes
<1>4. \A g \in Turns : Sound(turn'[g]) BY <1>2, <1>3 DEF TurnInv
<1> QED BY <1>2, <1>4, FreshIsThread DEF TurnInv

LEMMA GotoKeeps ==
  ASSUME TurnInv, NEW h \in Turns, NEW p \in Places \ (Nodes \cup {"idle"}), turn[h].at # "idle",
         thread' = thread \/ thread' = Fresh, Goto(h, p)
  PROVE  /\ TurnInv' /\ \A g \in Turns \ {h} : turn'[g] = turn[g]
         /\ turn'[h].at = p /\ turn'[h].held = turn[h].held
         /\ turn'[h].clean = turn[h].clean /\ turn'[h].th = turn[h].th
<1>1. turn' = [turn EXCEPT ![h].at = p, ![h].th = turn[h].th] BY DEF Goto, TurnInv, Turn
<1>2. turn[h].th \in Thread BY HasThread DEF Th
<1> QED BY <1>1, <1>2, PlaceKeeps

\* The reset before the lock: done, not due, or failed.
LEMMA PrepareKeeps ==
  ASSUME TurnInv, NEW h \in Turns, Prepare(h)
  PROVE  /\ TurnInv' /\ \A g \in Turns \ {h} : turn'[g] = turn[g]
         /\ turn'[h].at = "lock" /\ turn'[h].held = turn[h].held
         /\ turn'[h].th = turn[h].th
         /\ \/ turn'[h].clean = turn[h].clean
               /\ thread' = IF ResetIsDue(h) THEN Fresh ELSE thread
            \/ turn'[h].clean = FALSE /\ thread' = thread
<1>1. turn[h].at = "admitted" /\ "lock" \in Places \ (Nodes \cup {"idle"})
  BY DEF Prepare, In, Places, Nodes
<1>2. CASE Goto(h, "lock") /\ thread' = IF ResetIsDue(h) THEN Fresh ELSE thread
  BY <1>1, <1>2, GotoKeeps
<1>3. CASE turn' = [turn EXCEPT ![h].at = "lock", ![h].clean = FALSE] /\ thread' = thread
  <2>1. /\ turn' \in [Turns -> Turn] /\ \A g \in Turns \ {h} : turn'[g] = turn[g]
        /\ turn'[h].th = turn[h].th /\ turn'[h].at = "lock" /\ turn'[h].text = turn[h].text
        /\ turn'[h].held = turn[h].held /\ turn'[h].clean = FALSE
    BY <1>1, <1>3 DEF TurnInv, Turn
  <2>2. Sound(turn'[h]) BY <1>1, <2>1 DEF TurnInv, Sound
  <2>3. \A g \in Turns : Sound(turn'[g]) BY <2>1, <2>2 DEF TurnInv
  <2> QED BY <1>3, <2>1, <2>3 DEF TurnInv
<1> QED BY <1>2, <1>3 DEF Prepare

LEMMA IdleIsSound == Sound(IdleTurn)
<1>1. IdleTurn \in Turn BY FreshIsThread DEF IdleTurn, Turn, Places
<1> QED BY <1>1 DEF Sound, IdleTurn

LEMMA IdleKeeps ==
  ASSUME TurnInv, NEW h \in Turns, turn' = [turn EXCEPT ![h] = IdleTurn], thread' = thread
  PROVE  TurnInv' /\ turn'[h] = IdleTurn /\ \A g \in Turns \ {h} : turn'[g] = turn[g]
BY IdleIsSound DEF TurnInv, Sound

\* The route into the graph gives each node what it needs.
LEMMA EnterKeeps ==
  ASSUME TurnInv, NEW h \in Turns, NEW b \in BOOLEAN, turn[h].at = "lock",
         thread' = thread, Enter(h, b)
  PROVE  /\ TurnInv' /\ \A g \in Turns \ {h} : turn'[g] = turn[g]
         /\ turn'[h].held = b /\ turn'[h].clean = turn[h].clean /\ turn'[h].at \in Nodes
         /\ turn'[h].th = thread
<1> DEFINE p == RouteEntry(thread, Text(h))
<1>1. p \in Nodes /\ p \in Places BY DEF RouteEntry, Nodes, Places
<1>2. /\ p = "awaiting_identification" => thread.poliza = None
      /\ p = "awaiting_policy_choice" => thread.node = "awaiting_policy_choice"
  BY DEF RouteEntry
<1>3. turn' = [turn EXCEPT ![h].th = thread, ![h].held = b, ![h].at = p] BY DEF Enter
<1> HIDE DEF p
<1>4. thread \in Thread BY DEF TurnInv
<1>5. /\ turn' \in [Turns -> Turn] /\ \A g \in Turns \ {h} : turn'[g] = turn[g]
      /\ turn'[h].th = thread /\ turn'[h].at = p /\ turn'[h].text = turn[h].text
      /\ turn'[h].held = b /\ turn'[h].clean = turn[h].clean
  BY <1>1, <1>3, <1>4 DEF TurnInv, Turn
<1>6. Sound(turn'[h]) BY <1>1, <1>2, <1>5 DEF TurnInv, Sound, Nodes
<1>7. \A g \in Turns : Sound(turn'[g]) BY <1>5, <1>6 DEF TurnInv
<1> QED BY <1>1, <1>5, <1>7 DEF TurnInv

LEMMA AdmitKeeps ==
  ASSUME TurnInv, NEW h \in Turns, NEW text \in Texts, Admit(h, text)
  PROVE  /\ TurnInv' /\ turn'[h].at = "admitted" /\ turn'[h].th = Fresh
         /\ turn[h].at = "idle"
         /\ turn'[h].clean => \A g \in Turns : turn[g].at = "idle"
         /\ \A g \in Turns \ {h} : /\ turn'[g].at = turn[g].at /\ turn'[g].held = turn[g].held
                                   /\ turn'[g].th = turn[g].th /\ ~turn'[g].clean
<1>1. PICK b \in BOOLEAN : b = AllIdle BY DEF AllIdle
<1>2. /\ thread' = thread
      /\ turn' = [g \in Turns |->
                    IF g = h THEN [IdleTurn EXCEPT !.at = "admitted", !.text = text, !.clean = b]
                                  ELSE [turn[g] EXCEPT !.clean = FALSE]]
  BY <1>1 DEF Admit
<1> DEFINE new == [IdleTurn EXCEPT !.at = "admitted", !.text = text, !.clean = b]
<1>3. new \in Turn /\ new.at = "admitted" /\ new.th = Fresh /\ new.text = text /\ new.clean = b
  BY IdleIsSound DEF Sound, Turn, IdleTurn, Places
<1>4. Sound(new) BY <1>3 DEF Sound
<1>5. \A g \in Turns : LET o == [turn[g] EXCEPT !.clean = FALSE]
                       IN /\ o \in Turn /\ o.at = turn[g].at /\ o.th = turn[g].th
                          /\ o.text = turn[g].text /\ o.held = turn[g].held /\ o.clean = FALSE
  BY DEF TurnInv, Turn
<1>6. \A g \in Turns : Sound([turn[g] EXCEPT !.clean = FALSE]) BY <1>5 DEF TurnInv, Sound
<1> HIDE DEF new
<1>7. turn'[h] = new /\ \A g \in Turns \ {h} : turn'[g] = [turn[g] EXCEPT !.clean = FALSE]
  BY <1>2 DEF new
<1>8. \A g \in Turns : Sound(turn'[g]) BY <1>4, <1>6, <1>7
<1>9. turn' \in [Turns -> Turn] BY <1>2, <1>8 DEF Sound
<1>10. turn'[h].clean => \A g \in Turns : turn[g].at = "idle"
  BY <1>1, <1>3, <1>7 DEF AllIdle, In
<1> QED BY <1>2, <1>3, <1>5, <1>7, <1>8, <1>9, <1>10 DEF TurnInv, Admit, In

-----------------------------------------------------------------------------
(* Every step *)

LEMMA TurnStep ==
  ASSUME TurnInv, [Next]_vars
  PROVE  TurnInv'
<1>1. ASSUME NEW h \in Turns, NEW text \in Texts, Admit(h, text) PROVE TurnInv'
  BY <1>1, AdmitKeeps
<1>2. ASSUME NEW h \in Turns, Prepare(h) PROVE TurnInv'
  BY <1>2, PrepareKeeps
<1>3. ASSUME NEW h \in Turns, Acquire(h) \/ GiveUp(h) \/ AcquireFails(h) PROVE TurnInv'
  BY <1>3, EnterKeeps DEF Acquire, GiveUp, AcquireFails, In
<1>4. ASSUME NEW h \in Turns, RunNode(h) PROVE TurnInv'
  BY <1>4, NodeKeeps DEF RunNode
<1>5. ASSUME NEW h \in Turns, Send(h) PROVE TurnInv'
  <2>1. PICK p \in {"mute", "release"} : turn' = [turn EXCEPT ![h].at = p, ![h].th = Fresh]
    BY <1>5 DEF Send
  <2> QED BY <1>5, <2>1, PlaceKeeps, FreshIsThread DEF Send, In, Places, Nodes
<1>6. ASSUME NEW h \in Turns, Fallback(h) \/ Mute(h) \/ Alert(h) PROVE TurnInv'
  BY <1>6, GotoKeeps DEF Fallback, Mute, Alert, In, Places, Nodes
<1>7. ASSUME NEW h \in Turns, Release(h) PROVE TurnInv'
  BY <1>7, IdleKeeps DEF Release
<1>8. CASE Crash
  BY <1>8, IdleIsSound DEF Crash, TurnInv, Sound
<1>9. CASE LockExpires \/ Unmute \/ AlertExpires \/ UNCHANGED vars
  BY <1>9 DEF LockExpires, Unmute, AlertExpires, vars, TurnInv
<1> QED BY <1>1, <1>2, <1>3, <1>4, <1>5, <1>6, <1>7, <1>8, <1>9 DEF Next, Task

LEMMA InitTurns == ASSUME Init PROVE TurnInv
  BY IdleIsSound, FreshIsThread DEF Init, TurnInv, Sound

\* The turns that run the graph go on as they were, or work on what is checkpointed.
LEMMA ThreadsStay ==
  ASSUME \A h \in Turns : turn'[h].at \in Nodes =>
           turn'[h].th \in {thread'} \cup (IF turn[h].at \in Nodes THEN {turn[h].th} ELSE {})
  PROVE  Threads' \subseteq Threads \cup {thread'}
BY DEF Threads

\* A step leaves the checkpoint alone, starts over, or is a node's.
Quiet  == thread' = thread /\ Threads' \subseteq Threads
Clears == /\ thread' = Fresh /\ Threads' \subseteq Threads \cup {Fresh}
          /\ \E h \in Turns : In(h, "admitted") /\ (Text(h) = "reset" \/ Ended(thread))
Writes(h) == turn[h].at \in Nodes /\ Wrote(h) /\ Threads' \subseteq Threads \cup {thread'}

LEMMA ThreadMoves ==
  ASSUME TurnInv, [Next]_vars
  PROVE  Quiet \/ Clears \/ \E h \in Turns : RunNode(h) /\ Writes(h)
<1>0. thread \in Threads BY DEF Threads
<1>1. ASSUME NEW h \in Turns, NEW text \in Texts, Admit(h, text) PROVE Quiet
  <2>1. thread' = thread /\ turn'[h].at \notin Nodes BY <1>1, AdmitKeeps DEF Admit, Nodes
  <2>2. Threads' \subseteq Threads \cup {thread'} BY <1>1, <2>1, AdmitKeeps, ThreadsStay
  <2> QED BY <1>0, <2>1, <2>2 DEF Quiet
<1>2. ASSUME NEW h \in Turns, Prepare(h) PROVE Quiet \/ Clears
  <2>1. In(h, "admitted") BY <1>2 DEF Prepare
  <2>2. thread' = thread \/ (thread' = Fresh /\ ResetIsDue(h)) BY <1>2, PrepareKeeps
  <2>3. (\A g \in Turns \ {h} : turn'[g] = turn[g]) /\ turn'[h].at \notin Nodes
    BY <1>2, PrepareKeeps DEF Nodes
  <2>4. Threads' \subseteq Threads \cup {thread'} BY <2>3, ThreadsStay
  <2> QED BY <1>0, <2>1, <2>2, <2>4 DEF Quiet, Clears, ResetIsDue
<1>3. ASSUME NEW h \in Turns, Acquire(h) \/ GiveUp(h) \/ AcquireFails(h) PROVE Quiet
  <2>1. PICK b \in BOOLEAN : thread' = thread /\ turn[h].at = "lock" /\ Enter(h, b)
    BY <1>3 DEF Acquire, GiveUp, AcquireFails, In
  <2>2. turn'[h].th = thread /\ \A g \in Turns \ {h} : turn'[g] = turn[g]
    BY <2>1, EnterKeeps
  <2>3. Threads' \subseteq Threads \cup {thread'} BY <2>1, <2>2, ThreadsStay
  <2> QED BY <1>0, <2>1, <2>3 DEF Quiet
<1>4. ASSUME NEW h \in Turns, RunNode(h) PROVE Quiet \/ (RunNode(h) /\ Writes(h))
  <2>1. turn[h].at \in Nodes /\ Moved(h) /\ (Wrote(h) \/ Failed(h)) BY <1>4, NodeKeeps DEF RunNode
  <2>2. CASE Failed(h)
    <3>1. turn'[h].at \notin Nodes /\ thread' = thread BY <2>2 DEF Failed, Nodes
    <3>2. Threads' \subseteq Threads \cup {thread'} BY <2>1, <3>1, ThreadsStay DEF Moved
    <3> QED BY <1>0, <3>1, <3>2 DEF Quiet
  <2>3. CASE Wrote(h)
    <3>1. turn'[h].th = thread' BY <2>3 DEF Wrote
    <3>2. Threads' \subseteq Threads \cup {thread'} BY <2>1, <3>1, ThreadsStay DEF Moved
    <3> QED BY <1>4, <2>1, <2>3, <3>2 DEF Writes
  <2> QED BY <2>1, <2>2, <2>3
<1>5. ASSUME NEW h \in Turns, Send(h) \/ Fallback(h) \/ Mute(h) \/ Alert(h) PROVE Quiet
  <2>1. thread' = thread /\ turn[h].at \in {"send", "fallback", "mute", "alert"}
    BY <1>5 DEF Send, Fallback, Mute, Alert, In
  <2>2. PICK p \in {"mute", "release", "alert"} :
          Goto(h, p) \/ turn' = [turn EXCEPT ![h].at = p, ![h].th = Fresh]
    BY <1>5 DEF Send, Fallback, Mute, Alert
  <2>3. turn'[h].at = p /\ \A g \in Turns \ {h} : turn'[g] = turn[g]
    BY <2>1, <2>2, GotoKeeps, PlaceKeeps, FreshIsThread DEF Places, Nodes
  <2>4. Threads' \subseteq Threads \cup {thread'} BY <2>3, ThreadsStay DEF Nodes
  <2> QED BY <1>0, <2>1, <2>4 DEF Quiet
<1>6. ASSUME NEW h \in Turns, Release(h) PROVE Quiet
  <2>1. turn' = [turn EXCEPT ![h] = IdleTurn] /\ thread' = thread BY <1>6 DEF Release
  <2>2. turn'[h] = IdleTurn /\ \A g \in Turns \ {h} : turn'[g] = turn[g] BY <2>1, IdleKeeps
  <2>3. turn'[h].at \notin Nodes BY <2>2 DEF IdleTurn, Nodes
  <2>4. Threads' \subseteq Threads \cup {thread'} BY <2>2, <2>3, ThreadsStay
  <2> QED BY <1>0, <2>1, <2>4 DEF Quiet
<1>7. CASE Crash
  <2>1. thread' = thread /\ \A h \in Turns : turn'[h].at \notin Nodes
    BY <1>7 DEF Crash, IdleTurn, Nodes
  <2>2. Threads' \subseteq Threads \cup {thread'} BY <2>1, ThreadsStay
  <2> QED BY <1>0, <2>1, <2>2 DEF Quiet
<1>8. CASE LockExpires \/ Unmute \/ AlertExpires \/ UNCHANGED vars
  BY <1>8 DEF LockExpires, Unmute, AlertExpires, vars, Threads, Quiet
<1> QED BY <1>1, <1>2, <1>3, <1>4, <1>5, <1>6, <1>7, <1>8 DEF Next, Task

\* So a thread of the next state was there, is empty, or is what a node made of one.
LEMMA ThreadsStep ==
  ASSUME TurnInv, [Next]_vars, NEW b \in Threads'
  PROVE  b = Fresh \/ b \in Threads \/ \E a \in Threads : After(a, b)
<1>1. CASE \E h \in Turns : Writes(h)
  <2>1. PICK h \in Turns : Writes(h) BY <1>1
  <2>2. After(turn[h].th, thread') BY <2>1 DEF Writes, Wrote, Th
  <2>3. turn[h].th \in Threads BY <2>1 DEF Writes, Threads
  <2> QED BY <2>1, <2>2, <2>3 DEF Writes
<1> QED BY <1>1, ThreadMoves DEF Quiet, Clears

-----------------------------------------------------------------------------
(* What the bot talks about *)

\* A policy was found under the document, and so was what is offered.
Identified(th) ==
  th.poliza # None => /\ th.doc \in Documents
                      /\ th.poliza \in PoliciesOf[th.doc]
                      /\ th.poliza \in Vigentes \cup {th.number}
Offers(th) ==
  th.node = "awaiting_policy_choice" => /\ th.doc \in Documents
                                        /\ th.plist \subseteq PoliciesOf[th.doc] \cap Vigentes
Good(th) == Identified(th) /\ Offers(th)

GraphInv == TurnInv /\ \A th \in Threads : Good(th)

LEMMA AfterIsGood ==
  ASSUME NEW a, NEW b, Good(a), After(a, b)
  PROVE  Good(b)
<1> USE DEF Good, Identified, Offers
<1>1. CASE Leaves(a, b) BY <1>1 DEF Leaves, After
<1>2. CASE Misses(b) BY <1>2 DEF Misses
<1>3. CASE Fixes(a, b) BY <1>3 DEF Fixes, After
<1>4. CASE Presents(a, b) BY <1>4 DEF Presents
<1>5. CASE Chooses(a, b) BY <1>5 DEF Chooses
<1> QED BY <1>1, <1>2, <1>3, <1>4, <1>5 DEF After

LEMMA FreshIsGood == Good(Fresh)
  BY DEF Good, Identified, Offers, Fresh

LEMMA GraphStep == ASSUME GraphInv, [Next]_vars PROVE GraphInv'
<1>1. TurnInv' BY TurnStep DEF GraphInv
<1>2. ASSUME NEW b \in Threads' PROVE Good(b)
  <2>1. b = Fresh \/ b \in Threads \/ \E a \in Threads : After(a, b)
    BY <1>2, ThreadsStep DEF GraphInv
  <2> QED BY <2>1, AfterIsGood, FreshIsGood DEF GraphInv
<1> QED BY <1>1, <1>2 DEF GraphInv

LEMMA InitGraph == ASSUME Init PROVE GraphInv
<1>1. TurnInv BY InitTurns
<1>2. \A th \in Threads : th = Fresh BY DEF Init, Threads, IdleTurn, Nodes
<1> QED BY <1>1, <1>2, FreshIsGood DEF GraphInv

\* The bot talks about no policy that was not found under the document on which the
\* conversation stands, nor about one out of force that the voice did not call about.
THEOREM PoliciesAreTheClients == Spec => []AnswersIdentified
<1>1. GraphInv => AnswersIdentified BY DEF GraphInv, Threads, Good, Identified, AnswersIdentified
<1> QED BY <1>1, InitGraph, GraphStep, PTL DEF Spec


-----------------------------------------------------------------------------
(* Types *)

LEMMA FlagsStep ==
  ASSUME Flags, [Next]_vars
  PROVE  Flags'
<1>1. ASSUME NEW h \in Turns, NEW text \in Texts, Admit(h, text) PROVE Flags'
  BY <1>1 DEF Admit, Flags, keys, ghosts
<1>2. ASSUME NEW h \in Turns, Prepare(h) \/ RunNode(h) PROVE Flags'
  BY <1>2 DEF Prepare, RunNode, Flags, keys, ghosts
<1>3. ASSUME NEW h \in Turns, Acquire(h) PROVE Flags'
  BY <1>3, Zenon DEF Acquire, Flags, ghosts
<1>4. ASSUME NEW h \in Turns, GiveUp(h) \/ AcquireFails(h) PROVE Flags'
  BY <1>4, Zenon DEF GiveUp, AcquireFails, Flags, keys
<1>5. ASSUME NEW h \in Turns, Send(h) \/ Fallback(h) PROVE Flags'
  BY <1>5, Zenon DEF Send, Fallback, Flags, keys
<1>6. ASSUME NEW h \in Turns, Mute(h) PROVE Flags'
  BY <1>6, Zenon DEF Mute, Flags
<1>7. ASSUME NEW h \in Turns, Alert(h) PROVE Flags'
  BY <1>7, Zenon DEF Alert, Flags
<1>8. ASSUME NEW h \in Turns, Release(h) PROVE Flags'
  BY <1>8, Zenon DEF Release, Flags, ghosts
<1>9. CASE LockExpires BY <1>9, Zenon DEF LockExpires, Flags
<1>10. CASE Unmute BY <1>10, Zenon DEF Unmute, Flags
<1>11. CASE AlertExpires BY <1>11, Zenon DEF AlertExpires, Flags, ghosts
<1>12. CASE Crash \/ UNCHANGED vars BY <1>12 DEF Crash, Flags, vars, keys, ghosts
<1> QED BY <1>1, <1>2, <1>3, <1>4, <1>5, <1>6, <1>7, <1>8, <1>9, <1>10, <1>11, <1>12 DEF Next, Task

\* Nothing takes a fault back, and there is none beyond the bound.
LEMMA CountsStep ==
  ASSUME Counts, [Next]_vars
  PROVE  Counts' /\ (faults' = 0 => faults = 0 /\ ~Fault)
<1>0. MaxFaults \in Nat BY FaultsAssumption
<1>1. faults' = faults \/ Fault
  <2>1. ASSUME NEW h \in Turns, RunNode(h) PROVE faults' = faults \/ Fault
    BY <2>1 DEF RunNode, Node, IdentifyRetap, IdentifyFaq, Greet, NotFound, LookupFails, Found,
       ChooseAside, ChooseResolves, ChooseFails, AnswerEscalates, AnswerApproved, AnswerRejected,
       GraphFails
  <2>2. ASSUME NEW h \in Turns, Task(h), ~RunNode(h) PROVE faults' = faults \/ Fault
    BY <2>2 DEF Task, Prepare, Acquire, GiveUp, AcquireFails, Send, Fallback, Mute, Alert, Release
  <2>3. ASSUME NEW h \in Turns, NEW text \in Texts, Admit(h, text) PROVE faults' = faults
    BY <2>3 DEF Admit
  <2>4. CASE LockExpires \/ Unmute \/ AlertExpires \/ Crash \/ UNCHANGED vars
    BY <2>4 DEF LockExpires, Unmute, AlertExpires, Crash, vars
  <2> QED BY <2>1, <2>2, <2>3, <2>4 DEF Next
<1> QED BY <1>0, <1>1 DEF Counts, Fault

LEMMA InitTypes == ASSUME Init PROVE Flags /\ Counts
<1>1. Flags BY Zenon DEF Init, Flags
<1>2. Counts BY FaultsAssumption DEF Init, Counts
<1> QED BY <1>1, <1>2

\* The values of every variable, and that no counter of retries passes 1.
THEOREM TypeCorrect == Spec => []TypeOK
<1>1. TurnInv /\ Counts /\ Flags => TypeOK
  BY DEF TurnInv, Counts, Flags, TypeOK
<1>2. Init => TurnInv /\ Counts /\ Flags BY InitTurns, InitTypes
<1>3. TurnInv /\ Counts /\ Flags /\ [Next]_vars => TurnInv' /\ Counts' /\ Flags'
  BY TurnStep, CountsStep, FlagsStep
<1> QED BY <1>1, <1>2, <1>3, PTL DEF Spec

-----------------------------------------------------------------------------
(* One turn at a time *)

\* What each action of a turn does to its place and its part of the lock.
Stays(h)   == \A g \in Turns \ {h} : turn'[g].at = turn[g].at /\ turn'[g].held = turn[g].held
Goes(h, p) == Stays(h) /\ turn'[h].at = p /\ turn'[h].held = turn[h].held

LEMMA BeforeLock ==
  ASSUME TurnInv, NEW h \in Turns, (\E text \in Texts : Admit(h, text)) \/ Prepare(h)
  PROVE  /\ lock' = lock /\ late' = late /\ Stays(h) /\ ~Working(h)'
<1>1. CASE \E text \in Texts : Admit(h, text)
  <2>1. lock' = lock /\ late' = late BY <1>1 DEF Admit, keys, ghosts
  <2>2. Stays(h) /\ turn'[h].at = "admitted" BY <1>1, AdmitKeeps DEF Stays
  <2> QED BY <2>1, <2>2 DEF Working, PastLock, Nodes
<1>2. CASE Prepare(h)
  <2>1. lock' = lock /\ late' = late BY <1>2 DEF Prepare, keys, ghosts
  <2>2. Stays(h) /\ turn'[h].at = "lock"
    BY <1>2, PrepareKeeps DEF Stays
  <2> QED BY <2>1, <2>2 DEF Working, PastLock, Nodes
<1> QED BY <1>1, <1>2

LEMMA BehindLock ==
  ASSUME TurnInv, NEW h \in Turns, RunNode(h) \/ Send(h) \/ Fallback(h) \/ Mute(h) \/ Alert(h)
  PROVE  /\ lock' = lock /\ late' = late /\ Working(h) /\ Stays(h)
         /\ turn'[h].held = turn[h].held /\ turn'[h].clean = turn[h].clean
         /\ \A g \in Turns \ {h} : turn'[g] = turn[g]
         /\ turn'[h].at \in PastLock
<1>1. CASE RunNode(h)
  BY <1>1, NodeKeeps DEF RunNode, keys, ghosts, Moved, Stays, Working, PastLock
<1>2. CASE Send(h)
  <2>1. lock' = lock /\ late' = late /\ turn[h].at = "send" /\ thread' = thread
    BY <1>2 DEF Send, keys, In
  <2>2. PICK p \in {"mute", "release"} : turn' = [turn EXCEPT ![h].at = p, ![h].th = Fresh]
    BY <1>2 DEF Send
  <2>3. /\ \A g \in Turns \ {h} : turn'[g] = turn[g]
        /\ turn'[h].at = p /\ turn'[h].held = turn[h].held /\ turn'[h].clean = turn[h].clean
    BY <2>1, <2>2, PlaceKeeps, FreshIsThread DEF Places, Nodes
  <2> QED BY <2>1, <2>3 DEF Stays, Working, PastLock, Nodes
<1>3. CASE Fallback(h) \/ Mute(h) \/ Alert(h)
  <2>1. /\ lock' = lock /\ late' = late /\ turn[h].at \in {"fallback", "mute", "alert"}
        /\ thread' = thread
    BY <1>3 DEF Fallback, Mute, Alert, keys, In
  <2>2. PICK p \in {"mute", "release", "alert"} : Goto(h, p) BY <1>3 DEF Fallback, Mute, Alert
  <2>3. /\ \A g \in Turns \ {h} : turn'[g] = turn[g]
        /\ turn'[h].at = p /\ turn'[h].held = turn[h].held /\ turn'[h].clean = turn[h].clean
    BY <2>1, <2>2, GotoKeeps DEF Places, Nodes
  <2> QED BY <2>1, <2>3 DEF Stays, Working, PastLock, Nodes
<1> QED BY <1>1, <1>2, <1>3

LEMMA LockStep ==
  ASSUME TurnInv, LockInv, [Next]_vars
  PROVE  LockInv'
<1>1. ASSUME NEW h \in Turns, (\E text \in Texts : Admit(h, text)) \/ Prepare(h) PROVE LockInv'
  BY <1>1, BeforeLock DEF LockInv, Working, Stays
<1>2. ASSUME NEW h \in Turns, Acquire(h) PROVE LockInv'
  <2>1. /\ ~lock /\ lock' = TRUE /\ UNCHANGED <<late, thread>>
        /\ turn[h].at = "lock" /\ Enter(h, TRUE)
    BY <1>2 DEF Acquire, LockIsFree, ghosts, In
  <2>2. (\A g \in Turns \ {h} : turn'[g] = turn[g]) /\ turn'[h].held = TRUE
    BY <2>1, EnterKeeps
  <2> QED BY <2>1, <2>2 DEF LockInv, Working
<1>3. ASSUME NEW h \in Turns, GiveUp(h) \/ AcquireFails(h) PROVE LockInv'
  BY <1>3 DEF GiveUp, AcquireFails, LockInv
<1>4. ASSUME NEW h \in Turns, RunNode(h) \/ Send(h) \/ Fallback(h) \/ Mute(h) \/ Alert(h)
      PROVE  LockInv'
  BY <1>4, BehindLock DEF LockInv, Working
<1>5. ASSUME NEW h \in Turns, Release(h) PROVE LockInv'
  <2>1. /\ turn[h].at = "release" /\ lock' = (lock /\ ~turn[h].held) /\ late' = late
        /\ turn' = [turn EXCEPT ![h] = IdleTurn] /\ thread' = thread
    BY <1>5 DEF Release, In, ghosts
  <2>2. turn'[h] = IdleTurn /\ \A g \in Turns \ {h} : turn'[g] = turn[g] BY <2>1, IdleKeeps
  <2>3. Working(h) /\ ~Working(h)' BY <2>1, <2>2 DEF Working, PastLock, IdleTurn, Nodes
  <2> QED BY <2>1, <2>2, <2>3 DEF LockInv, Working
<1>6. CASE LockExpires
  BY <1>6 DEF LockExpires, LockInv, Working
<1>7. CASE Crash
  BY <1>7 DEF Crash, LockInv, Working, IdleTurn, PastLock, Nodes
<1>8. CASE Unmute \/ AlertExpires \/ UNCHANGED vars
  BY <1>8 DEF Unmute, AlertExpires, vars, keys, ghosts, LockInv, Working
<1> QED BY <1>1, <1>2, <1>3, <1>4, <1>5, <1>6, <1>7, <1>8 DEF Next, Task

\* Two turns never run the graph over the client's thread at once, unless one was
\* slower than the lock, waited it out, or Redis failed.
THEOREM OneTurnAtATime == Spec => []TurnsDontCollide
<1>0. Init => TurnInv BY InitTurns
<1>1. Init => LockInv BY DEF Init, LockInv, Working, IdleTurn, PastLock, Nodes
<1>2. LockInv => TurnsDontCollide BY DEF LockInv, TurnsDontCollide
<1>3. TurnInv /\ LockInv /\ [Next]_vars => TurnInv' /\ LockInv' BY TurnStep, LockStep
<1> QED BY <1>0, <1>1, <1>2, <1>3, PTL DEF Spec

-----------------------------------------------------------------------------
(* After an escalation *)

\* A turn that has handed the client over and has not muted the bot yet.
Pending(h) == \/ turn[h].at = "mute"
              \/ turn[h].at = "send" /\ turn[h].th.node = "escalating"
MuteInv ==
  faults = 0 /\ thread.node = "escalating" => muted \/ released \/ \E h \in Turns : Pending(h)

LEMMA MuteStays ==
  ASSUME MuteInv, NEW h \in Turns,
         \A g \in Turns \ {h} : turn'[g].at = turn[g].at /\ turn'[g].th = turn[g].th,
         Pending(h) => Pending(h)', muted' = muted, released' = released,
         thread' = thread \/ thread'.node # "escalating", faults' = 0 => faults = 0
  PROVE  MuteInv'
  BY DEF MuteInv, Pending

LEMMA MuteStep ==
  ASSUME TurnInv, Counts, MuteInv, [Next]_vars
  PROVE  MuteInv'
<1>0. faults' = 0 => faults = 0 /\ ~Fault BY CountsStep
<1>1. ASSUME NEW h \in Turns, NEW text \in Texts, Admit(h, text) PROVE MuteInv'
  <2>1. /\ muted' = muted /\ released' = released /\ thread' = thread /\ turn[h].at = "idle"
    BY <1>1 DEF Admit, In, keys, ghosts
  <2> QED BY <1>0, <1>1, <2>1, AdmitKeeps, MuteStays DEF Pending
<1>2. ASSUME NEW h \in Turns, Prepare(h) PROVE MuteInv'
  <2>1. /\ muted' = muted /\ released' = released /\ turn[h].at = "admitted"
    BY <1>2 DEF Prepare, In, keys, ghosts
  <2>2. /\ \A g \in Turns \ {h} : turn'[g] = turn[g]
        /\ thread' = thread \/ thread' = Fresh
    BY <1>2, PrepareKeeps
  <2> QED BY <1>0, <2>1, <2>2, MuteStays DEF Pending, Fresh
<1>3. ASSUME NEW h \in Turns, Acquire(h) \/ GiveUp(h) \/ AcquireFails(h) PROVE MuteInv'
  <2>1. PICK b \in BOOLEAN :
          /\ muted' = muted /\ released' = released /\ thread' = thread
          /\ turn[h].at = "lock" /\ Enter(h, b)
    BY <1>3 DEF Acquire, GiveUp, AcquireFails, In, keys, ghosts
  <2>2. \A g \in Turns \ {h} : turn'[g] = turn[g] BY <2>1, EnterKeeps
  <2> QED BY <1>0, <2>1, <2>2, MuteStays DEF Pending
<1>4. ASSUME NEW h \in Turns, RunNode(h) PROVE MuteInv'
  <2>1. muted' = muted /\ released' = released /\ Node(h) BY <1>4 DEF RunNode, keys, ghosts
  <2>2. turn[h].at \in Nodes /\ Moved(h) /\ (Wrote(h) \/ Fault)
    BY <2>1, NodeKeeps DEF Failed
  <2>3. ~Pending(h) BY <2>2 DEF Pending, Nodes
  <2>4. CASE Fault BY <1>0, <2>4 DEF MuteInv
  <2>5. CASE Wrote(h) /\ thread'.node = "escalating" BY <2>5 DEF MuteInv, Pending, Wrote, GoesOn
  <2>6. CASE thread'.node # "escalating" BY <2>6 DEF MuteInv
  <2> QED BY <2>2, <2>4, <2>5, <2>6
<1>5. ASSUME NEW h \in Turns, Send(h) PROVE MuteInv'
  <2>1. /\ muted' = muted /\ released' = released /\ thread' = thread
        /\ turn[h].at = "send"
        /\ turn' = [turn EXCEPT ![h].at = IF Escalated(h) THEN "mute" ELSE "release",
                                ![h].th = Fresh]
    BY <1>5 DEF Send, In, keys
  <2>2. PICK p \in {"mute", "release"} : p = IF Escalated(h) THEN "mute" ELSE "release" OBVIOUS
  <2>3. (\A g \in Turns \ {h} : turn'[g] = turn[g]) /\ turn'[h].at = p
    BY <2>1, <2>2, PlaceKeeps, FreshIsThread DEF Places, Nodes
  <2>4. Pending(h) => Pending(h)' BY <2>1, <2>2, <2>3 DEF Pending, Escalated, Th
  <2> QED BY <1>0, <2>1, <2>3, <2>4, MuteStays
<1>6. ASSUME NEW h \in Turns, Fallback(h) \/ Alert(h) \/ Release(h) PROVE MuteInv'
  <2>1. /\ muted' = muted /\ released' = released /\ thread' = thread
        /\ turn[h].at \in {"fallback", "alert", "release"}
    BY <1>6 DEF Fallback, Alert, Release, In, keys, ghosts
  <2>2. \A g \in Turns \ {h} : turn'[g] = turn[g]
    BY <1>6, BehindLock, IdleKeeps DEF Release
  <2> QED BY <1>0, <2>1, <2>2, MuteStays DEF Pending
<1>7. ASSUME NEW h \in Turns, Mute(h) PROVE MuteInv'
  BY <1>7 DEF Mute, MuteInv
<1>8. CASE Crash
  BY <1>0, <1>8 DEF Crash, MuteInv
<1>9. CASE Unmute
  BY <1>9 DEF Unmute, MuteInv
<1>10. CASE LockExpires \/ AlertExpires \/ UNCHANGED vars
  BY <1>10 DEF LockExpires, AlertExpires, vars, keys, ghosts, MuteInv, Pending
<1> QED BY <1>1, <1>2, <1>3, <1>4, <1>5, <1>6, <1>7, <1>8, <1>9, <1>10 DEF Next, Task

\* A client who was handed over and whose turns are over is not answered by the bot,
\* unless an agent resolved, the grace passed, or a call failed.
THEOREM HandedOverIsMuted == Spec => []EscalatedIsMuted
<1>1. Init => TurnInv /\ Counts BY InitTurns, InitTypes
<1>2. Init => MuteInv BY DEF Init, MuteInv, Fresh
<1>3. MuteInv => EscalatedIsMuted BY DEF MuteInv, EscalatedIsMuted, Pending, AllIdle, In
<1>4. TurnInv /\ Counts /\ MuteInv /\ [Next]_vars => TurnInv' /\ Counts' /\ MuteInv'
  BY TurnStep, CountsStep, MuteStep
<1> QED BY <1>1, <1>2, <1>3, <1>4, PTL DEF Spec

\* A turn that has handed the client over and has not alerted the team yet.
Alerting(h) == turn[h].at \in {"mute", "alert"}
ToldInv ==
  faults = 0 => alerted # "failed" /\ (untold => \E h \in Turns : Alerting(h))

LEMMA ToldStays ==
  ASSUME ToldInv, NEW h \in Turns, \A g \in Turns \ {h} : turn'[g].at = turn[g].at,
         Alerting(h) => Alerting(h)', untold' = untold, alerted' = alerted,
         faults' = 0 => faults = 0
  PROVE  ToldInv'
  BY DEF ToldInv, Alerting

LEMMA ToldStep ==
  ASSUME TurnInv, Counts, Flags, ToldInv, [Next]_vars
  PROVE  ToldInv'
<1>0. faults' = 0 => faults = 0 /\ ~Fault BY CountsStep
<1>1. ASSUME NEW h \in Turns, (\E text \in Texts : Admit(h, text)) \/ Prepare(h) PROVE ToldInv'
  <2>1. untold' = untold /\ alerted' = alerted /\ ~Alerting(h)
    BY <1>1 DEF Admit, Prepare, keys, ghosts, Alerting, In
  <2>2. Stays(h) BY <1>1, BeforeLock
  <2> QED BY <1>0, <2>1, <2>2, ToldStays DEF Stays
<1>2. ASSUME NEW h \in Turns, Acquire(h) \/ GiveUp(h) \/ AcquireFails(h) PROVE ToldInv'
  <2>1. PICK b \in BOOLEAN :
          /\ untold' = untold /\ alerted' = alerted /\ thread' = thread
          /\ turn[h].at = "lock" /\ Enter(h, b)
    BY <1>2 DEF Acquire, GiveUp, AcquireFails, In, keys, ghosts
  <2>2. \A g \in Turns \ {h} : turn'[g] = turn[g] BY <2>1, EnterKeeps
  <2> QED BY <1>0, <2>1, <2>2, ToldStays DEF Alerting
<1>3. ASSUME NEW h \in Turns, RunNode(h) PROVE ToldInv'
  <2>1. untold' = untold /\ alerted' = alerted /\ turn[h].at \in Nodes
    BY <1>3, NodeKeeps DEF RunNode, keys, ghosts
  <2>2. Stays(h) BY <1>3, BehindLock
  <2> QED BY <1>0, <2>1, <2>2, ToldStays DEF Stays, Alerting, Nodes
<1>4. ASSUME NEW h \in Turns, Send(h) PROVE ToldInv'
  <2>1. /\ untold' = (untold \/ Escalated(h)) /\ alerted' = alerted /\ thread' = thread
        /\ turn[h].at = "send"
        /\ turn' = [turn EXCEPT ![h].at = IF Escalated(h) THEN "mute" ELSE "release",
                                ![h].th = Fresh]
    BY <1>4 DEF Send, In, keys
  <2>2. PICK p \in {"mute", "release"} : p = IF Escalated(h) THEN "mute" ELSE "release" OBVIOUS
  <2>3. (\A g \in Turns \ {h} : turn'[g] = turn[g]) /\ turn'[h].at = p
    BY <2>1, <2>2, PlaceKeeps, FreshIsThread DEF Places, Nodes
  <2> QED BY <1>0, <2>1, <2>2, <2>3 DEF ToldInv, Alerting
<1>5. ASSUME NEW h \in Turns, Fallback(h) PROVE ToldInv'
  <2>1. CASE Fault BY <1>0, <2>1 DEF ToldInv
  <2>2. CASE Goto(h, "mute")
    <3>1. alerted' = alerted /\ thread' = thread /\ turn[h].at = "fallback"
      BY <1>5 DEF Fallback, keys, In
    <3>2. turn'[h].at = "mute" BY <2>2, <3>1, GotoKeeps DEF Places, Nodes
    <3> QED BY <1>0, <3>1, <3>2 DEF ToldInv, Alerting
  <2> QED BY <1>5, <2>1, <2>2 DEF Fallback
<1>6. ASSUME NEW h \in Turns, Mute(h) PROVE ToldInv'
  <2>1. untold' = untold /\ alerted' = alerted /\ thread' = thread /\ turn[h].at = "mute"
        /\ Goto(h, "alert")
    BY <1>6 DEF Mute, In
  <2>2. (\A g \in Turns \ {h} : turn'[g] = turn[g]) /\ turn'[h].at = "alert"
    BY <2>1, GotoKeeps DEF Places, Nodes
  <2> QED BY <1>0, <2>1, <2>2, ToldStays DEF Alerting
<1>7. ASSUME NEW h \in Turns, Alert(h) PROVE ToldInv'
  <2>1. CASE alerted # "none" /\ untold' = (alerted # "sent") /\ alerted' = alerted
    <3>1. faults' = 0 => alerted = "sent" BY <1>0, <2>1 DEF ToldInv, Flags
    <3>2. alerted = "sent" => ~untold' BY <2>1
    <3> QED BY <2>1, <3>1, <3>2 DEF ToldInv
  <2>2. CASE alerted' = "sent" /\ untold' = FALSE BY <2>2 DEF ToldInv
  <2>3. CASE Fault BY <1>0, <2>3 DEF ToldInv
  <2> QED BY <1>7, <2>1, <2>2, <2>3 DEF Alert, Deduped
<1>8. ASSUME NEW h \in Turns, Release(h) PROVE ToldInv'
  <2>1. untold' = untold /\ alerted' = alerted /\ thread' = thread /\ turn[h].at = "release"
        /\ turn' = [turn EXCEPT ![h] = IdleTurn]
    BY <1>8 DEF Release, In, ghosts
  <2>2. \A g \in Turns \ {h} : turn'[g] = turn[g] BY <2>1, IdleKeeps
  <2> QED BY <1>0, <2>1, <2>2, ToldStays DEF Alerting
<1>9. CASE Crash
  BY <1>0, <1>9 DEF Crash, ToldInv
<1>10. CASE AlertExpires
  BY <1>10 DEF AlertExpires, ToldInv, Alerting, ghosts
<1>11. CASE LockExpires \/ Unmute \/ UNCHANGED vars
  BY <1>11 DEF LockExpires, Unmute, vars, keys, ghosts, ToldInv, Alerting
<1> QED BY <1>1, <1>2, <1>3, <1>4, <1>5, <1>6, <1>7, <1>8, <1>9, <1>10, <1>11 DEF Next, Task

\* The dedup of the alerts swallows none: without failures, the team was told of the
\* last escalation once the turns are over, or of one in the 30 minutes before.
THEOREM EscalationsAreTold == Spec => []TeamIsTold
<1>1. Init => TurnInv /\ Counts /\ Flags BY InitTurns, InitTypes
<1>2. Init => ToldInv BY DEF Init, ToldInv
<1>3. ToldInv => TeamIsTold BY DEF ToldInv, TeamIsTold, Alerting, AllIdle, In
<1>4. TurnInv /\ Counts /\ Flags /\ ToldInv /\ [Next]_vars
        => TurnInv' /\ Counts' /\ Flags' /\ ToldInv'
  BY TurnStep, CountsStep, FlagsStep, ToldStep
<1> QED BY <1>1, <1>2, <1>3, <1>4, PTL DEF Spec

-----------------------------------------------------------------------------
(* After that, anew *)

\* A turn that ran alone so far: no other is under way, and when it waits for the
\* lock the thread of an escalated conversation is gone.
AloneInv ==
  \A h \in Turns : turn[h].at # "idle" /\ turn[h].clean =>
    /\ \A g \in Turns \ {h} : turn[g].at = "idle"
    /\ turn[h].at = "lock" => thread.node # "escalating"

\* A turn that is not at the lock afterwards disturbs no other that ran alone.
LEMMA AloneStays ==
  ASSUME AloneInv, NEW h \in Turns, turn[h].at # "idle",
         \A g \in Turns \ {h} : turn'[g] = turn[g],
         turn'[h].clean => turn[h].clean \/ turn'[h].at = "idle",
         turn'[h].at = "lock" /\ turn'[h].clean => thread'.node # "escalating"
  PROVE  AloneInv'
  BY DEF AloneInv

LEMMA AloneStep ==
  ASSUME TurnInv, AloneInv, [Next]_vars
  PROVE  AloneInv'
<1>1. ASSUME NEW h \in Turns, NEW text \in Texts, Admit(h, text) PROVE AloneInv'
  <2>1. /\ turn'[h].at = "admitted"
        /\ turn'[h].clean => \A g \in Turns : turn[g].at = "idle"
        /\ \A g \in Turns \ {h} : turn'[g].at = turn[g].at /\ ~turn'[g].clean
    BY <1>1, AdmitKeeps
  <2> QED BY <2>1 DEF AloneInv
<1>2. ASSUME NEW h \in Turns, Prepare(h) PROVE AloneInv'
  <2>1. turn[h].at = "admitted" BY <1>2 DEF Prepare, In
  <2>2. /\ \A g \in Turns \ {h} : turn'[g] = turn[g]
        /\ turn'[h].at = "lock"
        /\ \/ turn'[h].clean = turn[h].clean
              /\ thread' = IF ResetIsDue(h) THEN Fresh ELSE thread
           \/ turn'[h].clean = FALSE
    BY <1>2, PrepareKeeps
  <2>3. turn'[h].clean = TRUE => turn[h].clean /\ thread'.node # "escalating"
    BY <2>2 DEF ResetIsDue, Ended, Fresh
  <2>4. turn'[h].clean \in BOOLEAN BY <1>2, PrepareKeeps DEF TurnInv, Turn
  <2> QED BY <2>1, <2>2, <2>3, <2>4, AloneStays
<1>3. ASSUME NEW h \in Turns, Acquire(h) \/ GiveUp(h) \/ AcquireFails(h) PROVE AloneInv'
  <2>1. PICK b \in BOOLEAN : thread' = thread /\ turn[h].at = "lock" /\ Enter(h, b)
    BY <1>3 DEF Acquire, GiveUp, AcquireFails, In
  <2>2. /\ \A g \in Turns \ {h} : turn'[g] = turn[g]
        /\ turn'[h].clean = turn[h].clean /\ turn'[h].at # "lock"
    BY <2>1, EnterKeeps DEF Nodes
  <2> QED BY <2>1, <2>2, AloneStays
<1>4. ASSUME NEW h \in Turns, RunNode(h) \/ Send(h) \/ Fallback(h) \/ Mute(h) \/ Alert(h)
      PROVE  AloneInv'
  <2>1. /\ Working(h) /\ turn'[h].clean = turn[h].clean /\ turn'[h].at \in PastLock
        /\ \A g \in Turns \ {h} : turn'[g] = turn[g]
    BY <1>4, BehindLock
  <2> QED BY <2>1, AloneStays DEF Working, PastLock, Nodes
<1>5. ASSUME NEW h \in Turns, Release(h) PROVE AloneInv'
  <2>1. /\ turn[h].at = "release" /\ turn' = [turn EXCEPT ![h] = IdleTurn] /\ thread' = thread
    BY <1>5 DEF Release, In
  <2>2. turn'[h] = IdleTurn /\ \A g \in Turns \ {h} : turn'[g] = turn[g] BY <2>1, IdleKeeps
  <2> QED BY <2>1, <2>2, AloneStays DEF IdleTurn
<1>6. CASE Crash
  BY <1>6 DEF Crash, AloneInv, IdleTurn
<1>7. CASE LockExpires \/ Unmute \/ AlertExpires \/ UNCHANGED vars
  BY <1>7 DEF LockExpires, Unmute, AlertExpires, vars, AloneInv
<1> QED BY <1>1, <1>2, <1>3, <1>4, <1>5, <1>6, <1>7 DEF Next, Task

\* No turn goes on where an escalated conversation stopped, unless another ran beside
\* it or its own reset failed: the reset comes before the lock, and nobody else writes.
THEOREM AnewAfterEscalation == Spec => StartsOver
<1>1. Init => TurnInv BY InitTurns
<1>2. Init => AloneInv BY DEF Init, AloneInv, IdleTurn
<1>3. TurnInv /\ AloneInv /\ [Next]_vars => TurnInv' /\ AloneInv' BY TurnStep, AloneStep
<1>4. AloneInv => [\A h \in Turns : In(h, "lock") /\ Working(h)' /\ turn[h].clean
                     => thread.node # "escalating"]_vars
  BY DEF AloneInv, In
<1> QED BY <1>1, <1>2, <1>3, <1>4, PTL DEF Spec, StartsOver
=============================================================================
