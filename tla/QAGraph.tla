------------------------------- MODULE QAGraph -------------------------------
(***************************************************************************)
(* The Q&A graph: the LangGraph thread of one client and the nodes that a  *)
(* turn (one text of the client) runs over it. A node is one action: it    *)
(* reads the turn's copy of the state and ends with the checkpoint that    *)
(* LangGraph writes after every node. What the LLM, the judge and          *)
(* SoftSeguros answer is a nondeterministic choice.                        *)
(*                                                                         *)
(* A text is what the nodes tell apart: a document number, a row of a      *)
(* policy list, or a word of Words. Paging, wording and the balance menu   *)
(* are left out. The payment nodes are not reached from here: the jobs of  *)
(* comprobantes use another thread_id (without the +), see PaymentFlow.    *)
(***************************************************************************)
EXTENDS Integers, FiniteSets

CONSTANTS
  Policies,    \* numero_poliza, also the id of its row in a list
  Vigentes,    \* the policies in force
  Documents,   \* the documents SoftSeguros knows
  PoliciesOf,  \* the policies of each document
  Texts,       \* what the client writes or taps
  None,        \* no document, no policy
  Turns,       \* bound: turns under way at once
  MaxFaults    \* bound: failed calls, ends of the process

Words == {"reset",     \* "hola", "menu": _RESET_RE
          "tap",       \* the payload of a handoff template's button
          "human",     \* asks for a person: ESCAPE_REGEX
          "unseen",    \* does not recognise any policy: _NO_RECONOCE_RE
          "faq", "which", "faqHuman",   \* FAQs: informative, cual_poliza, escalate=True
          "chat"}      \* anything else

ASSUME PoliciesAssumption == Vigentes \subseteq Policies /\ None \notin Policies \cup Documents
ASSUME DocumentsAssumption ==
  PoliciesOf \in [Documents -> SUBSET Policies] /\ Documents \cap (Policies \cup Words) = {}
ASSUME TextsAssumption  == Texts \subseteq Documents \cup Policies \cup Words
ASSUME FaultsAssumption == MaxFaults \in Nat /\ Policies \cap Words = {}

Faqs    == {"faq", "which", "faqHuman"}
DocLike == Documents \cup Policies       \* _DOC_LIKE_RE: digits

VARIABLES
  thread,   \* the latest checkpoint of the client's thread
  turn,     \* the turns under way
  faults    \* faults spent so far

Nodes  == {"awaiting_identification", "awaiting_policy_choice", "answering_qa"}
Places == Nodes \cup {"idle", "admitted", "lock", "send", "fallback", "mute", "alert", "release"}

\* The state of a thread that does not exist: every field at its default.
Fresh == [node |-> "none", asked |-> FALSE, doc |-> None, plist |-> {}, poliza |-> None,
          docRetries |-> 0, choiceRetries |-> 0, judgeRetries |-> 0,
          number |-> None]               \* handoff_numero_poliza (and its hint)

Thread == [node: Nodes \cup {"none", "escalating"}, asked: BOOLEAN,
           doc: Documents \cup Texts \cup {None}, plist: SUBSET Policies,
           poliza: Policies \cup {None}, docRetries: 0 .. 1, choiceRetries: 0 .. 1,
           judgeRetries: 0 .. 1, number: Policies \cup {None}]

\* held: it acquired the lock. clean: no other turn was under way meanwhile, and its
\* reset did not fail.
IdleTurn == [at |-> "idle", text |-> "chat", th |-> Fresh, held |-> FALSE, clean |-> FALSE]

Turn == [at: Places, text: Texts \cup {"chat"}, th: Thread, held: BOOLEAN, clean: BOOLEAN]

-----------------------------------------------------------------------------
(* Helpers *)

In(h, place) == turn[h].at = place
Text(h)      == turn[h].text
Th(h)        == turn[h].th

Fault == faults < MaxFaults /\ faults' = faults + 1

\* The end of a node: its update merged into the state, and the checkpoint.
Checkpoint(h, th, place) ==
  /\ thread' = th
  /\ turn' = [turn EXCEPT ![h].th = th, ![h].at = place]

Replies(h, th) == Checkpoint(h, th, "send")

\* A node that decides "escalating" leads to node_escalate, which only audits.
Escalates(h) == Replies(h, [Th(h) EXCEPT !.node = "escalating"])

-----------------------------------------------------------------------------
(* Entry: graph.py *)

RouteEntry(th, text) ==
  IF text = "human" \/ th.poliza # None THEN "answering_qa"     \* force_escalate
  ELSE IF th.plist # {} /\ th.node = "awaiting_policy_choice"
       THEN "awaiting_policy_choice" ELSE "awaiting_identification"

\* ainvoke: the turn works on the latest checkpoint.
Enter(h, holds) ==
  turn' = [turn EXCEPT ![h].th = thread, ![h].held = holds, ![h].at = RouteEntry(thread, Text(h))]

-----------------------------------------------------------------------------
(* node_identify *)

AsksDocument(h) ==
  Replies(h, [Th(h) EXCEPT !.node = "awaiting_identification", !.asked = TRUE])

\* Mutant: only the button of the template makes use of the document.
Given_Tap(h) == IF Th(h).asked \/ Text(h) # "tap" THEN None ELSE Th(h).doc

\* handoff_doc: the document that a handoff left, until the bot asks for one.
Given(h)  == IF Th(h).asked THEN None ELSE Th(h).doc
Retaps(h) == Th(h).asked /\ Text(h) = "tap"

\* A second tap on the template's button is not a document.
IdentifyRetap(h) ==
  /\ In(h, "awaiting_identification") /\ Retaps(h)
  /\ AsksDocument(h)
  /\ UNCHANGED faults

IdentifyFaq(h) ==
  /\ In(h, "awaiting_identification") /\ Given(h) = None /\ Text(h) \in Faqs
  /\ IF Text(h) = "faqHuman" THEN Escalates(h) ELSE AsksDocument(h)
  /\ UNCHANGED faults

Greet(h) ==
  /\ In(h, "awaiting_identification") /\ Given(h) = None /\ Text(h) \notin Faqs
  /\ ~Th(h).asked
  /\ AsksDocument(h)
  /\ UNCHANGED faults

DocInput(h) == IF Given(h) = None THEN Text(h) ELSE Given(h)
LooksUp(h) ==
  /\ In(h, "awaiting_identification")
  /\ \/ Given(h) # None
     \/ Th(h).asked /\ Text(h) \notin Faqs \cup {"tap"}

\* _retry_or_escalate: the second failure goes to a human.
RetryOrEscalate(h, doc) ==
  IF Th(h).docRetries >= 1
  THEN Escalates(h)
  ELSE Replies(h, [Th(h) EXCEPT !.node = "awaiting_identification", !.asked = TRUE,
                                !.doc = doc, !.docRetries = @ + 1])

\* 404 in every variant of the number: asks again, without a limit.
NotFound(h) ==
  /\ LooksUp(h) /\ DocInput(h) \notin Documents
  /\ AsksDocument(h)
  /\ UNCHANGED faults

LookupFails(h) ==
  /\ LooksUp(h) /\ Fault
  /\ \/ RetryOrEscalate(h, DocInput(h))
     \/ Escalates(h)                          \* the breaker is open

Locked(th, p, list, doc) ==
  [th EXCEPT !.node = "answering_qa", !.poliza = p, !.plist = list, !.doc = doc]

\* The policy the handoff named, in force or not, if the client has it. A real
\* question goes on to node_answer in the same turn.
Matched(h) ==
  LET p == Th(h).number IN
  Checkpoint(h, Locked(Th(h), p, {p}, DocInput(h)),
             IF Text(h) \in DocLike \cup {"tap"} THEN "send" ELSE "answering_qa")

\* Mutant: every policy, in force or not.
Listed_All(owned) == owned
Listed(owned)     == owned \cap Vigentes      \* _vigentes_unicas

Offered(h, list) ==
  CASE list = {} -> Replies(h, [Th(h) EXCEPT !.node = "escalating", !.doc = DocInput(h)])
    [] Cardinality(list) = 1 ->
         \E p \in list : Replies(h, Locked(Th(h), p, list, DocInput(h)))
    [] OTHER -> Replies(h, [Th(h) EXCEPT !.node = "awaiting_policy_choice", !.plist = list,
                                         !.doc = DocInput(h)])

\* The policy of the handoff is looked for among all, in force or not.
MatchHint(owned, number) == number \in owned

Found(h) ==
  LET owned == PoliciesOf[DocInput(h)] IN
  /\ LooksUp(h) /\ DocInput(h) \in Documents
  /\ IF owned = {} THEN RetryOrEscalate(h, DocInput(h))
     ELSE IF MatchHint(owned, Th(h).number) THEN Matched(h)
     ELSE Offered(h, Listed(owned))
  /\ UNCHANGED faults

-----------------------------------------------------------------------------
(* node_choose_policy *)

Relist(h) == Replies(h, [Th(h) EXCEPT !.node = "awaiting_policy_choice"])

ChooseAside(h) ==
  /\ In(h, "awaiting_policy_choice") /\ Text(h) \in Faqs \cup {"tap", "unseen"}
  /\ IF Text(h) \in {"unseen", "faqHuman"} THEN Escalates(h)
     ELSE IF Text(h) = "which" /\ MatchHint(Th(h).plist, Th(h).number)
     THEN Replies(h, Locked(Th(h), Th(h).number, {Th(h).number}, Th(h).doc))
     ELSE Relist(h)
  /\ UNCHANGED faults

Unaided(h) == Text(h) \notin Faqs \cup {"tap", "unseen"} \cup Th(h).plist

\* A row of the list, or what its number, its insured object or the LLM suggests.
ChooseResolves(h) ==
  /\ In(h, "awaiting_policy_choice")
  /\ \E p \in Th(h).plist :
       /\ Text(h) = p \/ Unaided(h)
       /\ Replies(h, Locked(Th(h), p, Th(h).plist, Th(h).doc))
  /\ UNCHANGED faults

\* Mutant: a third attempt.
LastChoice_Third(th) == th.choiceRetries + 1 > 2
LastChoice(th)       == th.choiceRetries + 1 >= 2

ChooseFails(h) ==
  /\ In(h, "awaiting_policy_choice") /\ Unaided(h)
  /\ IF LastChoice(Th(h))
     THEN Escalates(h)
     ELSE Replies(h, [Th(h) EXCEPT !.node = "awaiting_policy_choice", !.choiceRetries = @ + 1])
  /\ UNCHANGED faults

-----------------------------------------------------------------------------
(* node_answer *)

\* force_escalate or a FAQ, before any LLM call; or the LLM calls escalate_to_human.
AnswerEscalates(h) ==
  /\ In(h, "answering_qa")
  /\ Escalates(h)
  /\ UNCHANGED faults

AnswerApproved(h) ==
  /\ In(h, "answering_qa") /\ Text(h) \notin {"human", "faqHuman"}
  /\ Replies(h, [Th(h) EXCEPT !.node = "answering_qa", !.judgeRetries = 0])
  /\ UNCHANGED faults

\* Mutant: the counter of the rejections does not reach the checkpoint.
Rejected_NotCounted(th) == [th EXCEPT !.node = "answering_qa"]
Rejected(th)            == [th EXCEPT !.node = "answering_qa", !.judgeRetries = @ + 1]

\* No message: the graph loops into node_answer once more.
AnswerRejected(h) ==
  /\ In(h, "answering_qa") /\ Text(h) \notin {"human", "faqHuman"}
  /\ IF Th(h).judgeRetries >= 1 THEN Escalates(h)
     ELSE Checkpoint(h, Rejected(Th(h)), "answering_qa")
  /\ UNCHANGED faults

-----------------------------------------------------------------------------
\* The LLM or the checkpointer raises: what earlier nodes wrote stays.
GraphFails(h) ==
  /\ turn[h].at \in Nodes
  /\ Fault
  /\ turn' = [turn EXCEPT ![h].at = "fallback", ![h].th = Fresh]
  /\ UNCHANGED thread

Node(h) ==
  \/ IdentifyRetap(h) \/ IdentifyFaq(h) \/ Greet(h) \/ NotFound(h) \/ LookupFails(h) \/ Found(h)
  \/ ChooseAside(h) \/ ChooseResolves(h) \/ ChooseFails(h)
  \/ AnswerEscalates(h) \/ AnswerApproved(h) \/ AnswerRejected(h)
  \/ GraphFails(h)
=============================================================================
