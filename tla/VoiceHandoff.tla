---------------------------- MODULE VoiceHandoff ----------------------------
(***************************************************************************)
(* The voice agent hands a client over to WhatsApp: it asks for a template *)
(* after an unanswered call, or cedes a live case with a message. Either   *)
(* request records the case, writes to the client and seeds the client's   *)
(* thread, so that the conversation that follows is about the policy of    *)
(* the call and the document the voice gave is not asked for again.        *)
(* Seeding deletes and rewrites the thread without the conversation lock,  *)
(* so it interleaves with the turns of Conversation.                       *)
(*                                                                         *)
(* A request that ends in a 500 may come again: it is another request. The *)
(* message of a case stands for its call_id and its text.                  *)
(***************************************************************************)
EXTENDS Conversation

CONSTANTS
  Calls,     \* bound: requests under way at once
  Cases,
  Requests,  \* what the voice asks for
  MaxCalls   \* bound: requests in all

Kinds == {"no_answer", "case", "link"}

\* Only /handoff may leave out the policy and the document.
Request == [kind: Kinds, case: Cases, number: Policies \cup {None}, doc: Documents \cup {None}]

ASSUME RequestsAssumption == MaxCalls \in Nat /\ Requests \subseteq Request

VARIABLES
  call,     \* the requests under way
  made,     \* requests so far
  cases,    \* cases with a row
  seen,     \* handoff:case, SET NX EX 86400: the cases whose message was seen
  copies,   \* how often each message was sent; that of a case, in the life of its key
  mixed,    \* what was found under one document was carried over to another
  about,    \* the policy of the last handoff, while nothing has set it aside
  known     \* a fresh thread was seeded with the document of a client who has
            \*   policies, and no turn has ended since

said    == <<mixed, about, known>>
handoff == <<call, made, cases, seen, copies, said>>
allVars == <<vars, handoff>>

NoRequest == [kind |-> "none", case |-> None, number |-> None, doc |-> None]
IdleCall  == [at |-> "idle", req |-> NoRequest, carry |-> Fresh]

HandoffInit ==
  /\ Init
  /\ call = [r \in Calls |-> IdleCall] /\ made = 0
  /\ cases = {} /\ seen = {} /\ copies = [c \in Cases |-> [k \in Kinds |-> 0]]
  /\ mixed = FALSE /\ about = None /\ known = FALSE

-----------------------------------------------------------------------------
(* Helpers *)

CallAt(r, place) == call[r].at = place
Req(r)           == call[r].req
CarryTo(r, place, carry) ==
  call' = [call EXCEPT ![r] = [at |-> place, req |-> Req(r), carry |-> carry]]
CallTo(r, place) ==
  IF place = "idle" THEN call' = [call EXCEPT ![r] = IdleCall]
                    ELSE CarryTo(r, place, call[r].carry)
CallsIdle == \A r \in Calls : CallAt(r, "idle")
Alone(r)  == AllIdle /\ \A s \in Calls \ {r} : CallAt(s, "idle")

Ask(r, req) ==
  /\ CallAt(r, "idle") /\ made < MaxCalls
  /\ made' = made + 1
  /\ call' = [call EXCEPT ![r] =
       [at |-> CASE req.kind = "no_answer" -> "select" [] req.kind = "case" -> "dedup"
                 [] OTHER -> "send",
        req |-> req, carry |-> Fresh]]
  /\ UNCHANGED <<vars, cases, seen, copies, said>>

-----------------------------------------------------------------------------
(* The requests: webhooks/handoff.py *)

\* Without Redis: rather send twice than lose the message.
Dedup(r) ==
  /\ CallAt(r, "dedup")
  /\ \/ /\ seen' = seen \cup {Req(r).case}
        /\ CallTo(r, IF Req(r).case \in seen THEN "idle" ELSE "select")
        /\ UNCHANGED faults
     \/ Fault /\ CallTo(r, "select") /\ UNCHANGED seen
  /\ UNCHANGED <<thread, turn, keys, ghosts, made, cases, copies, said>>

\* The 24 hours of the key: longer than any request. The voice may come back to the
\* case with the same message.
SeenExpires(c) ==
  /\ c \in seen /\ \A r \in Calls : Req(r).case # c
  /\ seen' = seen \ {c}
  /\ copies' = [copies EXCEPT ![c].case = 0]
  /\ UNCHANGED <<vars, call, made, cases, said>>

\* Mutant: a case whose message was seen passes for one with a row.
HasRow_Seen(c) == c \in seen
HasRow(c)      == c \in cases

\* A case that has its template is only seeded again (D-19).
Select(r) ==
  /\ CallAt(r, "select")
  /\ CallTo(r, IF ~HasRow(Req(r).case) THEN "insert"
               ELSE IF Req(r).kind = "no_answer" THEN "peek" ELSE "send")
  /\ UNCHANGED <<vars, made, cases, seen, copies, said>>

\* Mutant: INSERT .. ON CONFLICT DO NOTHING.
Conflict_Ignored(c) == FALSE
Conflict(c)         == c \in cases       \* the primary key: a 500

Insert(r) ==
  /\ CallAt(r, "insert")
  /\ IF Conflict(Req(r).case)
     THEN CallTo(r, "idle") /\ UNCHANGED cases
     ELSE CallTo(r, "send") /\ cases' = cases \cup {Req(r).case}
  /\ UNCHANGED <<vars, made, seen, copies, said>>

\* A case may come without a message. The row and the dedup key stay when Meta
\* refuses: a 500.
Write(r) ==
  /\ CallAt(r, "send")
  /\ \/ /\ copies' = [copies EXCEPT ![Req(r).case][Req(r).kind] = IF @ < 2 THEN @ + 1 ELSE @]
        /\ CallTo(r, "peek")
        /\ UNCHANGED faults
     \/ Req(r).kind = "case" /\ CallTo(r, "peek") /\ UNCHANGED <<copies, faults>>
     \/ Fault /\ CallTo(r, "idle") /\ UNCHANGED copies
  /\ UNCHANGED <<thread, turn, keys, ghosts, made, cases, seen, said>>

-----------------------------------------------------------------------------
(* _seed_qa_thread *)

\* Mutant: whatever was in the thread is merged into the seed, as it was until 2026-07-29.
Carry_Any(th, number) == th
Carry(th, number)     == IF number # None /\ th.number = number THEN th ELSE Fresh

\* A thread that cannot be read is treated as one about another policy.
Peek(r) ==
  /\ CallAt(r, "peek")
  /\ \/ /\ UNCHANGED faults
        /\ CarryTo(r, IF thread = Fresh THEN "seed" ELSE "delete", Carry(thread, Req(r).number))
     \/ Fault /\ CallTo(r, "delete")
  /\ UNCHANGED <<thread, turn, keys, ghosts, made, cases, seen, copies, said>>

\* When it fails, nothing is carried over.
Delete(r) ==
  /\ CallAt(r, "delete")
  /\ \/ thread' = Fresh /\ CallTo(r, "seed") /\ UNCHANGED faults
     \/ /\ Fault
        /\ CarryTo(r, "seed", Fresh)
        /\ UNCHANGED thread
  /\ about' = None /\ known' = FALSE
  /\ UNCHANGED <<turn, keys, ghosts, made, cases, seen, copies, mixed>>

Seed(r) ==
  LET number == Req(r).number
      doc    == Req(r).doc
      carry  == call[r].carry
  IN [carry EXCEPT !.number = IF number = None THEN @ ELSE number,
                   !.doc = IF doc = None THEN @ ELSE doc]

\* The voice corrects the document of a client whose policy is fixed, or who is
\* choosing one, and both stay.
Corrects(r) ==
  /\ call[r].carry.poliza # None \/ call[r].carry.node = "awaiting_policy_choice"
  /\ Req(r).doc \notin {None, call[r].carry.doc}

\* Only a thread that was empty, and was seeded with nobody beside, is known not to
\* stand on two documents.
Mixed(r) == IF Alone(r) /\ call[r].carry = Fresh THEN FALSE ELSE mixed \/ Corrects(r)

HasPolicies(doc) == doc \in Documents /\ PoliciesOf[doc] # {}

\* aupdate_state works on an empty thread only; a failure is logged.
SeedThread(r) ==
  /\ CallAt(r, "seed")
  /\ \/ /\ thread = Fresh
        /\ thread' = Seed(r)
        /\ mixed' = Mixed(r)
        /\ about' = IF Alone(r) /\ ~mixed' THEN Req(r).number ELSE None
        /\ known' = (Alone(r) /\ HasPolicies(Req(r).doc) /\ call[r].carry = Fresh)
        /\ UNCHANGED faults
     \/ /\ IF thread = Fresh THEN Fault ELSE UNCHANGED faults
        /\ about' = None /\ known' = FALSE
        /\ UNCHANGED <<thread, mixed>>
  /\ CallTo(r, "idle")
  /\ UNCHANGED <<turn, keys, ghosts, made, cases, seen, copies>>

-----------------------------------------------------------------------------
\* The conversation goes on; what the last handoff said ends with a reset and,
\* for the document, with the next reply.
Converse ==
  /\ Next
  /\ about' = IF thread # Fresh /\ thread' = Fresh THEN None ELSE about
  /\ known' = (known /\ ~\E h \in Turns :
                  \/ ~In(h, "send") /\ In(h, "send")'
                  \/ In(h, "admitted") /\ Text(h) = "reset")
  /\ UNCHANGED <<call, made, cases, seen, copies, mixed>>

Serve(r) == Dedup(r) \/ Select(r) \/ Insert(r) \/ Write(r) \/ Peek(r) \/ Delete(r) \/ SeedThread(r)

HandoffNext ==
  \/ Converse
  \/ \E r \in Calls :
       \/ Serve(r)
       \/ \E req \in Requests : Ask(r, req)
  \/ \E c \in Cases : SeenExpires(c)

HandoffSpec == HandoffInit /\ [][HandoffNext]_allVars

-----------------------------------------------------------------------------
(* Properties *)

\* Types; and who writes about a case has its row before the client hears of it.
HandoffTypeOK ==
  /\ TypeOK
  /\ call \in [Calls -> [at: {"idle", "dedup", "select", "insert", "send", "peek", "delete", "seed"},
                         req: Requests \cup {NoRequest}, carry: Thread]]
  /\ made \in 0 .. MaxCalls
  /\ cases \subseteq Cases /\ seen \subseteq Cases
  /\ \A r \in Calls : CallAt(r, "send") /\ Req(r).kind # "link" => Req(r).case \in cases
  /\ copies \in [Cases -> [Kinds -> 0 .. 2]]
  /\ mixed \in BOOLEAN /\ known \in BOOLEAN /\ about \in Policies \cup {None}

\* D-19: the follow-up of an unanswered call goes out once per case, however the
\* voice retries and even when two retries overlap, and whenever; the message of a
\* case goes out once in the 24 hours of its key, while Redis answers (handoff.py:394).
OncePerCase ==
  \A c \in Cases : copies[c].no_answer <= 1 /\ (faults = 0 => copies[c].case <= 1)

\* After a handoff the conversation stays about its policy: when the client has it,
\* no other policy is fixed, whatever was left in the thread from before. Unless the
\* voice corrected the document: a policy or a list found under the first one stays
\* (handoff.py:282 says that both are stale by definition).
AboutTheHandoff ==
  AllIdle /\ CallsIdle /\ about # None =>
    /\ thread.number = about
    /\ thread.poliza \in {None, about} \/ about \notin PoliciesOf[thread.doc]

\* node_identify ends by asking for a document.
Asks(h) ==
  /\ In(h, "awaiting_identification") /\ In(h, "send")'
  /\ thread'.node = "awaiting_identification"

\* The document of a first handoff is used, never asked for (decision of 2026-07-29).
\* Of a second one about the same policy this is not so: asked_for_doc is carried over.
FirstDocumentIsUsed ==
  [][known /\ faults' = 0 => \A h \in Turns : ~Asks(h)]_allVars
=============================================================================
