-------------------------- MODULE VoiceHandoffProofs --------------------------
(***************************************************************************)
(* For every number of requests, cases, documents and faults: the template *)
(* of an unanswered call is sent once per case, and once in the 24 hours   *)
(* of its dedup key, while Redis and Meta answer, so is the message with   *)
(* which a live case is ceded; the conversation that follows stays about   *)
(* the policy of the call, and uses the document that came with it.        *)
(*                                                                         *)
(* The first rests on the row that only one request can insert, the second *)
(* on the dedup key. The third is kept by every node of the graph, by the  *)
(* relation After of ConversationProofs, and by every seeding that does    *)
(* not correct the document; the fourth lasts until a turn replies.        *)
(***************************************************************************)
EXTENDS VoiceHandoff, ConversationProofs

\* Request r writes about case c.
For(r, kind, c) == Req(r).kind = kind /\ Req(r).case = c

\* The requests and the tally are functions, and only a cession asks for the key.
Shape ==
  /\ call = [r \in Calls |-> call[r]]
  /\ copies \in [Cases -> [Kinds -> 0 .. 2]]
  /\ \A r \in Calls : CallAt(r, "dedup") => Req(r).kind = "case"

\* Of an unanswered call, only the request that inserted the row writes, and only once.
RowInv ==
  \A c \in Cases :
    /\ copies[c].no_answer <= 1
    /\ c \notin cases => copies[c].no_answer = 0
    /\ \A r \in Calls : For(r, "no_answer", c) /\ CallAt(r, "send") =>
         /\ c \in cases /\ copies[c].no_answer = 0
         /\ \A s \in Calls : For(s, "no_answer", c) /\ CallAt(s, "send") => s = r

\* Of a cession, only the request that set the key gets past it.
Past(r) == call[r].at \in {"select", "insert", "send"}
KeyInv ==
  \A c \in Cases :
    /\ copies[c].case <= 1
    /\ c \notin seen => copies[c].case = 0
    /\ \A r \in Calls : For(r, "case", c) /\ Past(r) =>
         /\ c \in seen /\ copies[c].case = 0
         /\ \A s \in Calls : For(s, "case", c) /\ Past(s) => s = r

IInv == Counts /\ Shape /\ RowInv /\ (faults = 0 => KeyInv)

-----------------------------------------------------------------------------
(* How a request goes on *)

\* Request r moves on to p; no other does.
CallMoved(r, p) ==
  /\ call' = [s \in Calls |-> call'[s]]
  /\ \A s \in Calls \ {r} : call'[s] = call[s]
  /\ call'[r].at = p
  /\ p # "idle" => call'[r].req = call[r].req

LEMMA CarryMoves ==
  ASSUME Shape, NEW r \in Calls, NEW p, NEW x, CarryTo(r, p, x)
  PROVE  CallMoved(r, p)
BY DEF Shape, CarryTo, CallMoved, Req

LEMMA CallMoves ==
  ASSUME Shape, NEW r \in Calls, NEW p, CallTo(r, p)
  PROVE  CallMoved(r, p)
<1>1. CASE p = "idle" BY <1>1 DEF Shape, CallTo, IdleCall, CallMoved
<1>2. CASE p # "idle" BY <1>2, CarryMoves DEF CallTo
<1> QED BY <1>1, <1>2

\* A request that neither gets to the key nor past it, nor writes, disturbs nothing.
LEMMA Elsewhere ==
  ASSUME IInv, NEW r \in Calls, NEW p, CallMoved(r, p),
         p \notin {"dedup", "select", "insert", "send"},
         UNCHANGED <<cases, seen, copies>>, Counts', faults' = 0 => faults = 0
  PROVE  IInv'
<1> USE DEF CallAt, Req, CallMoved, For
<1>1. Shape' BY DEF IInv, Shape
<1>2. RowInv' BY DEF IInv, RowInv
<1>3. faults' = 0 => KeyInv' BY DEF IInv, KeyInv, Past
<1> QED BY <1>1, <1>2, <1>3 DEF IInv

\* Faults are counted.
LEMMA Counting ==
  ASSUME Counts, Fault \/ UNCHANGED faults
  PROVE  Counts' /\ (faults' = 0 => faults = 0 /\ ~Fault)
BY FaultsAssumption DEF Counts, Fault

-----------------------------------------------------------------------------
(* The steps *)

LEMMA AskStep ==
  ASSUME IInv, NEW r \in Calls, NEW req \in Requests, Ask(r, req)
  PROVE  IInv'
<1> USE DEF CallAt, Req, For
<1>1. UNCHANGED <<cases, seen, copies, faults>> BY DEF Ask, vars
<1>2. /\ call' = [s \in Calls |-> call'[s]]
      /\ \A s \in Calls \ {r} : call'[s] = call[s]
      /\ call'[r].req = req
      /\ call'[r].at = CASE req.kind = "no_answer" -> "select" [] req.kind = "case" -> "dedup"
                         [] OTHER -> "send"
  BY DEF Ask, IInv, Shape
<1>3. /\ call'[r].at = "dedup" => req.kind = "case"
      /\ call'[r].at = "send" => req.kind # "no_answer"
      /\ call'[r].at \in {"select", "insert", "send"} => req.kind # "case"
  BY <1>2
<1>4. Shape' BY <1>1, <1>2, <1>3 DEF IInv, Shape
<1>5. RowInv' BY <1>1, <1>2, <1>3 DEF IInv, RowInv
<1>6. faults' = 0 => KeyInv' BY <1>1, <1>2, <1>3 DEF IInv, KeyInv, Past
<1>7. Counts' BY <1>1 DEF IInv, Counts
<1> QED BY <1>4, <1>5, <1>6, <1>7 DEF IInv

LEMMA DedupStep ==
  ASSUME IInv, NEW r \in Calls, Dedup(r)
  PROVE  IInv'
<1> USE DEF CallAt, Req, For
<1>1. /\ UNCHANGED <<cases, copies>> /\ (Fault \/ UNCHANGED faults)
      /\ call[r].at = "dedup" /\ call[r].req.kind = "case"
  BY DEF Dedup, IInv, Shape
<1>2. Counts' /\ (faults' = 0 => faults = 0 /\ ~Fault) BY <1>1, Counting DEF IInv
<1>3. PICK p \in {"idle", "select"} :
        /\ CallMoved(r, p)
        /\ Fault \/ /\ seen' = seen \cup {call[r].req.case}
                    /\ p = IF call[r].req.case \in seen THEN "idle" ELSE "select"
  BY CallMoves DEF Dedup, IInv
<1>4. Shape' BY <1>1, <1>3 DEF IInv, Shape, CallMoved
<1>5. RowInv' BY <1>1, <1>3 DEF IInv, RowInv, CallMoved
<1>6. ASSUME faults' = 0 PROVE KeyInv'
  BY <1>1, <1>2, <1>3, <1>6 DEF IInv, KeyInv, Past, CallMoved
<1> QED BY <1>2, <1>4, <1>5, <1>6 DEF IInv

LEMMA SelectStep ==
  ASSUME IInv, NEW r \in Calls, Select(r)
  PROVE  IInv'
<1> USE DEF CallAt, Req, For
<1>1. UNCHANGED <<cases, seen, copies, faults>> /\ call[r].at = "select" BY DEF Select, vars
<1>2. PICK p \in {"insert", "peek", "send"} :
        CallMoved(r, p) /\ (p = "send" => call[r].req.kind # "no_answer")
  BY CallMoves DEF Select, IInv
<1>3. Shape' BY <1>1, <1>2 DEF IInv, Shape, CallMoved
<1>4. RowInv' BY <1>1, <1>2 DEF IInv, RowInv, CallMoved
<1>5. faults' = 0 => KeyInv' BY <1>1, <1>2 DEF IInv, KeyInv, Past, CallMoved
<1>6. Counts' BY <1>1 DEF IInv, Counts
<1> QED BY <1>3, <1>4, <1>5, <1>6 DEF IInv

LEMMA InsertStep ==
  ASSUME IInv, NEW r \in Calls, Insert(r)
  PROVE  IInv'
<1> USE DEF CallAt, Req, For
<1>1. UNCHANGED <<seen, copies, faults>> /\ call[r].at = "insert" BY DEF Insert, vars
<1>2. PICK p \in {"idle", "send"} :
        /\ CallMoved(r, p)
        /\ p = "send" => /\ call[r].req.case \notin cases
                         /\ cases' = cases \cup {call[r].req.case}
        /\ p = "idle" => UNCHANGED cases
  BY CallMoves DEF Insert, Conflict, IInv
<1>3. Shape' BY <1>1, <1>2 DEF IInv, Shape, CallMoved
<1>4. RowInv' BY <1>1, <1>2 DEF IInv, RowInv, CallMoved
<1>5. faults' = 0 => KeyInv' BY <1>1, <1>2 DEF IInv, KeyInv, Past, CallMoved
<1>6. Counts' BY <1>1 DEF IInv, Counts
<1> QED BY <1>3, <1>4, <1>5, <1>6 DEF IInv

LEMMA WriteStep ==
  ASSUME IInv, NEW r \in Calls, Write(r)
  PROVE  IInv'
<1> USE DEF CallAt, Req, For
<1>1. UNCHANGED <<cases, seen>> /\ call[r].at = "send" /\ (Fault \/ UNCHANGED faults)
  BY DEF Write
<1>2. Counts' /\ (faults' = 0 => faults = 0 /\ ~Fault) BY <1>1, Counting DEF IInv
<1>3. PICK p \in {"idle", "peek"} : CallMoved(r, p) BY CallMoves DEF Write, IInv
<1>4. CASE UNCHANGED copies BY <1>1, <1>2, <1>3, <1>4, Elsewhere DEF IInv
<1>5. CASE copies' = [copies EXCEPT ![Req(r).case][Req(r).kind] = IF @ < 2 THEN @ + 1 ELSE @]
  <2>1. Shape'
    <3> DEFINE row == [copies[Req(r).case] EXCEPT ![Req(r).kind] = IF @ < 2 THEN @ + 1 ELSE @]
    <3>1. copies' = [copies EXCEPT ![Req(r).case] = row] BY <1>5
    <3>2. Req(r).case \in Cases => row \in [Kinds -> 0 .. 2]
      <4>1. ASSUME Req(r).case \in Cases PROVE row \in [Kinds -> 0 .. 2]
        <5>1. copies[Req(r).case] \in [Kinds -> 0 .. 2] BY <4>1 DEF IInv, Shape
        <5>2. \A k \in Kinds : copies[Req(r).case][k] \in 0 .. 2 BY <5>1
        <5>3. row = [k \in Kinds |-> IF k = Req(r).kind
                       THEN IF copies[Req(r).case][k] < 2 THEN copies[Req(r).case][k] + 1
                            ELSE copies[Req(r).case][k]
                       ELSE copies[Req(r).case][k]]
          BY <5>1
        <5>4. ASSUME NEW k \in Kinds PROVE row[k] \in 0 .. 2
          <6> DEFINE n == copies[Req(r).case][k]
          <6>1. n \in 0 .. 2 BY <5>2
          <6>2. row[k] = IF k = Req(r).kind THEN IF n < 2 THEN n + 1 ELSE n ELSE n BY <5>3
          <6> QED
            <7> HIDE DEF n, row
            <7> QED BY <6>1, <6>2
        <5> QED BY <5>3, <5>4
      <4> QED BY <4>1
    <3>3. copies' \in [Cases -> [Kinds -> 0 .. 2]]
      <4> HIDE DEF row
      <4> QED BY <3>1, <3>2 DEF IInv, Shape
    <3> QED BY <1>1, <1>3, <3>3 DEF IInv, Shape, CallMoved
  <2>2. \A c \in Cases, k \in Kinds :
          copies'[c][k] = IF For(r, k, c) /\ copies[c][k] < 2 THEN copies[c][k] + 1
                          ELSE copies[c][k]
    BY <1>5 DEF IInv, Shape
  <2>3. \A c \in Cases : \A k \in Kinds : copies[c][k] \in 0 .. 2 BY DEF IInv, Shape
  <2>4. RowInv'
    <3>1. SUFFICES ASSUME NEW c \in Cases
                   PROVE  /\ copies'[c].no_answer <= 1
                          /\ c \notin cases => copies'[c].no_answer = 0
                          /\ \A q \in Calls : For(q, "no_answer", c)' /\ CallAt(q, "send")' =>
                               /\ c \in cases /\ copies'[c].no_answer = 0
                               /\ \A s \in Calls : For(s, "no_answer", c)' /\ CallAt(s, "send")' => s = q
      BY <1>1 DEF RowInv
    <3>2. copies'[c].no_answer = IF For(r, "no_answer", c) /\ copies[c].no_answer < 2
                                 THEN copies[c].no_answer + 1 ELSE copies[c].no_answer
      BY <2>2 DEF Kinds
    <3>3. copies[c].no_answer \in 0 .. 2 BY <2>3 DEF Kinds
    <3> QED BY <1>1, <1>3, <3>2, <3>3 DEF IInv, RowInv, CallMoved
  <2>5. ASSUME faults' = 0 PROVE KeyInv'
    <3>1. SUFFICES ASSUME NEW c \in Cases
                   PROVE  /\ copies'[c].case <= 1
                          /\ c \notin seen => copies'[c].case = 0
                          /\ \A q \in Calls : For(q, "case", c)' /\ Past(q)' =>
                               /\ c \in seen /\ copies'[c].case = 0
                               /\ \A s \in Calls : For(s, "case", c)' /\ Past(s)' => s = q
      BY <1>1 DEF KeyInv
    <3>2. copies'[c].case = IF For(r, "case", c) /\ copies[c].case < 2
                            THEN copies[c].case + 1 ELSE copies[c].case
      BY <2>2 DEF Kinds
    <3>3. copies[c].case \in 0 .. 2 BY <2>3 DEF Kinds
    <3> QED BY <1>1, <1>2, <1>3, <2>5, <3>2, <3>3 DEF IInv, KeyInv, Past, CallMoved
  <2> QED BY <1>2, <2>1, <2>4, <2>5 DEF IInv
<1> QED BY <1>4, <1>5 DEF Write

LEMMA SeedingStep ==
  ASSUME IInv, NEW r \in Calls, Peek(r) \/ Delete(r) \/ SeedThread(r)
  PROVE  IInv'
<1>1. UNCHANGED <<cases, seen, copies>> /\ (Fault \/ UNCHANGED faults)
  BY DEF Peek, Delete, SeedThread
<1>2. PICK p \in {"idle", "seed", "delete"} : CallMoved(r, p)
  BY CallMoves, CarryMoves DEF Peek, Delete, SeedThread, IInv
<1> QED BY <1>1, <1>2, Counting, Elsewhere DEF IInv

\* The key ends, and with it the count of the messages it stood for; nobody has the
\* case in hand.
LEMMA ExpiryStep ==
  ASSUME IInv, NEW c \in Cases, SeenExpires(c)
  PROVE  IInv'
<1>1. /\ UNCHANGED <<call, cases, faults>> /\ seen' = seen \ {c}
      /\ \A r \in Calls : call[r].req.case # c
  BY DEF SeenExpires, Req, vars
<1>2. copies \in [Cases -> [Kinds -> 0 .. 2]] BY DEF IInv, Shape
<1>3. copies' = [copies EXCEPT ![c] = [copies[c] EXCEPT !.case = 0]]
  BY <1>2 DEF SeenExpires
<1>4. copies[c] \in [Kinds -> 0 .. 2] BY <1>2
<1>5. [copies[c] EXCEPT !.case = 0] \in [Kinds -> 0 .. 2] BY <1>4
<1>6. copies' \in [Cases -> [Kinds -> 0 .. 2]] BY <1>2, <1>3, <1>5
<1>7. /\ copies'[c].case = 0 /\ copies'[c].no_answer = copies[c].no_answer
      /\ \A b \in Cases \ {c} : copies'[b] = copies[b]
  BY <1>2, <1>3, <1>4 DEF Kinds
<1>8. \A b \in Cases : copies'[b].no_answer = copies[b].no_answer BY <1>7
<1>9. Counts' BY <1>1 DEF IInv, Counts
<1>10. Shape' BY <1>1, <1>6 DEF IInv, Shape, CallAt, Req
<1>11. RowInv' BY <1>1, <1>8 DEF IInv, RowInv, For, CallAt, Req
<1>12. ASSUME faults' = 0 PROVE KeyInv'
  <2>1. KeyInv BY <1>1, <1>12 DEF IInv
  <2> QED BY <1>1, <1>7, <2>1 DEF KeyInv, For, Past, Req
<1> QED BY <1>9, <1>10, <1>11, <1>12 DEF IInv

LEMMA ConverseStep ==
  ASSUME IInv, Converse \/ UNCHANGED allVars
  PROVE  IInv'
<1>1. UNCHANGED <<call, cases, seen, copies>> /\ [Next]_vars
  BY DEF Converse, allVars, handoff
<1>2. Counts' /\ (faults' = 0 => faults = 0) BY <1>1, CountsStep DEF IInv
<1>3. Shape' BY <1>1 DEF IInv, Shape, CallAt, Req
<1>4. RowInv' BY <1>1 DEF IInv, RowInv, For, CallAt, Req
<1>5. faults' = 0 => KeyInv' BY <1>1, <1>2 DEF IInv, KeyInv, For, Past, Req
<1> QED BY <1>2, <1>3, <1>4, <1>5 DEF IInv

LEMMA InitHolds == ASSUME HandoffInit PROVE IInv
<1>1. Counts BY InitTypes DEF HandoffInit
<1>2. Shape BY DEF HandoffInit, Shape, CallAt, IdleCall
<1>3. \A c \in Cases : copies[c].no_answer = 0 /\ copies[c].case = 0 BY DEF HandoffInit, Kinds
<1>4. \A r \in Calls : call[r].at = "idle" BY DEF HandoffInit, IdleCall
<1>5. RowInv BY <1>3, <1>4 DEF RowInv, CallAt
<1>6. KeyInv BY <1>3, <1>4 DEF KeyInv, Past
<1> QED BY <1>1, <1>2, <1>5, <1>6 DEF IInv

LEMMA NextKeeps == ASSUME IInv, [HandoffNext]_allVars PROVE IInv'
<1>1. CASE Converse \/ UNCHANGED allVars BY <1>1, ConverseStep
<1>2. CASE \E r \in Calls : Serve(r)
  BY <1>2, DedupStep, SelectStep, InsertStep, WriteStep, SeedingStep DEF Serve
<1>3. CASE \E r \in Calls : \E req \in Requests : Ask(r, req) BY <1>3, AskStep
<1>4. CASE \E c \in Cases : SeenExpires(c) BY <1>4, ExpiryStep
<1> QED BY <1>1, <1>2, <1>3, <1>4 DEF HandoffNext

\* D-19: whatever the voice retries, however retries overlap and whatever the client
\* says meanwhile, no case has its template twice; and none is ceded twice within the
\* 24 hours of its dedup key, before the first failure of Redis or Meta
\* (handoff.py:114-321, 394).
THEOREM WrittenOncePerCase == HandoffSpec => []OncePerCase
<1>1. HandoffInit => IInv BY InitHolds
<1>2. IInv /\ [HandoffNext]_allVars => IInv' BY NextKeeps
<1>3. IInv => OncePerCase BY DEF IInv, RowInv, KeyInv, OncePerCase
<1> QED BY <1>1, <1>2, <1>3, PTL DEF HandoffSpec

-----------------------------------------------------------------------------
(* Types *)

Steps == {"idle", "dedup", "select", "insert", "send", "peek", "delete", "seed"}
Call  == [at: Steps, req: Requests \cup {NoRequest}, carry: Thread]

\* A request that is under way asks for something, and carries over nothing but the
\* thread of its policy.
OkCall(k) ==
  /\ k \in Call
  /\ k.at = "idle" => k.carry = Fresh
  /\ k.at # "idle" => k.req \in Requests
  /\ k.carry # Fresh => k.req.number # None /\ k.carry.number = k.req.number

CallInv  == call \in [Calls -> Call] /\ \A r \in Calls : OkCall(call[r])
TallyInv ==
  /\ made \in 0 .. MaxCalls /\ cases \subseteq Cases /\ seen \subseteq Cases
  /\ copies \in [Cases -> [Kinds -> 0 .. 2]]
  /\ \A r \in Calls : CallAt(r, "send") /\ Req(r).kind # "link" => Req(r).case \in cases
SaidInv  == mixed \in BOOLEAN /\ known \in BOOLEAN /\ about \in Policies \cup {None}

TInv == IInv /\ TurnInv /\ Flags /\ CallInv /\ TallyInv /\ SaidInv

\* What is asked for.
LEMMA Asked == ASSUME NEW req \in Requests
  PROVE /\ req.kind \in Kinds /\ req.case \in Cases
        /\ req.number \in Policies \cup {None} /\ req.doc \in Documents \cup {None}
BY RequestsAssumption DEF Request

\* Request r becomes k.
Becomes(r, k) == call' = [call EXCEPT ![r] = k]

LEMMA Becoming ==
  ASSUME CallInv, NEW r \in Calls, NEW k, OkCall(k), Becomes(r, k)
  PROVE  CallInv' /\ call'[r] = k /\ \A s \in Calls \ {r} : call'[s] = call[s]
<1>1. k \in Call BY DEF OkCall
<1>2. /\ call' \in [Calls -> Call] /\ call'[r] = k
      /\ \A s \in Calls \ {r} : call'[s] = call[s]
  BY <1>1 DEF CallInv, Becomes
<1>3. \A s \in Calls : OkCall(call'[s]) BY <1>2 DEF CallInv
<1> QED BY <1>2, <1>3 DEF CallInv

LEMMA IdleIsOk == OkCall(IdleCall)
  BY FreshIsThread DEF OkCall, IdleCall, Call, Steps

\* It goes on to p with thread x to carry over.
LEMMA CarriesOn ==
  ASSUME CallInv, NEW r \in Calls, ~CallAt(r, "idle"), NEW p \in Steps \ {"idle"}, NEW x \in Thread,
         x # Fresh => Req(r).number # None /\ x.number = Req(r).number, CarryTo(r, p, x)
  PROVE  /\ CallInv' /\ call'[r].at = p /\ call'[r].req = call[r].req /\ call'[r].carry = x
         /\ \A s \in Calls \ {r} : call'[s] = call[s]
<1> DEFINE k == [at |-> p, req |-> Req(r), carry |-> x]
<1>1. call[r].req \in Requests BY DEF CallInv, OkCall, CallAt
<1>2. OkCall(k) BY <1>1 DEF OkCall, Call, Req
<1>3. Becomes(r, k) BY DEF CarryTo, Becomes
<1>4. k.at = p /\ k.req = call[r].req /\ k.carry = x BY DEF Req
<1> HIDE DEF k
<1> QED BY <1>2, <1>3, <1>4, Becoming

LEMMA GoesTo ==
  ASSUME CallInv, NEW r \in Calls, ~CallAt(r, "idle"), NEW p \in Steps, CallTo(r, p)
  PROVE  /\ CallInv' /\ call'[r].at = p /\ (p # "idle" => call'[r].req = call[r].req)
         /\ call'[r].carry \in {Fresh, call[r].carry}
         /\ \A s \in Calls \ {r} : call'[s] = call[s]
<1>1. CASE p = "idle"
  <2>1. Becomes(r, IdleCall) BY <1>1 DEF CallTo, Becomes
  <2>2. CallInv' /\ call'[r] = IdleCall /\ \A s \in Calls \ {r} : call'[s] = call[s]
    BY <2>1, IdleIsOk, Becoming
  <2> QED BY <1>1, <2>2 DEF IdleCall
<1>2. CASE p # "idle"
  <2>1. CarryTo(r, p, call[r].carry) BY <1>2 DEF CallTo
  <2>2. /\ call[r].carry \in Thread
        /\ call[r].carry # Fresh => Req(r).number # None /\ call[r].carry.number = Req(r).number
    BY DEF CallInv, OkCall, Call, Req
  <2> QED BY <1>2, <2>1, <2>2, CarriesOn
<1> QED BY <1>1, <1>2

\* What a seeded thread says.
LEMMA Seeded ==
  ASSUME CallInv, NEW r \in Calls, CallAt(r, "seed")
  PROVE  LET th == Seed(r)
             carry == call[r].carry
         IN /\ th \in Thread /\ th.number = Req(r).number
            /\ th.doc = IF Req(r).doc = None THEN carry.doc ELSE Req(r).doc
            /\ th.poliza = carry.poliza /\ th.node = carry.node /\ th.asked = carry.asked
<1>1. /\ call[r].carry \in Thread /\ call[r].req \in Requests
      /\ call[r].carry # Fresh => Req(r).number # None /\ call[r].carry.number = Req(r).number
  BY DEF CallInv, OkCall, Call, Req, CallAt
<1>2. Req(r).number \in Policies \cup {None} /\ Req(r).doc \in Documents \cup {None}
  BY <1>1, Asked DEF Req
<1>3. call[r].carry = Fresh => call[r].carry.number = None BY DEF Fresh
<1> DEFINE n == IF Req(r).number = None THEN call[r].carry.number ELSE Req(r).number
           d == IF Req(r).doc = None THEN call[r].carry.doc ELSE Req(r).doc
<1>4. n \in Policies \cup {None} /\ n = Req(r).number BY <1>1, <1>2, <1>3 DEF Thread
<1>5. d \in Documents \cup Texts \cup {None} BY <1>1, <1>2 DEF Thread
<1>6. Seed(r) = [call[r].carry EXCEPT !.number = n, !.doc = d] BY <1>1 DEF Seed, Thread
<1> HIDE DEF n
<1>7. d = IF Req(r).doc = None THEN call[r].carry.doc ELSE Req(r).doc OBVIOUS
<1> HIDE DEF d
<1> QED BY <1>1, <1>4, <1>5, <1>6, <1>7 DEF Thread

-----------------------------------------------------------------------------
(* What each request does to its place, the thread and the conversation *)

\* Of the requests only r moves. It carries over what it carried, or nothing.
Proceeds(r) ==
  /\ CallInv'
  /\ call'[r].carry \in {Fresh, call[r].carry}
  /\ \A s \in Calls \ {r} : call'[s] = call[s]

LEMMA AskProceeds ==
  ASSUME CallInv, NEW r \in Calls, NEW req \in Requests, Ask(r, req)
  PROVE  /\ Proceeds(r) /\ UNCHANGED <<vars, said, cases, seen, copies>>
         /\ made < MaxCalls /\ made' = made + 1
         /\ call'[r].at = "send" => call'[r].req.kind = "link"
<1> DEFINE place == CASE req.kind = "no_answer" -> "select" [] req.kind = "case" -> "dedup"
                      [] OTHER -> "send"
           k == [at |-> place, req |-> req, carry |-> Fresh]
<1>1. place \in {"select", "dedup", "send"} /\ (place = "send" => req.kind = "link")
  BY Asked DEF Kinds
<1>2. Becomes(r, k) BY DEF Ask, Becomes
<1> HIDE DEF place
<1>3. OkCall(k) BY <1>1, FreshIsThread DEF OkCall, Call, Steps
<1>4. k.at = place /\ k.req = req /\ k.carry = Fresh OBVIOUS
<1> HIDE DEF k
<1>5. CallInv' /\ call'[r] = k /\ \A s \in Calls \ {r} : call'[s] = call[s]
  BY <1>2, <1>3, Becoming
<1> QED BY <1>1, <1>4, <1>5 DEF Proceeds, Ask, said

LEMMA ServeProceeds ==
  ASSUME CallInv, NEW r \in Calls, Dedup(r) \/ Select(r) \/ Insert(r) \/ Write(r)
  PROVE  Proceeds(r) /\ UNCHANGED <<thread, turn, keys, ghosts, said, made>>
<1>1. /\ UNCHANGED <<thread, turn, keys, ghosts, said, made>>
      /\ call[r].at \in {"dedup", "select", "insert", "send"}
  BY DEF Dedup, Select, Insert, Write, vars, CallAt
<1>2. PICK p \in Steps : CallTo(r, p) BY DEF Dedup, Select, Insert, Write, Steps
<1>3. ~CallAt(r, "idle") BY <1>1 DEF CallAt
<1> QED BY <1>1, <1>2, <1>3, GoesTo DEF Proceeds

LEMMA PeekProceeds ==
  ASSUME CallInv, TurnInv, NEW r \in Calls, Peek(r)
  PROVE  /\ CallInv' /\ UNCHANGED <<thread, turn, keys, ghosts, said, made>>
         /\ call'[r].at # "send"
         /\ call'[r].carry \in {Fresh, call[r].carry, thread}
         /\ \A s \in Calls \ {r} : call'[s] = call[s]
<1>1. UNCHANGED <<thread, turn, keys, ghosts, said, made>> /\ ~CallAt(r, "idle")
  BY DEF Peek, CallAt
<1>2. CASE CallTo(r, "delete") BY <1>1, <1>2, GoesTo DEF Steps
<1>3. CASE CarryTo(r, IF thread = Fresh THEN "seed" ELSE "delete", Carry(thread, Req(r).number))
  <2>1. PICK p \in {"seed", "delete"} : CarryTo(r, p, Carry(thread, Req(r).number)) BY <1>3
  <2>2. PICK x \in {thread, Fresh} :
          /\ CarryTo(r, p, x)
          /\ x # Fresh => Req(r).number # None /\ x.number = Req(r).number
    BY <2>1 DEF Carry
  <2>3. x \in Thread BY FreshIsThread DEF TurnInv
  <2> QED BY <1>1, <2>2, <2>3, CarriesOn DEF Steps
<1> QED BY <1>2, <1>3 DEF Peek

LEMMA DeleteProceeds ==
  ASSUME CallInv, NEW r \in Calls, Delete(r)
  PROVE  /\ Proceeds(r) /\ UNCHANGED <<turn, keys, ghosts, made, mixed>>
         /\ call'[r].at # "send" /\ thread' \in {thread, Fresh}
         /\ about' = None /\ known' = FALSE
<1>1. /\ UNCHANGED <<turn, keys, ghosts, made, mixed>> /\ ~CallAt(r, "idle")
      /\ thread' \in {thread, Fresh} /\ about' = None /\ known' = FALSE
  BY DEF Delete, CallAt
<1>2. CallTo(r, "seed") \/ CarryTo(r, "seed", Fresh) BY DEF Delete
<1>3. CASE CallTo(r, "seed") BY <1>1, <1>3, GoesTo DEF Steps, Proceeds
<1>4. CASE CarryTo(r, "seed", Fresh)
  BY <1>1, <1>4, CarriesOn, FreshIsThread DEF Steps, Proceeds
<1> QED BY <1>2, <1>3, <1>4

LEMMA SeedProceeds ==
  ASSUME CallInv, NEW r \in Calls, SeedThread(r)
  PROVE  /\ Proceeds(r) /\ UNCHANGED <<turn, keys, ghosts, made>> /\ call'[r].at # "send"
         /\ \/ /\ thread' = Seed(r) /\ mixed' = Mixed(r)
               /\ about' = IF Alone(r) /\ ~mixed' THEN Req(r).number ELSE None
               /\ known' = (Alone(r) /\ HasPolicies(Req(r).doc) /\ call[r].carry = Fresh)
            \/ thread' = thread /\ mixed' = mixed /\ about' = None /\ known' = FALSE
<1>1. CallTo(r, "idle") /\ ~CallAt(r, "idle") BY DEF SeedThread, CallAt
<1>2. Proceeds(r) /\ call'[r].at # "send" BY <1>1, GoesTo DEF Steps, Proceeds
<1> QED BY <1>2 DEF SeedThread

LEMMA ThreadsKept ==
  ASSUME UNCHANGED turn
  PROVE  Threads' \subseteq Threads \cup {thread'}
BY DEF Threads

-----------------------------------------------------------------------------
(* Types are kept *)

LEMMA TurnsKept ==
  ASSUME TurnInv, UNCHANGED turn, thread' \in Thread
  PROVE  TurnInv'
BY DEF TurnInv

LEMMA FlagsKept == ASSUME Flags, UNCHANGED <<keys, ghosts>> PROVE Flags'
  BY DEF Flags, keys, ghosts

LEMMA SaidKept == ASSUME SaidInv, UNCHANGED said PROVE SaidInv'
  BY DEF SaidInv, said

\* Whoever is about to send and has not just got there has its row.
LEMMA TallyKept ==
  ASSUME TallyInv, NEW r \in Calls, \A s \in Calls \ {r} : call'[s] = call[s],
         CallAt(r, "send")' => Req(r)'.kind = "link" \/ Req(r)'.case \in cases',
         made' \in 0 .. MaxCalls, cases \subseteq cases', cases' \subseteq Cases,
         seen' \subseteq Cases, copies' \in [Cases -> [Kinds -> 0 .. 2]]
  PROVE  TallyInv'
BY DEF TallyInv, CallAt, Req

LEMMA TallyOfServe ==
  ASSUME TInv, NEW r \in Calls, Dedup(r) \/ Select(r) \/ Insert(r) \/ Write(r)
  PROVE  TallyInv'
<1>1. /\ call[r].req \in Requests /\ call[r].req.case \in Cases /\ call[r].at # "idle"
  <2>1. call[r].at # "idle" BY DEF Dedup, Select, Insert, Write, CallAt
  <2>2. call[r].req \in Requests BY <2>1 DEF TInv, CallInv, OkCall
  <2> QED BY <2>1, <2>2, Asked
<1>2. \A s \in Calls \ {r} : call'[s] = call[s] BY ServeProceeds DEF TInv, Proceeds
<1>3. made' \in 0 .. MaxCalls BY ServeProceeds DEF TInv, TallyInv
<1>4. copies' \in [Cases -> [Kinds -> 0 .. 2]]
  <2>1. IInv' BY DedupStep, SelectStep, InsertStep, WriteStep DEF TInv
  <2> QED BY <2>1 DEF IInv, Shape
<1>5. ~CallAt(r, "idle") /\ CallInv BY <1>1 DEF CallAt, TInv
<1>6. CASE Dedup(r)
  <2>1. PICK p \in {"idle", "select"} : CallTo(r, p) BY <1>6 DEF Dedup
  <2>2. call'[r].at # "send" BY <1>5, <2>1, GoesTo DEF Steps
  <2>3. cases' = cases /\ seen' \subseteq Cases
    BY <1>1, <1>6 DEF Dedup, TInv, TallyInv, Req
  <2> QED BY <1>2, <1>3, <1>4, <2>2, <2>3, TallyKept DEF TInv, TallyInv, CallAt
<1>7. CASE Select(r)
  <2>1. PICK p \in {"insert", "peek", "send"} :
          CallTo(r, p) /\ (p = "send" => Req(r).case \in cases)
    BY <1>7 DEF Select, HasRow
  <2>2. call'[r].at = p /\ call'[r].req = call[r].req BY <1>5, <2>1, GoesTo DEF Steps
  <2>3. cases' = cases /\ seen' = seen BY <1>7 DEF Select
  <2>4. CallAt(r, "send")' => Req(r)'.case \in cases' BY <2>1, <2>2, <2>3 DEF CallAt, Req
  <2> QED BY <1>2, <1>3, <1>4, <2>3, <2>4, TallyKept DEF TInv, TallyInv
<1>8. CASE Insert(r)
  <2>1. PICK p \in {"idle", "send"} :
          /\ CallTo(r, p) /\ (p = "send" => Req(r).case \in cases')
          /\ cases' = cases \/ cases' = cases \cup {Req(r).case}
    BY <1>8 DEF Insert
  <2>2. call'[r].at = p /\ (p # "idle" => call'[r].req = call[r].req)
    BY <1>5, <2>1, GoesTo DEF Steps
  <2>3. seen' = seen BY <1>8 DEF Insert
  <2>4. CallAt(r, "send")' => Req(r)'.case \in cases' BY <2>1, <2>2 DEF CallAt, Req
  <2>5. cases \subseteq cases' /\ cases' \subseteq Cases
    BY <1>1, <2>1 DEF TInv, TallyInv, Req
  <2> QED BY <1>2, <1>3, <1>4, <2>3, <2>4, <2>5, TallyKept DEF TInv, TallyInv
<1>9. CASE Write(r)
  <2>1. PICK p \in {"idle", "peek"} : CallTo(r, p) BY <1>9 DEF Write
  <2>2. call'[r].at # "send" BY <1>5, <2>1, GoesTo DEF Steps
  <2>3. cases' = cases /\ seen' = seen BY <1>9 DEF Write
  <2> QED BY <1>2, <1>3, <1>4, <2>2, <2>3, TallyKept DEF TInv, TallyInv, CallAt
<1> QED BY <1>6, <1>7, <1>8, <1>9

LEMMA TallyElsewhere ==
  ASSUME TallyInv, NEW r \in Calls, \A s \in Calls \ {r} : call'[s] = call[s],
         call'[r].at # "send", UNCHANGED <<made, cases, seen, copies>>
  PROVE  TallyInv'
BY TallyKept DEF TallyInv, CallAt

\* What a seeding says.
LEMMA SaidOfSeed ==
  ASSUME SaidInv, CallInv, NEW r \in Calls, SeedThread(r)
  PROVE  SaidInv'
<1>1. Req(r).number \in Policies \cup {None}
  <2>1. call[r].req \in Requests BY DEF SeedThread, CallAt, CallInv, OkCall
  <2> QED BY <2>1, Asked DEF Req
<1>2. mixed' = Mixed(r) \/ mixed' = mixed BY SeedProceeds
<1>3. Mixed(r) \in BOOLEAN BY DEF Mixed, SaidInv, Corrects
<1>4. mixed' \in BOOLEAN BY <1>2, <1>3, Zenon DEF SaidInv
<1>5. known' = FALSE \/ known' = (Alone(r) /\ HasPolicies(Req(r).doc) /\ call[r].carry = Fresh)
  BY SeedProceeds
<1>6. known' \in BOOLEAN BY <1>5, Zenon
<1>7. about' = None \/ about' = Req(r).number
  <2>1. about' = None \/ about' = IF Alone(r) /\ ~mixed' THEN Req(r).number ELSE None
    BY SeedProceeds
  <2> QED BY <2>1
<1>8. about' \in Policies \cup {None} BY <1>1, <1>7
<1> QED BY <1>4, <1>6, <1>8, Zenon DEF SaidInv

LEMMA SaidOfConverse == ASSUME SaidInv, Converse PROVE SaidInv'
<1>1. mixed' = mixed BY DEF Converse
<1>2. known' \in BOOLEAN BY Zenon DEF Converse
<1>3. about' \in Policies \cup {None} BY DEF Converse, SaidInv
<1> QED BY <1>1, <1>2, <1>3, Zenon DEF SaidInv

LEMMA TypesStep ==
  ASSUME TInv, [HandoffNext]_allVars
  PROVE  TInv'
<1>0. MaxCalls \in Nat BY RequestsAssumption
<1>1. IInv' BY NextKeeps DEF TInv
<1>2. CASE Converse \/ UNCHANGED allVars
  <2>1. [Next]_vars /\ UNCHANGED <<call, made, cases, seen, copies>>
    BY <1>2 DEF Converse, allVars, handoff
  <2>2. TurnInv' /\ Flags' BY <2>1, TurnStep, FlagsStep DEF TInv
  <2>3. CallInv' /\ TallyInv' BY <2>1 DEF TInv, CallInv, TallyInv, CallAt, Req
  <2>4. SaidInv' BY <1>2, SaidOfConverse, SaidKept DEF TInv, allVars, handoff
  <2> QED BY <1>1, <2>2, <2>3, <2>4 DEF TInv
<1>3. ASSUME NEW r \in Calls, NEW req \in Requests, Ask(r, req) PROVE TInv'
  <2>1. /\ Proceeds(r) /\ UNCHANGED <<vars, said, cases, seen, copies>>
        /\ made < MaxCalls /\ made' = made + 1
        /\ call'[r].at = "send" => call'[r].req.kind = "link"
    BY <1>3, AskProceeds DEF TInv
  <2>2. TurnInv' BY <2>1, TurnsKept DEF TInv, TurnInv, vars
  <2>3. Flags' BY <2>1, FlagsKept DEF TInv, vars
  <2>4. made' \in 0 .. MaxCalls BY <1>0, <2>1 DEF TInv, TallyInv
  <2>5. TallyInv'
    BY <2>1, <2>4, TallyKept DEF TInv, TallyInv, Proceeds, CallAt, Req
  <2>6. SaidInv' BY <2>1, SaidKept DEF TInv
  <2> QED BY <1>1, <2>1, <2>2, <2>3, <2>5, <2>6 DEF TInv, Proceeds
<1>4. ASSUME NEW r \in Calls, Dedup(r) \/ Select(r) \/ Insert(r) \/ Write(r) PROVE TInv'
  <2>1. Proceeds(r) /\ UNCHANGED <<thread, turn, keys, ghosts, said, made>>
    BY <1>4, ServeProceeds DEF TInv
  <2>2. TurnInv' BY <2>1, TurnsKept DEF TInv, TurnInv
  <2>3. Flags' BY <2>1, FlagsKept DEF TInv
  <2>4. TallyInv' BY <1>4, TallyOfServe
  <2>5. SaidInv' BY <2>1, SaidKept DEF TInv
  <2> QED BY <1>1, <2>1, <2>2, <2>3, <2>4, <2>5 DEF TInv, Proceeds
<1>5. ASSUME NEW r \in Calls, Peek(r) PROVE TInv'
  <2>1. /\ CallInv' /\ UNCHANGED <<thread, turn, keys, ghosts, said, made>>
        /\ call'[r].at # "send"
        /\ \A s \in Calls \ {r} : call'[s] = call[s]
    BY <1>5, PeekProceeds DEF TInv
  <2>2. TurnInv' BY <2>1, TurnsKept DEF TInv, TurnInv
  <2>3. Flags' BY <2>1, FlagsKept DEF TInv
  <2>4. TallyInv' BY <1>5, <2>1, TallyElsewhere DEF TInv, Peek
  <2>5. SaidInv' BY <2>1, SaidKept DEF TInv
  <2> QED BY <1>1, <2>1, <2>2, <2>3, <2>4, <2>5 DEF TInv
<1>6. ASSUME NEW r \in Calls, Delete(r) PROVE TInv'
  <2>1. /\ Proceeds(r) /\ UNCHANGED <<turn, keys, ghosts, made, mixed>>
        /\ call'[r].at # "send" /\ thread' \in {thread, Fresh}
        /\ about' = None /\ known' = FALSE
    BY <1>6, DeleteProceeds DEF TInv
  <2>2. TurnInv' BY <2>1, TurnsKept, FreshIsThread DEF TInv, TurnInv
  <2>3. Flags' BY <2>1, FlagsKept DEF TInv
  <2>4. TallyInv' BY <1>6, <2>1, TallyElsewhere DEF TInv, Delete, Proceeds
  <2>5. SaidInv' BY <2>1, Zenon DEF TInv, SaidInv
  <2> QED BY <1>1, <2>1, <2>2, <2>3, <2>4, <2>5 DEF TInv, Proceeds
<1>7. ASSUME NEW r \in Calls, SeedThread(r) PROVE TInv'
  <2>1. /\ Proceeds(r) /\ UNCHANGED <<turn, keys, ghosts, made>> /\ call'[r].at # "send"
        /\ thread' = Seed(r) \/ thread' = thread
    BY <1>7, SeedProceeds DEF TInv
  <2>2. Seed(r) \in Thread BY <1>7, Seeded DEF TInv, SeedThread
  <2>3. TurnInv' BY <2>1, <2>2, TurnsKept DEF TInv, TurnInv
  <2>4. Flags' BY <2>1, FlagsKept DEF TInv
  <2>5. TallyInv' BY <1>7, <2>1, TallyElsewhere DEF TInv, SeedThread, Proceeds
  <2>6. SaidInv' BY <1>7, SaidOfSeed DEF TInv
  <2> QED BY <1>1, <2>1, <2>3, <2>4, <2>5, <2>6 DEF TInv, Proceeds
<1>8. ASSUME NEW c \in Cases, SeenExpires(c) PROVE TInv'
  <2>1. UNCHANGED <<vars, call, made, cases, said>> /\ seen' \subseteq seen
    BY <1>8 DEF SeenExpires
  <2>2. TurnInv' BY <2>1, TurnsKept DEF TInv, TurnInv, vars
  <2>3. Flags' BY <2>1, FlagsKept DEF TInv, vars
  <2>4. CallInv' BY <2>1 DEF TInv, CallInv
  <2>5. copies' \in [Cases -> [Kinds -> 0 .. 2]] BY <1>1 DEF IInv, Shape
  <2>6. TallyInv' BY <2>1, <2>5 DEF TInv, TallyInv, CallAt, Req
  <2>7. SaidInv' BY <2>1, SaidKept DEF TInv
  <2> QED BY <1>1, <2>2, <2>3, <2>4, <2>6, <2>7 DEF TInv
<1> QED BY <1>2, <1>3, <1>4, <1>5, <1>6, <1>7, <1>8 DEF HandoffNext, Serve

LEMMA InitHasTypes == ASSUME HandoffInit PROVE TInv
<1>1. IInv BY InitHolds
<1>2. TurnInv /\ Flags BY InitTurns, InitTypes DEF HandoffInit
<1>3. CallInv BY IdleIsOk DEF HandoffInit, CallInv, OkCall
<1>4. TallyInv
  <2>1. \A r \in Calls : ~CallAt(r, "send") BY DEF HandoffInit, CallAt, IdleCall
  <2>2. copies \in [Cases -> [Kinds -> 0 .. 2]] BY <1>1 DEF IInv, Shape
  <2> QED BY <2>1, <2>2, RequestsAssumption DEF HandoffInit, TallyInv
<1>5. SaidInv BY Zenon DEF HandoffInit, SaidInv
<1> QED BY <1>1, <1>2, <1>3, <1>4, <1>5 DEF TInv

\* The values of every variable of the handoff and of the conversation it interrupts,
\* whatever document a seed carries a policy over to; and nobody but the request of a
\* coupon writes to the client before the case has its row (handoff.py:128-183).
THEOREM HandoffTypes == HandoffSpec => []HandoffTypeOK
<1>1. TInv => HandoffTypeOK
  <2> SUFFICES ASSUME TInv PROVE HandoffTypeOK OBVIOUS
  <2>1. TypeOK BY DEF TInv, IInv, TurnInv, Counts, Flags, TypeOK
  <2>2. call \in [Calls -> [at: {"idle", "dedup", "select", "insert", "send", "peek", "delete", "seed"},
                            req: Requests \cup {NoRequest}, carry: Thread]]
    BY DEF TInv, CallInv, Call, Steps
  <2>3. SaidInv BY DEF TInv
  <2> QED BY <2>1, <2>2, <2>3 DEF TInv, TallyInv, SaidInv, HandoffTypeOK
<1> QED BY <1>1, InitHasTypes, TypesStep, PTL DEF HandoffSpec

-----------------------------------------------------------------------------
(* The policy of the call *)

\* The document does not own the policy of the handoff, or no other is fixed or offered.
Fit(th) ==
  \/ th.number = None \/ th.number \notin PoliciesOf[th.doc]
  \/ th.poliza \in {None, th.number} /\ th.node # "awaiting_policy_choice"

\* Unless a document was corrected: every thread, and whatever a request carries over.
FitInv ==
  mixed \/ (/\ \A th \in Threads : Fit(th)
            /\ \A r \in Calls : Fit(call[r].carry))

\* What is said about the last handoff is what every thread says.
AboutInv == about # None => ~mixed /\ \A th \in Threads : th.number = about

LEMMA FreshFits == Fit(Fresh) BY DEF Fit, Fresh

LEMMA AfterFits ==
  ASSUME NEW a, NEW b, Fit(a), After(a, b)
  PROVE  Fit(b)
<1> USE DEF Fit
<1>1. CASE Leaves(a, b) BY <1>1 DEF Leaves, After
<1>2. CASE Misses(b) BY <1>2 DEF Misses
<1>3. CASE Fixes(a, b) BY <1>3 DEF Fixes, After
<1>4. CASE Presents(a, b) BY <1>4 DEF Presents, After
<1>5. CASE Chooses(a, b) BY <1>5 DEF Chooses, After
<1> QED BY <1>1, <1>2, <1>3, <1>4, <1>5 DEF After

\* A request that seeds without correcting what it carries over.
LEMMA SeedFits ==
  ASSUME CallInv, NEW r \in Calls, CallAt(r, "seed"), Fit(call[r].carry), ~Corrects(r)
  PROVE  Fit(Seed(r))
<1>1. /\ Seed(r).number = Req(r).number
      /\ Seed(r).doc = IF Req(r).doc = None THEN call[r].carry.doc ELSE Req(r).doc
      /\ Seed(r).poliza = call[r].carry.poliza /\ Seed(r).node = call[r].carry.node
  BY Seeded
<1>2. CASE call[r].carry = Fresh
  BY <1>1, <1>2 DEF Fit, Fresh
<1>3. CASE call[r].carry # Fresh
  <2>1. call[r].carry.number = Req(r).number BY <1>3 DEF CallInv, OkCall, Req
  <2>2. CASE Req(r).doc \in {None, call[r].carry.doc} BY <1>1, <2>1, <2>2 DEF Fit
  <2>3. CASE Req(r).doc \notin {None, call[r].carry.doc}
    BY <1>1, <2>1, <2>3 DEF Fit, Corrects
  <2> QED BY <2>2, <2>3
<1> QED BY <1>2, <1>3

\* Nobody beside: no turn has a copy, and no other request carries anything over.
LEMMA AloneMeans ==
  ASSUME CallInv, NEW r \in Calls, Alone(r)
  PROVE  Threads = {thread} /\ \A s \in Calls \ {r} : call[s].carry = Fresh
<1>1. \A h \in Turns : turn[h].at \notin Nodes BY DEF Alone, AllIdle, In, Nodes
<1>2. \A s \in Calls \ {r} : call[s].carry = Fresh BY DEF Alone, CallAt, CallInv, OkCall
<1> QED BY <1>1, <1>2 DEF Threads

\* A seeding with nobody beside leaves one thread.
LEMMA AloneSeeds ==
  ASSUME CallInv, NEW r \in Calls, Alone(r), UNCHANGED turn
  PROVE  Threads' = {thread'}
<1>1. \A h \in Turns : turn'[h].at \notin Nodes BY DEF Alone, AllIdle, In, Nodes
<1> QED BY <1>1 DEF Threads

\* The step of a request that brings no new thread.
LEMMA FitKept ==
  ASSUME FitInv, NEW r \in Calls, mixed' = mixed,
         call'[r].carry \in {Fresh, call[r].carry, thread},
         \A s \in Calls \ {r} : call'[s] = call[s],
         Threads' \subseteq Threads \cup {Fresh}
  PROVE  FitInv'
<1>1. thread \in Threads BY DEF Threads
<1> QED BY <1>1, FreshFits DEF FitInv

LEMMA FitStep ==
  ASSUME TInv, FitInv, [HandoffNext]_allVars
  PROVE  FitInv'
<1>1. CASE Converse \/ UNCHANGED allVars
  <2>1. [Next]_vars /\ UNCHANGED <<call, mixed>>
    BY <1>1 DEF Converse, allVars, handoff, said
  <2>2. ASSUME ~mixed, NEW b \in Threads' PROVE Fit(b)
    <3>1. b = Fresh \/ b \in Threads \/ \E a \in Threads : After(a, b)
      BY <2>1, <2>2, ThreadsStep DEF TInv
    <3> QED BY <2>2, <3>1, AfterFits, FreshFits DEF FitInv
  <2> QED BY <2>1, <2>2 DEF FitInv
<1>2. ASSUME NEW r \in Calls, NEW req \in Requests, Ask(r, req) PROVE FitInv'
  <2>1. Proceeds(r) /\ UNCHANGED <<vars, said>> BY <1>2, AskProceeds DEF TInv
  <2>2. Threads' = Threads BY <2>1 DEF vars, Threads
  <2> QED BY <2>1, <2>2, FitKept DEF Proceeds, said
<1>3. ASSUME NEW r \in Calls, Dedup(r) \/ Select(r) \/ Insert(r) \/ Write(r) PROVE FitInv'
  <2>1. Proceeds(r) /\ UNCHANGED <<thread, turn, said>> BY <1>3, ServeProceeds DEF TInv
  <2>2. Threads' = Threads BY <2>1 DEF Threads
  <2> QED BY <2>1, <2>2, FitKept DEF Proceeds, said
<1>4. ASSUME NEW r \in Calls, Peek(r) PROVE FitInv'
  <2>1. /\ UNCHANGED <<thread, turn, said>>
        /\ call'[r].carry \in {Fresh, call[r].carry, thread}
        /\ \A s \in Calls \ {r} : call'[s] = call[s]
    BY <1>4, PeekProceeds DEF TInv
  <2>2. Threads' = Threads BY <2>1 DEF Threads
  <2> QED BY <2>1, <2>2, FitKept DEF said
<1>5. ASSUME NEW r \in Calls, Delete(r) PROVE FitInv'
  <2>1. Proceeds(r) /\ UNCHANGED <<turn, mixed>> /\ thread' \in {thread, Fresh}
    BY <1>5, DeleteProceeds DEF TInv
  <2>2. Threads' \subseteq Threads \cup {Fresh} BY <2>1 DEF Threads
  <2> QED BY <2>1, <2>2, FitKept DEF Proceeds
<1>6. ASSUME NEW r \in Calls, SeedThread(r) PROVE FitInv'
  <2>1. /\ Proceeds(r) /\ UNCHANGED turn
        /\ \/ thread' = Seed(r) /\ mixed' = Mixed(r)
           \/ thread' = thread /\ mixed' = mixed
    BY <1>6, SeedProceeds DEF TInv
  <2>2. CASE thread' = thread /\ mixed' = mixed
    <3>1. Threads' = Threads BY <2>1, <2>2 DEF Threads
    <3> QED BY <2>1, <2>2, <3>1, FitKept DEF Proceeds
  <2>3. CASE thread' = Seed(r) /\ mixed' = Mixed(r) /\ ~Mixed(r)
    <3>1. CallInv /\ CallAt(r, "seed") BY <1>6 DEF TInv, SeedThread
    <3>2. CASE Alone(r) /\ call[r].carry = Fresh
      <4>1. ~Corrects(r) BY <3>2 DEF Corrects, Fresh
      <4>2. Fit(Seed(r)) BY <3>1, <3>2, <4>1, FreshFits, SeedFits
      <4>3. Threads' = {thread'} BY <2>1, <3>1, <3>2, AloneSeeds
      <4>4. \A s \in Calls : call'[s].carry = Fresh
        BY <2>1, <3>1, <3>2, AloneMeans DEF Proceeds
      <4> QED BY <2>3, <4>2, <4>3, <4>4, FreshFits DEF FitInv
    <3>3. CASE ~(Alone(r) /\ call[r].carry = Fresh)
      <4>1. ~mixed /\ ~Corrects(r) BY <2>3, <3>3 DEF Mixed
      <4>2. (\A th \in Threads : Fit(th)) /\ \A s \in Calls : Fit(call[s].carry)
        BY <4>1 DEF FitInv
      <4>3. Fit(Seed(r)) BY <3>1, <4>1, <4>2, SeedFits
      <4>4. Threads' \subseteq Threads \cup {thread'} BY <2>1, ThreadsKept
      <4>5. \A s \in Calls : Fit(call'[s].carry) BY <2>1, <4>2, FreshFits DEF Proceeds
      <4> QED BY <2>3, <4>2, <4>3, <4>4, <4>5 DEF FitInv
    <3> QED BY <3>2, <3>3
  <2>4. CASE mixed' = Mixed(r) /\ Mixed(r) BY <2>4 DEF FitInv
  <2> QED BY <2>1, <2>2, <2>3, <2>4
<1>7. ASSUME NEW c \in Cases, SeenExpires(c) PROVE FitInv'
  <2>1. UNCHANGED <<thread, turn, call, mixed>> BY <1>7 DEF SeenExpires, vars, said
  <2> QED BY <2>1 DEF FitInv, Threads
<1> QED BY <1>1, <1>2, <1>3, <1>4, <1>5, <1>6, <1>7 DEF HandoffNext, Serve

LEMMA AboutKept ==
  ASSUME AboutInv, UNCHANGED <<thread, turn, said>>
  PROVE  AboutInv'
<1>1. Threads' = Threads BY DEF Threads
<1> QED BY <1>1 DEF AboutInv, said

LEMMA AboutStep ==
  ASSUME TInv, AboutInv, [HandoffNext]_allVars
  PROVE  AboutInv'
<1>1. CASE Converse
  <2> SUFFICES ASSUME about' # None PROVE ~mixed' /\ \A th \in Threads' : th.number = about'
    BY DEF AboutInv
  <2>1. /\ [Next]_vars /\ mixed' = mixed /\ about' = about
        /\ ~(thread # Fresh /\ thread' = Fresh)
    BY <1>1 DEF Converse
  <2>2. ~mixed /\ \A th \in Threads : th.number = about BY <2>1 DEF AboutInv
  <2>3. thread # Fresh BY <2>1, <2>2 DEF Threads, Fresh
  <2>4. CASE Quiet BY <2>1, <2>2, <2>4 DEF Quiet
  <2>5. CASE Clears BY <2>1, <2>3, <2>5 DEF Clears
  <2>6. ASSUME NEW h \in Turns, Writes(h) PROVE ~mixed' /\ \A th \in Threads' : th.number = about'
    <3>1. thread'.number = turn[h].th.number BY <2>6 DEF Writes, Wrote, After, Th
    <3>2. turn[h].th \in Threads BY <2>6 DEF Writes, Threads
    <3> QED BY <2>1, <2>2, <2>6, <3>1, <3>2 DEF Writes
  <2> QED BY <2>1, <2>4, <2>5, <2>6, ThreadMoves DEF TInv
<1>2. CASE UNCHANGED allVars BY <1>2, AboutKept DEF allVars, vars, handoff
<1>3. ASSUME NEW r \in Calls, NEW req \in Requests, Ask(r, req) PROVE AboutInv'
  BY <1>3, AskProceeds, AboutKept DEF TInv, vars
<1>4. ASSUME NEW r \in Calls, Dedup(r) \/ Select(r) \/ Insert(r) \/ Write(r) PROVE AboutInv'
  BY <1>4, ServeProceeds, AboutKept DEF TInv
<1>5. ASSUME NEW r \in Calls, Peek(r) PROVE AboutInv'
  BY <1>5, PeekProceeds, AboutKept DEF TInv
<1>6. ASSUME NEW r \in Calls, Delete(r) PROVE AboutInv'
  BY <1>6, DeleteProceeds DEF TInv, AboutInv
<1>7. ASSUME NEW r \in Calls, SeedThread(r) PROVE AboutInv'
  <2> SUFFICES ASSUME about' # None PROVE ~mixed' /\ \A th \in Threads' : th.number = about'
    BY DEF AboutInv
  <2>1. /\ UNCHANGED turn /\ thread' = Seed(r)
        /\ about' = IF Alone(r) /\ ~mixed' THEN Req(r).number ELSE None
    BY <1>7, SeedProceeds DEF TInv
  <2>2. Alone(r) /\ ~mixed' /\ about' = Req(r).number BY <2>1
  <2>3. Threads' = {thread'} BY <2>1, <2>2, AloneSeeds DEF TInv
  <2>4. Seed(r).number = Req(r).number BY <1>7, Seeded DEF TInv, SeedThread
  <2> QED BY <2>1, <2>2, <2>3, <2>4
<1>8. ASSUME NEW c \in Cases, SeenExpires(c) PROVE AboutInv'
  BY <1>8, AboutKept DEF SeenExpires, vars
<1> QED BY <1>1, <1>2, <1>3, <1>4, <1>5, <1>6, <1>7, <1>8 DEF HandoffNext, Serve

LEMMA InitFits == ASSUME HandoffInit PROVE FitInv /\ AboutInv
<1>1. \A th \in Threads : th = Fresh BY DEF HandoffInit, Init, Threads, IdleTurn, Nodes
<1>2. \A r \in Calls : call[r].carry = Fresh BY DEF HandoffInit, IdleCall
<1>3. about = None BY DEF HandoffInit
<1> QED BY <1>1, <1>2, <1>3, FreshFits DEF FitInv, AboutInv

\* After a handoff nobody crossed, the conversation stays about the policy of the call
\* as long as the client has it: through every turn, failure and repeated handoff,
\* unless the voice corrected the document under a policy or a list that stayed.
THEOREM AboutThePolicy == HandoffSpec => []AboutTheHandoff
<1>1. FitInv /\ AboutInv => AboutTheHandoff
  <2> SUFFICES ASSUME FitInv, AboutInv, about # None
               PROVE  /\ thread.number = about
                      /\ thread.poliza \in {None, about} \/ about \notin PoliciesOf[thread.doc]
    BY DEF AboutTheHandoff
  <2>1. thread \in Threads BY DEF Threads
  <2> QED BY <2>1 DEF FitInv, AboutInv, Fit
<1>2. TInv /\ FitInv /\ AboutInv /\ [HandoffNext]_allVars => TInv' /\ FitInv' /\ AboutInv'
  BY TypesStep, FitStep, AboutStep
<1> QED BY <1>1, <1>2, InitHasTypes, InitFits, PTL DEF HandoffSpec

-----------------------------------------------------------------------------
(* The document of the first handoff *)

\* A thread with a document that has policies, of which the bot has not asked.
Ready(th) == ~th.asked /\ HasPolicies(th.doc)
KnownInv  == known => thread.node # "escalating" /\ \A th \in Threads : Ready(th)

LEMMA KnownKept ==
  ASSUME KnownInv, UNCHANGED <<thread, turn, said>>
  PROVE  KnownInv'
<1>1. Threads' = Threads BY DEF Threads
<1> QED BY <1>1 DEF KnownInv, said

\* The document at hand is the one that is looked up.
LEMMA ReadyInput ==
  ASSUME NEW h \in Turns, Ready(Th(h))
  PROVE  Given(h) = Th(h).doc /\ Given(h) # None /\ DocInput(h) = Th(h).doc
BY PoliciesAssumption DEF Ready, HasPolicies, Given, DocInput

LEMMA KnownStep ==
  ASSUME TInv, KnownInv, [HandoffNext]_allVars
  PROVE  KnownInv'
<1>1. CASE Converse
  <2> SUFFICES ASSUME known' PROVE thread'.node # "escalating" /\ \A th \in Threads' : Ready(th)
    BY DEF KnownInv
  <2>1. /\ Next /\ known
        /\ ~\E h \in Turns : \/ ~In(h, "send") /\ In(h, "send")'
                             \/ In(h, "admitted") /\ Text(h) = "reset"
    BY <1>1, Zenon DEF Converse
  <2>2. thread.node # "escalating" /\ \A th \in Threads : Ready(th) BY <2>1 DEF KnownInv
  <2>3. CASE Quiet BY <2>2, <2>3 DEF Quiet
  <2>4. ~Clears BY <2>1, <2>2 DEF Clears, Ended
  <2>5. ASSUME NEW h \in Turns, Writes(h)
        PROVE  thread'.node # "escalating" /\ \A th \in Threads' : Ready(th)
    <3>1. turn'[h].at # "send" BY <2>1, <2>5 DEF Writes, In, Nodes
    <3>2. GoesOn(h, thread') BY <2>5, <3>1 DEF Writes, Wrote
    <3>3. Ready(Th(h)) BY <2>2, <2>5 DEF Writes, Threads, Th
    <3>4. thread'.doc = Th(h).doc BY <3>2, <3>3, ReadyInput DEF GoesOn
    <3>5. Ready(thread') BY <3>2, <3>3, <3>4 DEF GoesOn, Ready
    <3> QED BY <2>2, <2>5, <3>2, <3>5 DEF Writes, GoesOn
  <2> QED BY <2>1, <2>3, <2>4, <2>5, ThreadMoves DEF TInv
<1>2. CASE UNCHANGED allVars BY <1>2, KnownKept DEF allVars, vars, handoff
<1>3. ASSUME NEW r \in Calls, NEW req \in Requests, Ask(r, req) PROVE KnownInv'
  BY <1>3, AskProceeds, KnownKept DEF TInv, vars
<1>4. ASSUME NEW r \in Calls, Dedup(r) \/ Select(r) \/ Insert(r) \/ Write(r) PROVE KnownInv'
  BY <1>4, ServeProceeds, KnownKept DEF TInv
<1>5. ASSUME NEW r \in Calls, Peek(r) PROVE KnownInv'
  BY <1>5, PeekProceeds, KnownKept DEF TInv
<1>6. ASSUME NEW r \in Calls, Delete(r) PROVE KnownInv'
  BY <1>6, DeleteProceeds DEF TInv, KnownInv
<1>7. ASSUME NEW r \in Calls, SeedThread(r) PROVE KnownInv'
  <2> SUFFICES ASSUME known' PROVE thread'.node # "escalating" /\ \A th \in Threads' : Ready(th)
    BY DEF KnownInv
  <2>1. /\ UNCHANGED turn /\ thread' = Seed(r)
        /\ Alone(r) /\ HasPolicies(Req(r).doc) /\ call[r].carry = Fresh
    <3>1. \/ thread' = Seed(r) /\ known' = (Alone(r) /\ HasPolicies(Req(r).doc) /\ call[r].carry = Fresh)
          \/ known' = FALSE
      BY <1>7, SeedProceeds DEF TInv
    <3>2. UNCHANGED turn BY <1>7, SeedProceeds DEF TInv
    <3> QED BY <3>1, <3>2, Zenon
  <2>2. Threads' = {thread'} BY <2>1, AloneSeeds DEF TInv
  <2>3. /\ Seed(r).doc = IF Req(r).doc = None THEN call[r].carry.doc ELSE Req(r).doc
        /\ Seed(r).node = call[r].carry.node /\ Seed(r).asked = call[r].carry.asked
    BY <1>7, Seeded DEF TInv, SeedThread
  <2>4. Req(r).doc # None BY <2>1, PoliciesAssumption DEF HasPolicies
  <2>5. thread'.doc = Req(r).doc /\ thread'.node = "none" /\ thread'.asked = FALSE
    BY <2>1, <2>3, <2>4 DEF Fresh
  <2>6. Ready(thread') BY <2>1, <2>5 DEF Ready
  <2> QED BY <2>2, <2>5, <2>6
<1>8. ASSUME NEW c \in Cases, SeenExpires(c) PROVE KnownInv'
  BY <1>8, KnownKept DEF SeenExpires, vars
<1> QED BY <1>1, <1>2, <1>3, <1>4, <1>5, <1>6, <1>7, <1>8 DEF HandoffNext, Serve

LEMMA InitKnows == ASSUME HandoffInit PROVE KnownInv
  BY DEF HandoffInit, KnownInv

\* node_identify with the document at hand finds the client.
LEMMA ReadyNeverAsks ==
  ASSUME TInv, NEW h \in Turns, Ready(Th(h)), Node(h), In(h, "awaiting_identification"), ~Fault
  PROVE  ~(turn'[h].at = "send" /\ thread'.node = "awaiting_identification")
<1> DEFINE doc == DocInput(h)
           owned == PoliciesOf[doc]
<1>1. /\ Given(h) # None /\ doc = Th(h).doc /\ doc \in Documents /\ owned # {} /\ ~Th(h).asked
  BY ReadyInput DEF Ready, HasPolicies
<1>2. Found(h)
  BY <1>1 DEF Node, In, IdentifyRetap, Retaps, IdentifyFaq, Greet, NotFound, LookupFails,
     ChooseAside, ChooseResolves, ChooseFails, AnswerEscalates, AnswerApproved, AnswerRejected,
     GraphFails
<1>3. Th(h) \in Thread BY HasThread DEF TInv
<1>4. CASE Matched(h)
  <2>1. thread' = Locked(Th(h), Th(h).number, {Th(h).number}, doc)
    BY <1>4 DEF Matched, Checkpoint
  <2>2. thread'.node = "answering_qa" BY <1>3, <2>1 DEF Locked, Thread
  <2> QED BY <2>2
<1>5. CASE Offered(h, Listed(owned))
  <2> DEFINE list == Listed(owned)
  <2>1. \/ thread' = [Th(h) EXCEPT !.node = "escalating", !.doc = doc]
        \/ \E p \in list : thread' = Locked(Th(h), p, list, doc)
        \/ thread' = [Th(h) EXCEPT !.node = "awaiting_policy_choice", !.plist = list, !.doc = doc]
    <3> HIDE DEF list
    <3> QED BY <1>5 DEF Offered, Replies, Checkpoint, list
  <2> HIDE DEF list
  <2>2. CASE \E p \in list : thread' = Locked(Th(h), p, list, doc)
    BY <1>3, <2>2 DEF Locked, Thread
  <2> QED BY <1>3, <2>1, <2>2 DEF Thread
<1> QED BY <1>1, <1>2, <1>4, <1>5 DEF Found, MatchHint

\* Only a node asks, and it is the node of the turn that asks.
LEMMA WhoAsks ==
  ASSUME TInv, [HandoffNext]_allVars, NEW h \in Turns, Asks(h)
  PROVE  Next /\ RunNode(h)
<1>1. turn[h].at = "awaiting_identification" /\ turn'[h].at = "send" BY DEF Asks, In
<1>2. turn' # turn BY <1>1
<1>3. Next
  BY <1>2, AskProceeds, ServeProceeds, PeekProceeds, DeleteProceeds, SeedProceeds
     DEF TInv, HandoffNext, Serve, Converse, SeenExpires, allVars, vars
<1>4. TurnInv BY DEF TInv
<1>5. ASSUME NEW g \in Turns, Task(g), g # h PROVE FALSE
  <2>1. CASE RunNode(g) \/ Send(g) \/ Fallback(g) \/ Mute(g) \/ Alert(g)
    BY <1>1, <1>4, <1>5, <2>1, BehindLock
  <2>2. CASE Prepare(g)
    BY <1>1, <1>4, <1>5, <2>2, BeforeLock DEF Stays
  <2>3. CASE Acquire(g) \/ GiveUp(g) \/ AcquireFails(g)
    <3>1. PICK b \in BOOLEAN : thread' = thread /\ turn[g].at = "lock" /\ Enter(g, b)
      BY <2>3 DEF Acquire, GiveUp, AcquireFails, In
    <3> QED BY <1>1, <1>4, <1>5, <3>1, EnterKeeps
  <2>4. CASE Release(g)
    BY <1>1, <1>4, <1>5, <2>4, IdleKeeps DEF Release
  <2> QED BY <1>5, <2>1, <2>2, <2>3, <2>4 DEF Task
<1>6. ASSUME Task(h), ~RunNode(h) PROVE FALSE
  BY <1>1, <1>6 DEF Task, Prepare, Acquire, GiveUp, AcquireFails, Send, Fallback, Mute, Alert,
     Release, In
<1>7. ASSUME NEW g \in Turns, NEW text \in Texts, Admit(g, text) PROVE FALSE
  BY <1>1, <1>4, <1>7, AdmitKeeps
<1>8. ~(LockExpires \/ Unmute \/ AlertExpires)
  BY <1>2 DEF LockExpires, Unmute, AlertExpires
<1>9. ~Crash BY <1>1 DEF Crash, IdleTurn
<1> QED BY <1>3, <1>5, <1>6, <1>7, <1>8, <1>9 DEF Next

\* The client whose document came with the first handoff is not asked for it, whatever
\* is written or tapped first, as long as nothing fails and the document has policies
\* (decision of 2026-07-29, handoff.py:347-356).
THEOREM DocumentIsUsed == HandoffSpec => FirstDocumentIsUsed
<1>1. TInv /\ KnownInv /\ [HandoffNext]_allVars
        => [known /\ faults' = 0 => \A h \in Turns : ~Asks(h)]_allVars
  <2> SUFFICES ASSUME TInv, KnownInv, [HandoffNext]_allVars, known, faults' = 0,
                      NEW h \in Turns, Asks(h)
               PROVE  FALSE
    OBVIOUS
  <2>1. Next /\ RunNode(h) BY WhoAsks
  <2>2. ~Fault BY <2>1, CountsStep DEF TInv, IInv
  <2>3. In(h, "awaiting_identification") /\ turn'[h].at = "send"
        /\ thread'.node = "awaiting_identification"
    BY DEF Asks, In
  <2>4. Th(h) \in Threads BY <2>3 DEF In, Threads, Th, Nodes
  <2> QED BY <2>1, <2>2, <2>3, <2>4, ReadyNeverAsks DEF RunNode, KnownInv
<1>2. TInv /\ KnownInv /\ [HandoffNext]_allVars => TInv' /\ KnownInv'
  BY TypesStep, KnownStep
<1> QED BY <1>1, <1>2, InitHasTypes, InitKnows, PTL DEF HandoffSpec, FirstDocumentIsUsed
====
