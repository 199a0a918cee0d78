------------------------- MODULE ReplyWindowProofs -------------------------
(***************************************************************************)
(* For every number of messages, requests and faults: types are kept, and  *)
(* Meta rejects no message of an agent for its window while deliveries and *)
(* calls take less than the margin.                                        *)
(*                                                                         *)
(* The second statement needs to know where a call to Meta can stand when  *)
(* the window closes: a request of the client is never under way by then,  *)
(* and a relay that is about to send read a record younger than the margin *)
(* allows, unless something was late.                                      *)
(*                                                                         *)
(* Nor does the bot take a text of the client while a human has the chat,  *)
(* whatever requests interleave (TakeoverInv).                             *)
(*                                                                         *)
(* With one request at a time (OneRequest), for every number of messages:  *)
(* the bot is silent on the message that had an agent's answer delivered;  *)
(* nothing an agent wrote vanishes; who is waited for has been invited;    *)
(* and, without failures, messages arrive once and in order. Each has an   *)
(* inductive invariant of its own below: SilentInv, DebtInv, InviteInv,    *)
(* OnceInv and OrderInv.                                                   *)
(***************************************************************************)
EXTENDS ReplyWindow, SequenceTheorems, TLAPS

\* What a request carries at each of its places.
Carries(k) ==
  /\ k.kind = "agent" => k.msg \in Msgs /\ <<k.msg, k.part>> \in Wamids
  /\ k.kind = "status" => <<k.msg, k.part>> \in Wamids \cup {Template}
  /\ k.at = "queue" => k.msg \in Msgs
  /\ k.kind = "client" =>
       /\ k.at \in {"delete", "deliver"} => k.batch # <<>>
       /\ IF k.at = "deliver" THEN k.part <= Parts(Head(k.batch)) ELSE k.part = 1

CarryInv == \A h \in Hooks : Carries(hook[h])

\* What holds from the moment the window closes at Meta.
ClosedInv ==
  quiet = 2 =>
    /\ mail = 0 /\ \A h \in Hooks : hook[h].kind # "client"
    /\ record = 0 \/ (\E h \in Hooks : At(h, "agent", "send")) => late

IInv == TypeOK /\ CarryInv /\ ClosedInv /\ WithinWindow

-----------------------------------------------------------------------------
(* Lemmas about the helpers *)

\* A wamid is a message and one of its parts.
LEMMA WamidPair ==
  ASSUME NEW m, NEW p
  PROVE  <<m, p>> \in Wamids <=> m \in Msgs /\ p \in {1, 2} /\ p <= Parts(m)
BY DEF Wamids

\* Nothing has more than two parts, nor fewer than one.
LEMMA PartsRange == ASSUME NEW m PROVE Parts(m) \in {1, 2}
BY DEF Parts

\* Lists grow by what they may hold.
LEMMA Appended ==
  ASSUME NEW S, NEW list \in Seq(S), NEW x \in S PROVE Append(list, x) \in Seq(S)
OBVIOUS

\* A request that moves to k is the only one that changes.
LEMMA Replaced ==
  ASSUME NEW h \in Hooks, NEW k \in Requests, Carries(k), CarryInv,
         hook \in [Hooks -> Requests], hook' = [hook EXCEPT ![h] = k]
  PROVE  /\ hook' \in [Hooks -> Requests] /\ CarryInv'
         /\ hook'[h] = k /\ \A g \in Hooks : g # h => hook'[g] = hook[g]
<1>1. hook' \in [Hooks -> Requests] OBVIOUS
<1>2. hook'[h] = k /\ \A g \in Hooks : g # h => hook'[g] = hook[g] OBVIOUS
<1>3. \A g \in Hooks : Carries(hook'[g])
  <2> SUFFICES ASSUME NEW g \in Hooks PROVE Carries(hook'[g]) OBVIOUS
  <2>1. CASE g = h BY <1>2, <2>1
  <2>2. CASE g # h
    <3>1. hook'[g] = hook[g] BY <1>2, <2>2
    <3>2. Carries(hook[g]) BY DEF CarryInv
    <3> QED BY <3>1, <3>2
  <2> QED BY <2>1, <2>2
<1>4. CarryInv' BY <1>3 DEF CarryInv, Carries
<1> QED BY <1>1, <1>2, <1>4

\* What a step of a request leaves alone unless it calls Meta, or the client's
\* message begins it.
Steady == UNCHANGED <<quiet, mail, record, late, failing>>

\* A request that does not come to stand before a call to Meta disturbs nothing.
LEMMA Moved ==
  ASSUME IInv, Steady, NEW h \in Hooks, NEW k \in Requests, Carries(k),
         hook' = [hook EXCEPT ![h] = k],
         k.kind = "client" => hook[h].kind = "client",
         k.kind = "agent" /\ k.at = "send" => record = 0 \/ At(h, "agent", "send")
  PROVE  hook' \in [Hooks -> Requests] /\ CarryInv' /\ ClosedInv' /\ WithinWindow'
<1>1. hook \in [Hooks -> Requests] /\ CarryInv BY DEF IInv, TypeOK
<1>2. /\ hook' \in [Hooks -> Requests] /\ CarryInv' /\ hook'[h] = k
      /\ \A g \in Hooks : g # h => hook'[g] = hook[g]
  BY <1>1, Replaced
<1>3. WithinWindow' BY DEF IInv, WithinWindow, Steady
<1>4. ClosedInv'
  <2> SUFFICES ASSUME quiet = 2
               PROVE /\ mail = 0 /\ \A g \in Hooks : hook'[g].kind # "client"
                     /\ record = 0 \/ (\E g \in Hooks : hook'[g].kind = "agent" /\ hook'[g].at = "send")
                          => late
    BY DEF Steady, ClosedInv, At
  <2>1. mail = 0 /\ \A g \in Hooks : hook[g].kind # "client" BY DEF IInv, ClosedInv
  <2>2. \A g \in Hooks : hook'[g].kind # "client" BY <1>2, <2>1
  <2>3. ASSUME NEW g \in Hooks, hook'[g].kind = "agent", hook'[g].at = "send"
        PROVE  record = 0 \/ \E i \in Hooks : At(i, "agent", "send")
    BY <1>2, <2>3 DEF At
  <2> QED BY <2>1, <2>2, <2>3 DEF IInv, ClosedInv
<1> QED BY <1>2, <1>3, <1>4

\* The idle request carries nothing.
LEMMA IdleFits == IdleHook \in Requests /\ Carries(IdleHook) /\ IdleHook.kind = "none"
<1>1. <<>> \in Seq(Msgs) OBVIOUS
<1>2. MaxMsgs \in Nat BY BoundsAssumption
<1> QED BY <1>1, <1>2 DEF IdleHook, Requests, Carries

Places == {"idle", "remember", "queue", "flag", "template", "unflag", "human", "muted",
           "clear", "bot", "tapped", "forget", "send", "deliver"}

\* The same for a request that only moves to another place.
LEMMA Gone ==
  ASSUME IInv, Steady, NEW h \in Hooks, NEW place \in Places, Goto(h, place),
         hook[h].at # "deliver" \/ place = "idle",
         place = "deliver" => hook[h].at = "delete",
         place = "queue" => hook[h].msg \in Msgs,
         place = "send" => record = 0
  PROVE  hook' \in [Hooks -> Requests] /\ CarryInv' /\ ClosedInv' /\ WithinWindow'
<1> DEFINE k == IF place = "idle" THEN IdleHook ELSE [hook[h] EXCEPT !.at = place]
<1>1. hook[h] \in Requests /\ Carries(hook[h]) BY DEF IInv, TypeOK, CarryInv
<1>2. hook' = [hook EXCEPT ![h] = k] BY DEF Goto
<1>3. CASE place = "idle" BY <1>2, <1>3, IdleFits, Moved
<1>4. CASE place # "idle"
  <2>1. k = [hook[h] EXCEPT !.at = place] BY <1>4
  <2>2. k \in Requests BY <1>1, <2>1 DEF Requests, Places
  <2>3. /\ k.kind = hook[h].kind /\ k.msg = hook[h].msg /\ k.part = hook[h].part
        /\ k.batch = hook[h].batch /\ k.at = place
    BY <1>1, <2>1 DEF Requests
  <2>4. Carries(k)
    <3> HIDE DEF k
    <3>1. k.kind = "client" =>
            /\ k.at \in {"delete", "deliver"} => k.batch # <<>>
            /\ IF k.at = "deliver" THEN k.part <= Parts(Head(k.batch)) ELSE k.part = 1
      BY <1>1, <1>4, <2>3, PartsRange DEF Carries, Places
    <3> QED BY <1>1, <2>3, <3>1 DEF Carries
  <2> QED BY <1>2, <2>2, <2>3, <2>4, Moved
<1> QED BY <1>3, <1>4

-----------------------------------------------------------------------------
(* The initial states *)

LEMMA InitInv == Init => IInv
<1> SUFFICES ASSUME Init PROVE IInv OBVIOUS
<1>1. hook = [h \in Hooks |-> IdleHook] BY DEF Init
<1>2. TypeOK
  <2>1. hook \in [Hooks -> Requests] BY <1>1, IdleFits
  <2>2. <<>> \in Seq(Msgs) /\ <<>> \in Seq(Wamids) OBVIOUS
  <2>3. {flag, invited, takeover, late, gone} \subseteq BOOLEAN BY Zenon DEF Init
  <2> QED BY <2>1, <2>2, <2>3, BoundsAssumption DEF Init, TypeOK
<1>3. CarryInv BY <1>1, IdleFits DEF CarryInv
<1>4. ClosedInv BY <1>1, IdleFits DEF Init, ClosedInv, At
<1>5. WithinWindow BY DEF Init, WithinWindow
<1> QED BY <1>2, <1>3, <1>4, <1>5 DEF IInv

-----------------------------------------------------------------------------
(* The other variables: their part of TypeOK *)

Switches == {flag, invited, takeover, late, gone} \subseteq BOOLEAN
RestTyped ==
  /\ written \in 0 .. MaxMsgs
  /\ pending \in Seq(Msgs) /\ arrived \in Seq(Wamids)
  /\ out \subseteq Wamids \cup {Template}
  /\ failing \subseteq [id : Wamids \cup {Template}, why : {"window", "other"},
                        sender : {"agent", "client"}]
  /\ record \in 0 .. 2 /\ quiet \in 0 .. 2 /\ mail \in 0 .. 1 /\ faults \in Nat
  /\ mute \in {"none", "escalated", "expired", "human"} /\ noted \subseteq Msgs
  /\ lost \subseteq Msgs /\ resolved \subseteq Hooks

LEMMA TypeParts == TypeOK <=> hook \in [Hooks -> Requests] /\ RestTyped /\ Switches
BY DEF TypeOK, RestTyped, Switches

LEMMA TypePartsNext ==
  ASSUME (hook \in [Hooks -> Requests])', RestTyped', Switches' PROVE TypeOK'
BY DEF TypeOK, RestTyped, Switches

\* What a request holds is typed.
LEMMA RequestTyped ==
  ASSUME IInv, NEW h \in Hooks
  PROVE  /\ hook[h] \in Requests /\ Carries(hook[h])
         /\ hook[h].msg \in 0 .. MaxMsgs /\ hook[h].part \in {1, 2}
         /\ hook[h].batch \in Seq(Msgs)
<1>1. hook[h] \in Requests /\ Carries(hook[h]) BY DEF IInv, TypeOK, CarryInv
<1> QED BY <1>1 DEF Requests

-----------------------------------------------------------------------------
(* The relay *)

LEMMA RelayInv == ASSUME IInv, NEW h \in Hooks, Relay(h) PROVE IInv'
<1> DEFINE k == [IdleHook EXCEPT !.kind = "agent", !.at = "check", !.msg = written + 1]
<1>1. written \in Nat /\ written + 1 \in Msgs
  BY BoundsAssumption DEF IInv, TypeOK, Relay, Msgs
<1>2. k \in Requests
  <2>1. written + 1 \in 0 .. MaxMsgs BY <1>1, BoundsAssumption DEF Msgs
  <2> QED BY <2>1, IdleFits DEF Requests
<1>3. k.kind = "agent" /\ k.at = "check" /\ k.msg = written + 1 /\ k.part = 1
  BY DEF IdleHook
<1>4. Carries(k)
  <2> HIDE DEF k
  <2> QED BY <1>1, <1>3, WamidPair, PartsRange DEF Carries
<1>5. hook' = [hook EXCEPT ![h] = k] /\ Steady
  BY DEF Relay, Starts, phone, redis, ghosts, Steady
<1>6. (hook \in [Hooks -> Requests])' /\ CarryInv' /\ ClosedInv' /\ WithinWindow'
  <2> HIDE DEF k
  <2> QED BY <1>2, <1>3, <1>4, <1>5, Moved
<1>7. RestTyped'
  BY <1>1 DEF IInv, TypeOK, RestTyped, Relay, redis, phone, ghosts, Msgs
<1>8. Switches'
  BY Zenon DEF IInv, TypeOK, Switches, Relay, redis, phone, ghosts
<1> QED BY <1>6, <1>7, <1>8, TypePartsNext DEF IInv

LEMMA CheckInv == ASSUME IInv, NEW h \in Hooks, Check(h) PROVE IInv'
<1> DEFINE place == IF WindowOpen(record) THEN "send" ELSE "queue"
<1>1. Goto(h, place) /\ Steady BY DEF Check, redis, phone, ghosts, Steady
<1>2. place \in Places /\ hook[h].at = "check" /\ hook[h].msg \in Msgs
  BY RequestTyped DEF Check, At, Places, Carries
<1>3. place = "send" => record = 0 BY DEF WindowOpen
<1>4. place # "deliver" OBVIOUS
<1>5. (hook \in [Hooks -> Requests])' /\ CarryInv' /\ ClosedInv' /\ WithinWindow'
  <2> HIDE DEF place
  <2> QED BY <1>1, <1>2, <1>3, <1>4, Gone
<1>6. RestTyped' BY DEF IInv, TypeOK, RestTyped, Check, redis, phone, ghosts
<1>7. Switches' BY Zenon DEF IInv, TypeOK, Switches, Check, redis, phone, ghosts
<1> QED BY <1>5, <1>6, <1>7, TypePartsNext DEF IInv

\* A call to Meta keeps the types of what it changes.
LEMMA AcceptedTyped ==
  ASSUME IInv, NEW x \in Wamids, NEW sender \in {"agent", "client"}, Accepted(x, sender)
  PROVE  /\ arrived' \in Seq(Wamids) /\ faults' \in Nat
         /\ failing' \subseteq [id : Wamids \cup {Template}, why : {"window", "other"},
                                sender : {"agent", "client"}]
         /\ (\E f \in failing' : f.why = "window") =>
              quiet = 2 \/ \E f \in failing : f.why = "window"
<1>1. /\ arrived \in Seq(Wamids) /\ faults \in Nat
      /\ failing \subseteq [id : Wamids \cup {Template}, why : {"window", "other"},
                            sender : {"agent", "client"}]
  BY DEF IInv, TypeOK
<1>2. CASE arrived' = Append(arrived, x) /\ UNCHANGED <<failing, faults>>
  BY <1>1, <1>2
<1>3. CASE /\ quiet = 2 /\ UNCHANGED <<arrived, faults>>
           /\ failing' = failing \cup {[id |-> x, why |-> "window", sender |-> sender]}
  BY <1>1, <1>3
<1>4. CASE /\ Fault /\ UNCHANGED arrived
           /\ failing' = failing \cup {[id |-> x, why |-> "other", sender |-> sender]}
  BY <1>1, <1>4 DEF Fault
<1> QED BY <1>2, <1>3, <1>4 DEF Accepted

LEMMA SendInv == ASSUME IInv, NEW h \in Hooks, Send(h) PROVE IInv'
<1> DEFINE m == hook[h].msg
           k == IF hook[h].part < Parts(m) THEN [hook[h] EXCEPT !.part = hook[h].part + 1]
                ELSE [hook[h] EXCEPT !.at = "remember"]
<1>1. /\ hook[h] \in Requests /\ hook[h].kind = "agent" /\ hook[h].at = "send"
      /\ m \in Msgs /\ hook[h].part \in {1, 2} /\ <<m, hook[h].part>> \in Wamids
  BY RequestTyped DEF Send, At, Carries
<1>2. hook' = [hook EXCEPT ![h] = k]
  <2>1. hook \in [Hooks -> Requests] BY DEF IInv, TypeOK
  <2> QED BY <2>1 DEF Send, NextPart, Goto
<1>3. Accepted(<<m, hook[h].part>>, "agent") BY DEF Send
<1>4. k \in Requests /\ k.kind = "agent" /\ k.at \in {"send", "remember"} /\ k.msg = m
        /\ k.part \in {1, 2} /\ (k.part = hook[h].part \/ k.part <= Parts(m))
  BY <1>1, PartsRange DEF Requests
<1>5. Carries(k)
  <2> HIDE DEF k
  <2> QED BY <1>1, <1>4, WamidPair DEF Carries
<1>6. /\ (hook \in [Hooks -> Requests])' /\ CarryInv' /\ hook'[h] = k
      /\ \A g \in Hooks : g # h => hook'[g] = hook[g]
  <2> HIDE DEF k
  <2> QED BY <1>2, <1>4, <1>5, Replaced DEF IInv, TypeOK
<1>7. UNCHANGED <<quiet, mail, record, late>> BY DEF Send, redis, ghosts
<1>8. quiet = 2 => late BY <1>1 DEF IInv, ClosedInv, At
<1>9. WithinWindow' BY <1>1, <1>3, <1>7, <1>8, AcceptedTyped DEF IInv, WithinWindow
<1>10. ClosedInv'
  <2>1. hook'[h].kind = hook[h].kind BY <1>1, <1>4, <1>6
  <2> HIDE DEF k
  <2> QED BY <1>6, <1>7, <1>8, <2>1 DEF IInv, ClosedInv, At
<1>11. RestTyped'
  BY <1>1, <1>3, AcceptedTyped DEF IInv, TypeOK, RestTyped, Send, redis, ghosts
<1>12. Switches' BY Zenon DEF IInv, TypeOK, Switches, Send, redis, ghosts
<1> QED BY <1>6, <1>9, <1>10, <1>11, <1>12, TypePartsNext DEF IInv

LEMMA RememberInv == ASSUME IInv, NEW h \in Hooks, Remember(h) PROVE IInv'
<1>1. Goto(h, "human") /\ Steady /\ hook[h].at = "remember"
  BY DEF Remember, At, phone, ghosts, Steady
<1>2. (hook \in [Hooks -> Requests])' /\ CarryInv' /\ ClosedInv' /\ WithinWindow'
  BY <1>1, Gone DEF Places
<1>3. RestTyped' BY DEF IInv, TypeOK, RestTyped, Remember, phone, ghosts
<1>4. Switches' BY Zenon DEF IInv, TypeOK, Switches, Remember, phone, ghosts
<1> QED BY <1>2, <1>3, <1>4, TypePartsNext DEF IInv

LEMMA RelayFailsInv == ASSUME IInv, NEW h \in Hooks, RelayFails(h) PROVE IInv'
<1>1. Goto(h, "idle") /\ Steady BY DEF RelayFails, Steady, redis
<1>2. (hook \in [Hooks -> Requests])' /\ CarryInv' /\ ClosedInv' /\ WithinWindow'
  BY <1>1, Gone DEF Places
<1>3. hook[h].msg \in Msgs /\ <<hook[h].msg, hook[h].part>> \in Wamids
  BY RequestTyped DEF RelayFails, Carries
<1>4. RestTyped'
  <2>1. arrived \in Seq(Wamids) BY DEF IInv, TypeOK
  <2>2. arrived' = arrived \/ arrived' = Append(arrived, <<hook[h].msg, hook[h].part>>)
    BY DEF RelayFails
  <2>3. Append(arrived, <<hook[h].msg, hook[h].part>>) \in Seq(Wamids)
    BY <1>3, <2>1, Appended
  <2>4. arrived' \in Seq(Wamids) BY <2>1, <2>2, <2>3
  <2> QED BY <1>3, <2>4 DEF IInv, TypeOK, RestTyped, RelayFails, redis, Fault
<1>5. Switches' BY Zenon DEF IInv, TypeOK, Switches, RelayFails, redis
<1> QED BY <1>2, <1>4, <1>5, TypePartsNext DEF IInv

-----------------------------------------------------------------------------
(* The list and the template *)

LEMMA QueueInv == ASSUME IInv, NEW h \in Hooks, Queue(h) PROVE IInv'
<1>1. Goto(h, "flag") /\ Steady /\ hook[h].at = "queue" /\ hook[h].msg \in Msgs
  BY RequestTyped DEF Queue, Carries, phone, ghosts, Steady
<1>2. (hook \in [Hooks -> Requests])' /\ CarryInv' /\ ClosedInv' /\ WithinWindow'
  BY <1>1, Gone DEF Places
<1>3. RestTyped'
  <2>1. pending' \in Seq(Msgs) BY <1>1 DEF IInv, TypeOK, Queue, Pushed
  <2> QED BY <2>1 DEF IInv, TypeOK, RestTyped, Queue, phone, ghosts
<1>4. Switches' BY Zenon DEF IInv, TypeOK, Switches, Queue, phone, ghosts
<1> QED BY <1>2, <1>3, <1>4, TypePartsNext DEF IInv

LEMMA TakeFlagInv == ASSUME IInv, NEW h \in Hooks, TakeFlag(h) PROVE IInv'
<1> DEFINE place == IF flag THEN AfterReengage(h) ELSE "template"
<1>1. Goto(h, place) /\ Steady /\ hook[h].at = "flag"
  BY DEF TakeFlag, phone, ghosts, Steady
<1>2. place \in {"human", "idle", "template"} BY DEF AfterReengage
<1>3. (hook \in [Hooks -> Requests])' /\ CarryInv' /\ ClosedInv' /\ WithinWindow'
  <2> HIDE DEF place
  <2> QED BY <1>1, <1>2, Gone DEF Places
<1>4. RestTyped' BY DEF IInv, TypeOK, RestTyped, TakeFlag, phone, ghosts
<1>5. Switches' BY Zenon DEF IInv, TypeOK, Switches, TakeFlag, phone, ghosts
<1> QED BY <1>3, <1>4, <1>5, TypePartsNext DEF IInv

LEMMA SendTemplateInv == ASSUME IInv, NEW h \in Hooks, SendTemplate(h) PROVE IInv'
<1>1. /\ Goto(h, AfterReengage(h)) /\ Steady /\ hook[h].at = "template"
      /\ AfterReengage(h) \in {"human", "idle"}
  BY DEF SendTemplate, phone, Steady, AfterReengage
<1>2. (hook \in [Hooks -> Requests])' /\ CarryInv' /\ ClosedInv' /\ WithinWindow'
  BY <1>1, Gone DEF Places
<1>3. RestTyped' BY DEF IInv, TypeOK, RestTyped, SendTemplate, phone
<1>4. Switches' BY Zenon DEF IInv, TypeOK, Switches, SendTemplate, phone
<1> QED BY <1>2, <1>3, <1>4, TypePartsNext DEF IInv

LEMMA TemplateFailsInv == ASSUME IInv, NEW h \in Hooks, TemplateFails(h) PROVE IInv'
<1>1. /\ Goto(h, AfterReengage(h)) /\ Steady /\ hook[h].at = "template"
      /\ AfterReengage(h) \in {"human", "idle"}
  BY DEF TemplateFails, phone, ghosts, Steady, AfterReengage
<1>2. (hook \in [Hooks -> Requests])' /\ CarryInv' /\ ClosedInv' /\ WithinWindow'
  BY <1>1, Gone DEF Places
<1>3. RestTyped' BY DEF IInv, TypeOK, RestTyped, TemplateFails, phone, ghosts, Fault
<1>4. Switches' BY Zenon DEF IInv, TypeOK, Switches, TemplateFails, phone, ghosts
<1> QED BY <1>2, <1>3, <1>4, TypePartsNext DEF IInv

LEMMA TemplateRejectedInv == ASSUME IInv, TemplateRejected PROVE IInv'
<1>1. UNCHANGED <<hook, record, quiet, mail, late>>
  BY DEF TemplateRejected, redis
<1>2. (hook \in [Hooks -> Requests])' /\ CarryInv' /\ ClosedInv'
  BY <1>1 DEF IInv, TypeOK, CarryInv, Carries, ClosedInv, At
<1>3. WithinWindow' BY <1>1 DEF IInv, WithinWindow, TemplateRejected
<1>4. RestTyped' BY DEF IInv, TypeOK, RestTyped, TemplateRejected, redis, Fault
<1>5. Switches' BY Zenon DEF IInv, TypeOK, Switches, TemplateRejected, redis
<1> QED BY <1>2, <1>3, <1>4, <1>5, TypePartsNext DEF IInv

-----------------------------------------------------------------------------
(* The client's message *)

LEMMA ClientWritesInv == ASSUME IInv, ClientWrites PROVE IInv'
<1>1. UNCHANGED <<hook, record, late, failing>> /\ quiet' = 0
  BY DEF ClientWrites, redis, ghosts
<1>2. (hook \in [Hooks -> Requests])' /\ CarryInv' /\ ClosedInv' /\ WithinWindow'
  BY <1>1 DEF IInv, TypeOK, CarryInv, Carries, ClosedInv, WithinWindow
<1>3. RestTyped' BY DEF IInv, TypeOK, RestTyped, ClientWrites, redis, ghosts
<1>4. Switches' BY Zenon DEF IInv, TypeOK, Switches, ClientWrites, redis, ghosts
<1> QED BY <1>2, <1>3, <1>4, TypePartsNext DEF IInv

LEMMA InboundInv == ASSUME IInv, NEW h \in Hooks, Inbound(h) PROVE IInv'
<1> DEFINE k == [IdleHook EXCEPT !.kind = "client", !.at = "range"]
<1>1. k \in Requests BY IdleFits DEF Requests
<1>2. k.kind = "client" /\ k.at = "range" /\ k.part = 1 BY DEF IdleHook
<1>3. Carries(k)
  <2> HIDE DEF k
  <2> QED BY <1>2 DEF Carries
<1>4. hook' = [hook EXCEPT ![h] = k] /\ UNCHANGED <<quiet, late, failing>> /\ mail > 0
  BY DEF Inbound, Starts
<1>5. (hook \in [Hooks -> Requests])' /\ CarryInv'
  <2> HIDE DEF k
  <2> QED BY <1>1, <1>3, <1>4, Replaced DEF IInv, TypeOK
<1>6. quiet # 2 BY <1>4 DEF IInv, ClosedInv
<1>7. ClosedInv' /\ WithinWindow' BY <1>4, <1>6 DEF IInv, ClosedInv, WithinWindow
<1>8. RestTyped' BY DEF IInv, TypeOK, RestTyped, Inbound
<1>9. Switches' BY Zenon DEF IInv, TypeOK, Switches, Inbound
<1> QED BY <1>5, <1>7, <1>8, <1>9, TypePartsNext DEF IInv

LEMMA ReadListInv == ASSUME IInv, NEW h \in Hooks, ReadList(h) PROVE IInv'
<1> DEFINE place == IF pending = <<>> THEN "muted" ELSE "delete"
           k == [hook[h] EXCEPT !.batch = pending, !.at = place]
<1>1. /\ hook[h] \in Requests /\ hook[h].kind = "client" /\ hook[h].part = 1
      /\ hook[h].at = "range"
  BY RequestTyped DEF ReadList, At, Carries
<1>2. place \in {"muted", "delete"} /\ (place = "delete" => pending # <<>>) OBVIOUS
<1>3. hook' = [hook EXCEPT ![h] = k]
  BY DEF ReadList
<1>4. Steady BY DEF ReadList, redis, phone, ghosts, Steady
<1>5. /\ k \in Requests /\ k.kind = "client" /\ k.at = place /\ k.part = 1
      /\ k.batch = pending
  <2>1. pending \in Seq(Msgs) BY DEF IInv, TypeOK
  <2> HIDE DEF place
  <2> QED BY <1>1, <1>2, <2>1 DEF Requests
<1>6. Carries(k)
  <2> HIDE DEF k, place
  <2> QED BY <1>2, <1>5 DEF Carries
<1>7. (hook \in [Hooks -> Requests])' /\ CarryInv' /\ ClosedInv' /\ WithinWindow'
  <2> HIDE DEF k
  <2> QED BY <1>1, <1>3, <1>4, <1>5, <1>6, Moved
<1>8. RestTyped' BY DEF IInv, TypeOK, RestTyped, ReadList, redis, phone, ghosts
<1>9. Switches' BY Zenon DEF IInv, TypeOK, Switches, ReadList, redis, phone, ghosts
<1> QED BY <1>7, <1>8, <1>9, TypePartsNext DEF IInv

LEMMA DeleteListInv == ASSUME IInv, NEW h \in Hooks, DeleteList(h) PROVE IInv'
<1>1. Goto(h, "deliver") /\ Steady /\ hook[h].at = "delete"
  BY DEF DeleteList, At, phone, Steady
<1>2. (hook \in [Hooks -> Requests])' /\ CarryInv' /\ ClosedInv' /\ WithinWindow'
  BY <1>1, Gone DEF Places
<1>3. RestTyped'
  <2>1. pending' = <<>> /\ <<>> \in Seq(Msgs) BY DEF DeleteList
  <2>2. ToSet(pending) \subseteq Msgs BY DEF IInv, TypeOK, ToSet
  <2>3. lost' \subseteq Msgs BY <2>2 DEF IInv, TypeOK, DeleteList
  <2> QED BY <2>1, <2>3 DEF IInv, TypeOK, RestTyped, DeleteList, phone
<1>4. Switches' BY Zenon DEF IInv, TypeOK, Switches, DeleteList, phone
<1> QED BY <1>2, <1>3, <1>4, TypePartsNext DEF IInv

\* What is being delivered.
LEMMA Delivering ==
  ASSUME IInv, NEW h \in Hooks, At(h, "client", "deliver")
  PROVE  /\ hook[h] \in Requests /\ hook[h].kind = "client" /\ hook[h].at = "deliver"
         /\ hook[h].batch \in Seq(Msgs) /\ hook[h].batch # <<>>
         /\ Head(hook[h].batch) \in Msgs /\ Tail(hook[h].batch) \in Seq(Msgs)
         /\ hook[h].part <= Parts(Head(hook[h].batch))
         /\ <<Head(hook[h].batch), hook[h].part>> \in Wamids
<1>1. /\ hook[h] \in Requests /\ hook[h].kind = "client" /\ hook[h].at = "deliver"
      /\ hook[h].batch \in Seq(Msgs) /\ hook[h].batch # <<>>
      /\ hook[h].part <= Parts(Head(hook[h].batch)) /\ hook[h].part \in {1, 2}
  BY RequestTyped DEF At, Carries
<1>2. Head(hook[h].batch) \in Msgs /\ Tail(hook[h].batch) \in Seq(Msgs)
  BY <1>1, HeadTailProperties
<1> QED BY <1>1, <1>2, WamidPair

LEMMA DeliverInv == ASSUME IInv, NEW h \in Hooks, Deliver(h) PROVE IInv'
<1> DEFINE b == hook[h].batch
           place == IF Len(b) = 1 THEN "unflag" ELSE "deliver"
           k == IF hook[h].part # Parts(Head(b)) THEN [hook[h] EXCEPT !.part = hook[h].part + 1]
                ELSE [hook[h] EXCEPT !.part = 1, !.sent = TRUE, !.batch = Tail(b), !.at = place]
<1>1. At(h, "client", "deliver") /\ Accepted(<<Head(b), hook[h].part>>, "client")
  BY DEF Deliver
<1>2. /\ hook[h] \in Requests /\ hook[h].kind = "client" /\ hook[h].at = "deliver"
      /\ b \in Seq(Msgs) /\ b # <<>> /\ Head(b) \in Msgs /\ Tail(b) \in Seq(Msgs)
      /\ hook[h].part <= Parts(Head(b)) /\ <<Head(b), hook[h].part>> \in Wamids
      /\ hook[h].part \in {1, 2}
  BY <1>1, Delivering, RequestTyped
<1>3. hook' = [hook EXCEPT ![h] = k]
  <2>1. hook \in [Hooks -> Requests] BY DEF IInv, TypeOK
  <2>2. CASE hook[h].part # Parts(Head(b))
    <3>1. NextPart(h) BY <2>2 DEF Deliver
    <3> QED BY <2>1, <2>2, <3>1 DEF NextPart
  <2>3. CASE hook[h].part = Parts(Head(b)) BY <2>3 DEF Deliver
  <2> QED BY <2>2, <2>3
<1>4. k \in Requests /\ k.kind = "client" /\ Carries(k)
  <2>1. CASE hook[h].part # Parts(Head(b))
    <3>1. hook[h].part = 1 /\ Parts(Head(b)) = 2 BY <1>2, <2>1, PartsRange
    <3>2. k = [hook[h] EXCEPT !.part = 2] BY <2>1, <3>1
    <3> HIDE DEF k
    <3>3. /\ k \in Requests /\ k.kind = "client" /\ k.at = "deliver" /\ k.batch = b
          /\ k.part = 2
      BY <1>2, <3>2 DEF Requests
    <3>4. Carries(k) BY <1>2, <3>1, <3>3 DEF Carries
    <3> QED BY <3>3, <3>4
  <2>2. CASE hook[h].part = Parts(Head(b))
    <3>1. k = [hook[h] EXCEPT !.part = 1, !.sent = TRUE, !.batch = Tail(b), !.at = place]
      BY <2>2
    <3>2. place \in {"unflag", "deliver"} OBVIOUS
    <3>3. place = "deliver" => Tail(b) # <<>>
      <4>1. Len(b) \in Nat /\ Len(b) # 0 /\ Len(Tail(b)) = Len(b) - 1
        BY <1>2, HeadTailProperties, EmptySeq, LenProperties
      <4>2. place = "deliver" => Len(Tail(b)) # 0 BY <4>1
      <4>3. Len(<<>>) = 0 OBVIOUS
      <4> QED BY <4>2, <4>3
    <3> HIDE DEF k, place
    <3>4. /\ k \in Requests /\ k.kind = "client" /\ k.at = place /\ k.batch = Tail(b)
          /\ k.part = 1
      BY <1>2, <3>1, <3>2 DEF Requests
    <3>5. Carries(k) BY <3>2, <3>3, <3>4, PartsRange DEF Carries
    <3> QED BY <3>4, <3>5
  <2> QED BY <2>1, <2>2
<1>5. (hook \in [Hooks -> Requests])' /\ CarryInv'
  <2> HIDE DEF k
  <2> QED BY <1>3, <1>4, Replaced DEF IInv, TypeOK
<1>6. UNCHANGED <<quiet, late>> /\ quiet # 2
  BY <1>2 DEF Deliver, ghosts, IInv, ClosedInv
<1>7. ClosedInv' BY <1>6 DEF ClosedInv
<1>8. WithinWindow' BY <1>1, <1>2, <1>6, AcceptedTyped DEF IInv, WithinWindow
<1>9. RestTyped'
  BY <1>1, <1>2, AcceptedTyped DEF IInv, TypeOK, RestTyped, Deliver, redis, ghosts
<1>10. Switches' BY Zenon DEF IInv, TypeOK, Switches, Deliver, redis, ghosts
<1> QED BY <1>5, <1>7, <1>8, <1>9, <1>10, TypePartsNext DEF IInv

LEMMA DeliverFailsInv == ASSUME IInv, NEW h \in Hooks, DeliverFails(h) PROVE IInv'
<1> DEFINE k == [hook[h] EXCEPT !.batch = <<>>, !.part = 1, !.at = "unflag"]
<1>1. At(h, "client", "deliver") /\ hook' = [hook EXCEPT ![h] = k] /\ Steady
  BY DEF DeliverFails, ghosts, Steady
<1>2. /\ hook[h] \in Requests /\ hook[h].kind = "client"
      /\ hook[h].batch \in Seq(Msgs) /\ <<Head(hook[h].batch), hook[h].part>> \in Wamids
  BY <1>1, Delivering
<1>3. /\ k \in Requests /\ k.kind = "client" /\ k.at = "unflag" /\ k.part = 1
  <2>1. <<>> \in Seq(Msgs) OBVIOUS
  <2> QED BY <1>2, <2>1 DEF Requests
<1>4. Carries(k)
  <2> HIDE DEF k
  <2> QED BY <1>3 DEF Carries
<1>5. (hook \in [Hooks -> Requests])' /\ CarryInv' /\ ClosedInv' /\ WithinWindow'
  <2> HIDE DEF k
  <2> QED BY <1>1, <1>2, <1>3, <1>4, Moved
<1>6. RestTyped'
  <2>1. pending' \in Seq(Msgs)
    <3>1. pending \in Seq(Msgs) BY DEF IInv, TypeOK
    <3> QED BY <1>2, <3>1, ConcatProperties DEF DeliverFails, PutBack
  <2>2. arrived' \in Seq(Wamids)
    <3>1. arrived \in Seq(Wamids) BY DEF IInv, TypeOK
    <3>2. Append(arrived, <<Head(hook[h].batch), hook[h].part>>) \in Seq(Wamids)
      BY <1>2, <3>1, Appended
    <3>3. \/ arrived' = arrived
          \/ arrived' = Append(arrived, <<Head(hook[h].batch), hook[h].part>>)
      BY DEF DeliverFails
    <3> QED BY <3>1, <3>2, <3>3
  <2> QED BY <2>1, <2>2 DEF IInv, TypeOK, RestTyped, DeliverFails, ghosts, Fault
<1>7. Switches' BY Zenon DEF IInv, TypeOK, Switches, DeliverFails, ghosts
<1> QED BY <1>5, <1>6, <1>7, TypePartsNext DEF IInv

LEMMA UnflagInv == ASSUME IInv, NEW h \in Hooks, Unflag(h) PROVE IInv'
<1> DEFINE place == AfterFlush(hook[h].sent)
<1>1. Goto(h, place) /\ Steady /\ hook[h].at = "unflag"
  BY DEF Unflag, At, phone, Steady
<1>2. place \in {"human", "muted"} BY DEF AfterFlush
<1>3. (hook \in [Hooks -> Requests])' /\ CarryInv' /\ ClosedInv' /\ WithinWindow'
  <2> HIDE DEF place
  <2> QED BY <1>1, <1>2, Gone DEF Places
<1>4. RestTyped' BY DEF IInv, TypeOK, RestTyped, Unflag, phone
<1>5. Switches' BY Zenon DEF IInv, TypeOK, Switches, Unflag, phone, FlagAfter
<1> QED BY <1>3, <1>4, <1>5, TypePartsNext DEF IInv

-----------------------------------------------------------------------------
(* The mute and the bot's turn *)

LEMMA SetHumanInv == ASSUME IInv, NEW h \in Hooks, SetHuman(h) PROVE IInv'
<1> DEFINE place == IF hook[h].kind = "client" THEN "muted" ELSE "idle"
<1>1. Goto(h, place) /\ Steady /\ hook[h].at = "human" BY DEF SetHuman, phone, Steady
<1>2. place \in {"muted", "idle"} OBVIOUS
<1>3. (hook \in [Hooks -> Requests])' /\ CarryInv' /\ ClosedInv' /\ WithinWindow'
  <2> HIDE DEF place
  <2> QED BY <1>1, <1>2, Gone DEF Places
<1>4. RestTyped' BY DEF IInv, TypeOK, RestTyped, SetHuman, phone
<1>5. Switches' BY Zenon DEF IInv, TypeOK, Switches, SetHuman, phone
<1> QED BY <1>3, <1>4, <1>5, TypePartsNext DEF IInv

LEMMA IsMutedInv == ASSUME IInv, NEW h \in Hooks, IsMuted(h) PROVE IInv'
<1>1. Steady /\ hook[h].at = "muted" BY DEF IsMuted, At, redis, phone, ghosts, Steady
<1>2. PICK place \in {"bot", "clear", "idle"} : Goto(h, place) BY DEF IsMuted
<1>3. (hook \in [Hooks -> Requests])' /\ CarryInv' /\ ClosedInv' /\ WithinWindow'
  BY <1>1, <1>2, Gone DEF Places
<1>4. RestTyped' BY DEF IInv, TypeOK, RestTyped, IsMuted, redis, phone, ghosts
<1>5. Switches' BY Zenon DEF IInv, TypeOK, Switches, IsMuted, redis, phone, ghosts
<1> QED BY <1>3, <1>4, <1>5, TypePartsNext DEF IInv

LEMMA ClearExpiredInv == ASSUME IInv, NEW h \in Hooks, ClearExpired(h) PROVE IInv'
<1>1. Goto(h, "bot") /\ Steady /\ hook[h].at = "clear"
  BY DEF ClearExpired, At, phone, ghosts, Steady
<1>2. (hook \in [Hooks -> Requests])' /\ CarryInv' /\ ClosedInv' /\ WithinWindow'
  BY <1>1, Gone DEF Places
<1>3. RestTyped' BY DEF IInv, TypeOK, RestTyped, ClearExpired, phone, ghosts
<1>4. Switches' BY Zenon DEF IInv, TypeOK, Switches, ClearExpired, phone, ghosts
<1> QED BY <1>2, <1>3, <1>4, TypePartsNext DEF IInv

LEMMA TakeTapInv == ASSUME IInv, NEW h \in Hooks, TakeTap(h) PROVE IInv'
<1>1. Goto(h, "tapped") /\ Steady /\ hook[h].at = "muted"
  BY DEF TakeTap, At, redis, phone, Steady
<1>2. (hook \in [Hooks -> Requests])' /\ CarryInv' /\ ClosedInv' /\ WithinWindow'
  BY <1>1, Gone DEF Places
<1>3. RestTyped' BY DEF IInv, TypeOK, RestTyped, TakeTap, redis, phone
<1>4. Switches' BY Zenon DEF IInv, TypeOK, Switches, TakeTap, redis, phone
<1> QED BY <1>2, <1>3, <1>4, TypePartsNext DEF IInv

LEMMA NotForTheBotInv == ASSUME IInv, NEW h \in Hooks, NotForTheBot(h) PROVE IInv'
<1>1. Goto(h, "idle") /\ Steady BY DEF NotForTheBot, redis, phone, ghosts, Steady
<1>2. (hook \in [Hooks -> Requests])' /\ CarryInv' /\ ClosedInv' /\ WithinWindow'
  BY <1>1, Gone DEF Places
<1>3. RestTyped' BY DEF IInv, TypeOK, RestTyped, NotForTheBot, redis, phone, ghosts
<1>4. Switches' BY Zenon DEF IInv, TypeOK, Switches, NotForTheBot, redis, phone, ghosts
<1> QED BY <1>2, <1>3, <1>4, TypePartsNext DEF IInv

LEMMA BotInv ==
  ASSUME IInv, NEW h \in Hooks, BotAnswers(h) \/ BotEscalates(h) PROVE IInv'
<1>1. Goto(h, "idle") /\ Steady
  BY DEF BotAnswers, BotEscalates, redis, phone, ghosts, Steady
<1>2. (hook \in [Hooks -> Requests])' /\ CarryInv' /\ ClosedInv' /\ WithinWindow'
  BY <1>1, Gone DEF Places
<1>3. RestTyped'
  BY DEF IInv, TypeOK, RestTyped, BotAnswers, BotEscalates, redis, phone, ghosts
<1>4. Switches'
  BY Zenon DEF IInv, TypeOK, Switches, BotAnswers, BotEscalates, redis, phone, ghosts
<1> QED BY <1>2, <1>3, <1>4, TypePartsNext DEF IInv

-----------------------------------------------------------------------------
(* A failed status *)

LEMMA StatusInv ==
  ASSUME IInv, NEW h \in Hooks, NEW f \in failing, Status(h, f) PROVE IInv'
<1> DEFINE k == [IdleHook EXCEPT !.kind = "status", !.at = "lookup",
                   !.msg = f.id[1], !.part = f.id[2], !.why = f.why]
<1>1. f.id \in Wamids \cup {Template} /\ f.why \in {"window", "other"}
  BY DEF IInv, TypeOK
<1>2. /\ f.id[1] \in 0 .. MaxMsgs /\ f.id[2] \in {1, 2}
      /\ <<f.id[1], f.id[2]>> \in Wamids \cup {Template}
  BY <1>1, BoundsAssumption DEF Wamids, Msgs, Template
<1>3. k \in Requests BY <1>1, <1>2, IdleFits DEF Requests
<1>4. k.kind = "status" /\ k.at = "lookup" /\ k.msg = f.id[1] /\ k.part = f.id[2]
  BY DEF IdleHook
<1>5. Carries(k)
  <2> HIDE DEF k
  <2> QED BY <1>2, <1>4 DEF Carries
<1>6. hook' = [hook EXCEPT ![h] = k] /\ Steady
  BY DEF Status, Starts, redis, phone, ghosts, Steady
<1>7. (hook \in [Hooks -> Requests])' /\ CarryInv' /\ ClosedInv' /\ WithinWindow'
  <2> HIDE DEF k
  <2> QED BY <1>3, <1>4, <1>5, <1>6, Moved
<1>8. RestTyped' BY DEF IInv, TypeOK, RestTyped, Status, redis, phone, ghosts
<1>9. Switches' BY Zenon DEF IInv, TypeOK, Switches, Status, redis, phone, ghosts
<1> QED BY <1>7, <1>8, <1>9, TypePartsNext DEF IInv

LEMMA LookupInv == ASSUME IInv, NEW h \in Hooks, Lookup(h) PROVE IInv'
<1> DEFINE place == IF Wamid(h) \in out THEN "forget" ELSE "idle"
<1>1. Goto(h, place) /\ Steady /\ hook[h].at = "lookup"
  BY DEF Lookup, At, redis, phone, ghosts, Steady
<1>2. place \in {"forget", "idle"} OBVIOUS
<1>3. (hook \in [Hooks -> Requests])' /\ CarryInv' /\ ClosedInv' /\ WithinWindow'
  <2> HIDE DEF place
  <2> QED BY <1>1, <1>2, Gone DEF Places
<1>4. RestTyped' BY DEF IInv, TypeOK, RestTyped, Lookup, redis, phone, ghosts
<1>5. Switches' BY Zenon DEF IInv, TypeOK, Switches, Lookup, redis, phone, ghosts
<1> QED BY <1>3, <1>4, <1>5, TypePartsNext DEF IInv

LEMMA ForgetInv == ASSUME IInv, NEW h \in Hooks, Forget(h) PROVE IInv'
<1>1. Steady /\ hook[h].at = "forget" /\ hook[h].kind = "status"
  BY DEF Forget, At, phone, Steady
<1>2. Wamid(h) \in Wamids \cup {Template} BY <1>1, RequestTyped DEF Carries, Wamid
<1>3. Wamid(h) # Template => hook[h].msg \in Msgs
  BY <1>2, WamidPair DEF Wamid
<1>4. \/ Wamid(h) = Template /\ Goto(h, "unflag") /\ UNCHANGED noted
      \/ Wamid(h) # Template /\ Goto(h, "queue") /\ UNCHANGED noted
      \/ /\ Wamid(h) # Template /\ Goto(h, "idle")
         /\ noted' = noted \cup {hook[h].msg}
  BY DEF Forget, WhatFailed
<1>5. (hook \in [Hooks -> Requests])' /\ CarryInv' /\ ClosedInv' /\ WithinWindow'
  BY <1>1, <1>3, <1>4, Gone DEF Places
<1>6. RestTyped'
  <2>1. noted' \subseteq Msgs BY <1>3, <1>4 DEF IInv, TypeOK
  <2> QED BY <2>1 DEF IInv, TypeOK, RestTyped, Forget, Forgotten, phone
<1>7. Switches' BY Zenon DEF IInv, TypeOK, Switches, Forget, phone
<1> QED BY <1>5, <1>6, <1>7, TypePartsNext DEF IInv

LEMMA UnflagRejectedInv == ASSUME IInv, NEW h \in Hooks, UnflagRejected(h) PROVE IInv'
<1>1. Goto(h, "idle") /\ Steady BY DEF UnflagRejected, phone, ghosts, Steady
<1>2. (hook \in [Hooks -> Requests])' /\ CarryInv' /\ ClosedInv' /\ WithinWindow'
  BY <1>1, Gone DEF Places
<1>3. RestTyped' BY DEF IInv, TypeOK, RestTyped, UnflagRejected, phone, ghosts
<1>4. Switches' BY Zenon DEF IInv, TypeOK, Switches, UnflagRejected, phone, ghosts
<1> QED BY <1>2, <1>3, <1>4, TypePartsNext DEF IInv

-----------------------------------------------------------------------------
(* The agent resolves; time; the end of a process *)

\* What touches neither the requests nor what Steady names.
LEMMA Untouched ==
  ASSUME IInv, Steady, UNCHANGED hook
  PROVE  (hook \in [Hooks -> Requests])' /\ CarryInv' /\ ClosedInv' /\ WithinWindow'
BY DEF IInv, TypeOK, CarryInv, Carries, ClosedInv, At, WithinWindow, Steady

LEMMA ResolveInv == ASSUME IInv, Resolve PROVE IInv'
<1>1. UNCHANGED hook /\ Steady BY DEF Resolve, phone, Steady
<1>2. RestTyped' BY DEF IInv, TypeOK, RestTyped, Resolve, phone
<1>3. Switches' BY Zenon DEF IInv, TypeOK, Switches, Resolve, phone
<1> QED BY <1>1, <1>2, <1>3, Untouched, TypePartsNext DEF IInv

\* The step that closes the window records whether anything was late.
LEMMA TimePassesInv == ASSUME IInv, TimePasses PROVE IInv'
<1>1. UNCHANGED <<hook, record, mail, failing>> BY DEF TimePasses, redis
<1>2. late' = (late \/ (quiet = 1 /\ (record = 0 \/ \E h \in Hooks : At(h, "agent", "send"))))
  BY DEF TimePasses, Outlasts
<1>3. late \in BOOLEAN BY Zenon DEF IInv, TypeOK
<1>4. (hook \in [Hooks -> Requests])' /\ CarryInv'
  BY <1>1 DEF IInv, TypeOK, CarryInv, Carries
<1>5. ClosedInv'
  <2> SUFFICES ASSUME quiet' = 2
               PROVE /\ mail = 0 /\ \A h \in Hooks : hook[h].kind # "client"
                     /\ record = 0 \/ (\E h \in Hooks : At(h, "agent", "send")) => late'
    BY <1>1 DEF ClosedInv, At
  <2>1. quiet = 1 BY DEF TimePasses, IInv, TypeOK
  <2> QED BY <1>2, <2>1 DEF TimePasses
<1>6. WithinWindow' BY <1>1, <1>2 DEF IInv, WithinWindow
<1>7. RestTyped' BY DEF IInv, TypeOK, RestTyped, TimePasses, redis
<1>8. Switches'
  <2>1. late' \in BOOLEAN BY <1>2
  <2>2. UNCHANGED <<flag, invited, takeover, gone>> BY DEF TimePasses, redis
  <2> QED BY <2>1, <2>2, Zenon DEF IInv, TypeOK, Switches
<1> QED BY <1>4, <1>5, <1>6, <1>7, <1>8, TypePartsNext DEF IInv

LEMMA RecordAgesInv == ASSUME IInv, RecordAges PROVE IInv'
<1>1. UNCHANGED <<hook, quiet, mail, late, failing>> BY DEF RecordAges, phone, ghosts
<1>2. record' # 0 BY DEF RecordAges, IInv, TypeOK
<1>3. (hook \in [Hooks -> Requests])' /\ CarryInv' /\ ClosedInv' /\ WithinWindow'
  BY <1>1, <1>2 DEF IInv, TypeOK, CarryInv, Carries, ClosedInv, At, WithinWindow
<1>4. RestTyped' BY DEF IInv, TypeOK, RestTyped, RecordAges, phone, ghosts
<1>5. Switches' BY Zenon DEF IInv, TypeOK, Switches, RecordAges, phone, ghosts
<1> QED BY <1>3, <1>4, <1>5, TypePartsNext DEF IInv

LEMMA ExpiryInv ==
  ASSUME IInv, GracePasses \/ TakeoverExpires \/ FlagExpires \/ PendingExpires
  PROVE  IInv'
<1>1. UNCHANGED hook /\ Steady
  BY DEF phone, ghosts, Steady, GracePasses, TakeoverExpires, FlagExpires, PendingExpires
<1>2. RestTyped'
  <2>1. <<>> \in Seq(Msgs) OBVIOUS
  <2>2. mute \in {"none", "escalated", "expired", "human"} BY DEF IInv, TypeOK
  <2>3. mute' \in {"none", "escalated", "expired", "human"} BY <2>2 DEF AfterGrace,
          GracePasses, TakeoverExpires, FlagExpires, PendingExpires
  <2>4. UNCHANGED <<written, out, record, phone, noted, lost, resolved>>
    BY DEF ghosts, GracePasses, TakeoverExpires, FlagExpires, PendingExpires
  <2>5. (pending' = pending \/ pending' = <<>>) /\ (faults' = faults \/ faults' = faults + 1)
    BY DEF Fault, GracePasses, TakeoverExpires, FlagExpires, PendingExpires
  <2>6. pending' \in Seq(Msgs) BY <2>1, <2>5 DEF IInv, TypeOK
  <2>7. faults' \in Nat BY <2>5 DEF IInv, TypeOK
  <2> QED BY <2>6, <2>7, <2>3, <2>4 DEF IInv, TypeOK, RestTyped, phone
<1>3. Switches'
  BY Zenon DEF IInv, TypeOK, Switches, phone, ghosts,
     GracePasses, TakeoverExpires, FlagExpires, PendingExpires
<1> QED BY <1>1, <1>2, <1>3, Untouched, TypePartsNext DEF IInv

LEMMA DiesInv == ASSUME IInv, NEW h \in Hooks, Dies(h) PROVE IInv'
<1>1. Goto(h, "idle") /\ Steady BY DEF Dies, redis, phone, Steady
<1>2. (hook \in [Hooks -> Requests])' /\ CarryInv' /\ ClosedInv' /\ WithinWindow'
  BY <1>1, Gone DEF Places
<1>3. RestTyped' BY DEF IInv, TypeOK, RestTyped, Dies, redis, phone, Fault
<1>4. Switches' BY Zenon DEF IInv, TypeOK, Switches, Dies, redis, phone
<1> QED BY <1>2, <1>3, <1>4, TypePartsNext DEF IInv

-----------------------------------------------------------------------------
(* Every step *)

LEMMA HookStepInv == ASSUME IInv, NEW h \in Hooks, HookStep(h) PROVE IInv'
BY CheckInv, SendInv, RememberInv, QueueInv, TakeFlagInv, SendTemplateInv, ReadListInv,
   DeleteListInv, DeliverInv, UnflagInv, SetHumanInv, IsMutedInv, ClearExpiredInv,
   TakeTapInv, NotForTheBotInv, BotInv, LookupInv, ForgetInv, UnflagRejectedInv
   DEF HookStep

LEMMA HookFailsInv == ASSUME IInv, NEW h \in Hooks, HookFails(h) PROVE IInv'
BY RelayFailsInv, TemplateFailsInv, DeliverFailsInv, DiesInv DEF HookFails

LEMMA NextInv == IInv /\ [Next]_vars => IInv'
<1> SUFFICES ASSUME IInv, [Next]_vars PROVE IInv' OBVIOUS
<1>1. CASE \E h \in Hooks : Relay(h) \/ Inbound(h) \/ HookStep(h) \/ HookFails(h)
  BY <1>1, RelayInv, InboundInv, HookStepInv, HookFailsInv
<1>2. CASE \E h \in Hooks : \E f \in failing : Status(h, f) BY <1>2, StatusInv
<1>3. CASE ClientWrites \/ TemplateRejected \/ Resolve
  BY <1>3, ClientWritesInv, TemplateRejectedInv, ResolveInv
<1>4. CASE Time BY <1>4, TimePassesInv, RecordAgesInv, ExpiryInv DEF Time
<1>5. CASE UNCHANGED vars
  <2>1. UNCHANGED hook /\ Steady BY <1>5 DEF vars, redis, phone, ghosts, Steady
  <2>2. RestTyped' BY <1>5 DEF IInv, TypeOK, RestTyped, vars, redis, phone, ghosts
  <2>3. Switches' BY <1>5, Zenon DEF IInv, TypeOK, Switches, vars, redis, phone, ghosts
  <2> QED BY <2>1, <2>2, <2>3, Untouched, TypePartsNext DEF IInv
<1> QED BY <1>1, <1>2, <1>3, <1>4, <1>5 DEF Next

\* The inductive invariant: types, what each request carries, and what holds from
\* the moment the window closes.
THEOREM Invariance == Spec => []IInv
BY InitInv, NextInv, PTL DEF Spec

\* The requests and the Redis keys keep their types in every interleaving of the
\* three webhooks.
THEOREM TypeCorrect == Spec => []TypeOK
<1>1. IInv => TypeOK BY DEF IInv
<1> QED BY Invariance, <1>1, PTL

\* window.py:34: the 30 minutes of margin are enough. However many requests run
\* at once, Meta rejects no message for its window unless a delivery or a call
\* took longer than the margin.
THEOREM MarginIsEnough == Spec => []WithinWindow
<1>1. IInv => WithinWindow BY DEF IInv
<1> QED BY Invariance, <1>1, PTL

-----------------------------------------------------------------------------
(* One request at a time *)

\* One webhook request at a time.
OneRequest == \A g, h \in Hooks : g = h

-----------------------------------------------------------------------------
(* Where a request is after a step *)

\* A request that goes on keeps what it carries; one that ends carries nothing.
Same(k, l) == /\ l.kind = k.kind /\ l.msg = k.msg /\ l.part = k.part
              /\ l.batch = k.batch /\ l.sent = k.sent /\ l.why = k.why

LEMMA GoesTo ==
  ASSUME IInv, NEW h \in Hooks, NEW place, Goto(h, place)
  PROVE  /\ hook'[h].at = place
         /\ place = "idle" => hook'[h] = IdleHook
         /\ place # "idle" => Same(hook[h], hook'[h])
<1>1. hook \in [Hooks -> Requests] BY DEF IInv, TypeOK
<1>2. CASE place = "idle" BY <1>1, <1>2 DEF Goto, IdleHook
<1>3. CASE place # "idle"
  <2>1. hook[h] \in Requests BY <1>1
  <2>2. hook'[h] = [hook[h] EXCEPT !.at = place] BY <1>1, <1>3 DEF Goto
  <2> QED BY <1>3, <2>1, <2>2 DEF Requests, Same
<1> QED BY <1>2, <1>3

LEMMA StartsAs ==
  ASSUME IInv, NEW h \in Hooks, NEW k, Starts(h, k) PROVE hook'[h] = k
BY DEF Starts, IInv, TypeOK

\* Where a request starts.
LEMMA RequestStarts ==
  ASSUME IInv, NEW h \in Hooks, Relay(h) \/ Inbound(h) \/ \E f \in failing : Status(h, f)
  PROVE  hook'[h].at \in {"check", "range", "lookup"} /\ hook'[h].sent = FALSE
<1>1. CASE Relay(h)
  <2>1. hook'[h] = [IdleHook EXCEPT !.kind = "agent", !.at = "check", !.msg = written + 1]
    BY <1>1, StartsAs DEF Relay
  <2> QED BY <2>1 DEF IdleHook
<1>2. CASE Inbound(h)
  <2>1. hook'[h] = [IdleHook EXCEPT !.kind = "client", !.at = "range"]
    BY <1>2, StartsAs DEF Inbound
  <2> QED BY <2>1 DEF IdleHook
<1>3. ASSUME NEW f \in failing, Status(h, f)
      PROVE  hook'[h].at = "lookup" /\ hook'[h].sent = FALSE
  <2>1. hook'[h] = [IdleHook EXCEPT !.kind = "status", !.at = "lookup",
                      !.msg = f.id[1], !.part = f.id[2], !.why = f.why]
    BY <1>3, StartsAs DEF Status
  <2> QED BY <2>1 DEF IdleHook
<1> QED BY <1>1, <1>2, <1>3

-----------------------------------------------------------------------------
(* Nobody answers twice (one request at a time) *)

\* The request that has a human's answer in the client's hands finds the mute of
\* that human, unless the agent resolved in between.
SilentInv ==
  \A h \in Hooks : hook[h].sent =>
    /\ hook[h].at \notin {"range", "delete", "clear"}
    /\ hook[h].at = "muted" => mute = "human" \/ (mute = "none" /\ h \in resolved)

\* A step of the request that ends it, or takes it on before it delivered.
LEMMA Quietly ==
  ASSUME OneRequest, NEW h \in Hooks,
         hook'[h].sent = FALSE \/ hook'[h].at \notin {"range", "delete", "clear", "muted"}
  PROVE  SilentInv'
BY DEF OneRequest, SilentInv

LEMMA SilentHook ==
  ASSUME OneRequest, IInv, SilentInv, NEW h \in Hooks, HookStep(h) \/ HookFails(h)
  PROVE  /\ SilentInv'
         /\ hook[h].sent /\ hook[h].at # "bot" /\ hook'[h].at = "bot" => h \in resolved
<1>1. /\ hook[h] \in Requests /\ IdleHook.sent = FALSE
      /\ hook[h].sent \in BOOLEAN
  BY RequestTyped DEF IdleHook, Requests
<1>2. ASSUME NEW place, Goto(h, place),
             place \notin {"muted", "clear", "bot", "range", "delete"}
      PROVE  SilentInv' /\ hook'[h].at # "bot"
  BY <1>2, <1>1, GoesTo, Quietly
<1>3. CASE Check(h) \/ Remember(h) \/ Queue(h) \/ TakeFlag(h) \/ SendTemplate(h)
             \/ DeleteList(h) \/ TakeTap(h) \/ NotForTheBot(h) \/ BotAnswers(h)
             \/ BotEscalates(h) \/ Lookup(h) \/ Forget(h) \/ UnflagRejected(h)
             \/ RelayFails(h) \/ TemplateFails(h) \/ Dies(h)
  <2>1. \E place \in {"send", "queue", "human", "flag", "idle", "template", "deliver",
                      "tapped", "forget", "unflag"} : Goto(h, place)
    BY <1>3 DEF Check, Remember, Queue, TakeFlag, SendTemplate, DeleteList, TakeTap,
         NotForTheBot, BotAnswers, BotEscalates, Lookup, Forget, WhatFailed,
         UnflagRejected, RelayFails, TemplateFails, Dies, AfterReengage
  <2> QED BY <1>2, <2>1
<1>4. CASE Send(h)
  <2>1. CASE NextPart(h)
    <3>1. hook'[h] = [hook[h] EXCEPT !.part = @ + 1]
      BY <2>1 DEF NextPart, IInv, TypeOK
    <3>2. hook[h].at = "send" BY <1>4 DEF Send, At
    <3>3. hook'[h].at = "send" BY <1>1, <3>1, <3>2 DEF Requests
    <3> QED BY <3>3, Quietly
  <2>2. CASE Goto(h, "remember") BY <1>2, <2>2
  <2> QED BY <1>4, <2>1, <2>2 DEF Send
<1>5. CASE ReadList(h)
  <2>1. hook[h].at = "range" BY <1>5 DEF ReadList, At
  <2>2. ~hook[h].sent BY <2>1 DEF SilentInv
  <2>3. hook'[h] = [hook[h] EXCEPT !.batch = pending,
                      !.at = IF pending = <<>> THEN "muted" ELSE "delete"]
    BY <1>5 DEF ReadList, IInv, TypeOK
  <2>4. hook'[h].sent = hook[h].sent /\ hook'[h].at # "bot" BY <1>1, <2>3 DEF Requests
  <2> QED BY <1>1, <2>2, <2>4, Quietly
<1>6. CASE Deliver(h) \/ DeliverFails(h)
  <2>1. hook[h].at = "deliver" BY <1>6 DEF Deliver, DeliverFails, At
  <2>2. \/ NextPart(h)
        \/ hook' = [hook EXCEPT ![h] = [@ EXCEPT !.part = 1, !.sent = TRUE,
                !.batch = Tail(hook[h].batch),
                !.at = IF Len(hook[h].batch) = 1 THEN "unflag" ELSE "deliver"]]
        \/ hook' = [hook EXCEPT ![h] = [@ EXCEPT !.batch = <<>>, !.part = 1, !.at = "unflag"]]
    BY <1>6 DEF Deliver, DeliverFails
  <2>3. hook'[h].at \in {"deliver", "unflag"}
    <3>1. hook \in [Hooks -> Requests] BY DEF IInv, TypeOK
    <3>2. CASE NextPart(h)
      <4>1. hook'[h] = [hook[h] EXCEPT !.part = @ + 1] BY <3>1, <3>2 DEF NextPart
      <4> QED BY <1>1, <2>1, <4>1 DEF Requests
    <3>3. CASE ~NextPart(h) BY <1>1, <2>2, <3>1, <3>3 DEF Requests
    <3> QED BY <3>2, <3>3
  <2> QED BY <2>3, Quietly
<1>7. CASE Unflag(h)
  <2>1. CASE hook[h].sent
    <3>1. Goto(h, "human") BY <1>7, <2>1 DEF Unflag, AfterFlush
    <3> QED BY <1>2, <3>1
  <2>2. CASE ~hook[h].sent
    <3>1. Goto(h, "muted") BY <1>7, <2>2 DEF Unflag, AfterFlush
    <3>2. hook'[h].sent = hook[h].sent /\ hook'[h].at = "muted" BY <3>1, GoesTo DEF Same
    <3> QED BY <1>1, <2>2, <3>2, Quietly
  <2> QED BY <2>1, <2>2
<1>8. CASE SetHuman(h)
  <2>1. mute' = "human" BY <1>8 DEF SetHuman
  <2>2. \E place \in {"muted", "idle"} : Goto(h, place) BY <1>8 DEF SetHuman
  <2>3. hook'[h].at \in {"muted", "idle"} BY <2>2, GoesTo
  <2> QED BY <2>1, <2>3 DEF OneRequest, SilentInv
<1>9. CASE IsMuted(h)
  <2>1. hook[h].at = "muted" BY <1>9 DEF IsMuted, At
  <2>2. \/ mute = "none" /\ Goto(h, "bot")
        \/ mute = "expired" /\ Goto(h, "clear")
        \/ mute \in {"escalated", "human"} /\ Goto(h, "idle")
    BY <1>9 DEF IsMuted
  <2>3. CASE mute = "none" /\ Goto(h, "bot")
    <3>1. hook'[h].at = "bot" BY <2>3, GoesTo
    <3>2. hook[h].sent => h \in resolved BY <2>1, <2>3 DEF SilentInv
    <3> QED BY <3>1, <3>2, Quietly
  <2>4. CASE mute = "expired" /\ Goto(h, "clear")
    <3>1. ~hook[h].sent BY <2>1, <2>4 DEF SilentInv
    <3>2. hook'[h].at = "clear" /\ hook'[h].sent = hook[h].sent BY <2>4, GoesTo DEF Same
    <3> QED BY <1>1, <3>1, <3>2, Quietly
  <2>5. CASE Goto(h, "idle") BY <1>2, <2>5
  <2> QED BY <2>2, <2>3, <2>4, <2>5
<1>10. CASE ClearExpired(h)
  <2>1. hook[h].at = "clear" /\ Goto(h, "bot") BY <1>10 DEF ClearExpired, At
  <2>2. ~hook[h].sent BY <2>1 DEF SilentInv
  <2>3. hook'[h].at = "bot" BY <2>1, GoesTo
  <2> QED BY <2>2, <2>3, Quietly
<1> QED BY <1>3, <1>4, <1>5, <1>6, <1>7, <1>8, <1>9, <1>10 DEF HookStep, HookFails

\* Silence while the requests are at rest.
LEMMA SilentElse ==
  ASSUME IInv, SilentInv, ClientWrites \/ TemplateRejected \/ Resolve \/ Time \/ UNCHANGED vars
  PROVE  SilentInv' /\ hook' = hook
<1>1. hook' = hook
  BY DEF ClientWrites, TemplateRejected, Resolve, Time, TimePasses, RecordAges,
         GracePasses, TakeoverExpires, FlagExpires, PendingExpires, vars
<1>2. CASE Resolve
  BY <1>1, <1>2 DEF Resolve, SilentInv
<1>3. CASE AllIdle BY <1>1, <1>3 DEF AllIdle, SilentInv
<1>4. CASE UNCHANGED <<mute, resolved>> BY <1>1, <1>4 DEF SilentInv
<1>5. Resolve \/ AllIdle \/ UNCHANGED <<mute, resolved>>
  BY DEF ClientWrites, TemplateRejected, Time, TimePasses, RecordAges,
         GracePasses, TakeoverExpires, FlagExpires, PendingExpires, vars, redis, ghosts
<1> QED BY <1>1, <1>2, <1>3, <1>4, <1>5

LEMMA SilentStart ==
  ASSUME OneRequest, IInv, NEW h \in Hooks,
         Relay(h) \/ Inbound(h) \/ \E f \in failing : Status(h, f)
  PROVE  SilentInv' /\ hook'[h].at # "bot"
<1>1. hook'[h].at \in {"check", "range", "lookup"} /\ hook'[h].sent = FALSE
  BY RequestStarts
<1> QED BY <1>1, Quietly

LEMMA SilentNext ==
  ASSUME OneRequest, IInv, SilentInv, [Next]_vars
  PROVE  SilentInv' /\ \A h \in Hooks : hook[h].sent /\ BotTakes(h) => h \in resolved
<1>1. ASSUME NEW h \in Hooks, HookStep(h) \/ HookFails(h)
      PROVE  SilentInv' /\ \A g \in Hooks : hook[g].sent /\ BotTakes(g) => g \in resolved
  BY <1>1, SilentHook DEF OneRequest, BotTakes
<1>2. ASSUME NEW h \in Hooks, Relay(h) \/ Inbound(h) \/ \E f \in failing : Status(h, f)
      PROVE  SilentInv' /\ \A g \in Hooks : ~BotTakes(g)
  BY <1>2, SilentStart DEF OneRequest, BotTakes
<1>3. ASSUME ClientWrites \/ TemplateRejected \/ Resolve \/ Time \/ UNCHANGED vars
      PROVE  SilentInv' /\ \A g \in Hooks : ~BotTakes(g)
  BY <1>3, SilentElse DEF BotTakes
<1> QED BY <1>1, <1>2, <1>3 DEF Next

\* window.py:241: with one request at a time the message that had a human's answer
\* delivered gets no answer of the bot, unless the agent resolved in between.
THEOREM DeliveryMutes == ASSUME OneRequest PROVE Spec => SilentAfterDelivery
<1>1. Init => SilentInv BY DEF Init, SilentInv, IdleHook
<1>2. IInv /\ SilentInv /\ [Next]_vars => SilentInv' BY SilentNext
<1>3. IInv /\ SilentInv /\ [Next]_vars =>
        [\A h \in Hooks : hook[h].sent /\ BotTakes(h) => h \in resolved]_vars
  BY SilentNext
<1> QED BY Invariance, <1>1, <1>2, <1>3, PTL DEF Spec, SilentAfterDelivery

-----------------------------------------------------------------------------
(* A human keeps the conversation, whatever requests interleave *)

\* While a human has the conversation no request is about to let the bot answer:
\* to get there, it would have to find the mute of a human gone.
TakeoverInv ==
  takeover => mute = "human" /\ \A h \in Hooks : ~GoesToBot(hook[h].at)

\* A request that moves, but not on its way to the bot.
LEMMA KeptFromBot ==
  ASSUME IInv, TakeoverInv, UNCHANGED <<takeover, mute>>, NEW h \in Hooks,
         NEW k, hook' = [hook EXCEPT ![h] = k], ~GoesToBot(k.at)
  PROVE  TakeoverInv' /\ \A g \in Hooks : hook[g].at # "bot" => hook'[g].at # "bot"
<1>1. hook \in [Hooks -> Requests] BY DEF IInv, TypeOK
<1>2. \A g \in Hooks : hook'[g] = IF g = h THEN k ELSE hook[g] BY <1>1
<1>3. \A g \in Hooks : ~GoesToBot(hook[g].at) => ~GoesToBot(hook'[g].at) BY <1>2
<1>4. \A g \in Hooks : hook[g].at # "bot" => hook'[g].at # "bot" BY <1>2 DEF GoesToBot
<1> QED BY <1>3, <1>4 DEF TakeoverInv, GoesToBot

\* Where a request goes, and that the others stay.
LEMMA GoesAlone ==
  ASSUME IInv, NEW h \in Hooks, NEW place, Goto(h, place)
  PROVE  /\ hook'[h].at = place
         /\ \A g \in Hooks : g # h => hook'[g] = hook[g]
<1>1. hook \in [Hooks -> Requests] BY DEF IInv, TypeOK
<1>2. hook[h] \in Requests BY <1>1
<1>3. \A g \in Hooks : g # h => hook'[g] = hook[g] BY <1>1 DEF Goto
<1>4. CASE place = "idle" BY <1>1, <1>3, <1>4 DEF Goto, IdleHook
<1>5. CASE place # "idle"
  <2>1. hook'[h] = [hook[h] EXCEPT !.at = place] BY <1>1, <1>5 DEF Goto
  <2> QED BY <1>2, <1>3, <2>1 DEF Requests
<1> QED BY <1>4, <1>5

LEMMA TakeoverMoves ==
  ASSUME IInv, TakeoverInv, NEW h \in Hooks,
         \/ Check(h) \/ Remember(h) \/ Queue(h) \/ TakeFlag(h) \/ SendTemplate(h)
         \/ DeleteList(h) \/ NotForTheBot(h) \/ BotAnswers(h) \/ Lookup(h) \/ Forget(h)
         \/ UnflagRejected(h) \/ Unflag(h) \/ RelayFails(h) \/ TemplateFails(h) \/ Dies(h)
  PROVE  TakeoverInv' /\ \A g \in Hooks : BotTakes(g) => ~takeover
<1>1. PICK place \in {"send", "queue", "human", "flag", "idle", "template", "deliver",
                      "forget", "unflag", "muted", "remember"} : Goto(h, place)
  BY DEF Check, Remember, Queue, TakeFlag, SendTemplate, DeleteList,
       NotForTheBot, BotAnswers, Lookup, Forget, WhatFailed, Unflag, AfterFlush,
       UnflagRejected, RelayFails, TemplateFails, Dies, AfterReengage
<1>2. UNCHANGED <<takeover, mute>>
  BY DEF Check, Remember, Queue, TakeFlag, SendTemplate, DeleteList,
       NotForTheBot, BotAnswers, Lookup, Forget, Unflag,
       UnflagRejected, RelayFails, TemplateFails, Dies, redis, ghosts
<1>3. hook'[h].at = place /\ \A g \in Hooks : g # h => hook'[g] = hook[g]
  BY <1>1, GoesAlone
<1>4. \A g \in Hooks : ~GoesToBot(hook[g].at) => ~GoesToBot(hook'[g].at)
  BY <1>3 DEF GoesToBot
<1>5. \A g \in Hooks : ~BotTakes(g) BY <1>3 DEF BotTakes
<1> QED BY <1>2, <1>4, <1>5 DEF TakeoverInv, GoesToBot

LEMMA TakeoverCalls ==
  ASSUME IInv, TakeoverInv, NEW h \in Hooks,
         Send(h) \/ ReadList(h) \/ Deliver(h) \/ DeliverFails(h)
  PROVE  TakeoverInv' /\ \A g \in Hooks : BotTakes(g) => ~takeover
<1>1. UNCHANGED <<takeover, mute>>
  BY DEF Send, ReadList, Deliver, DeliverFails, redis, ghosts
<1>2. hook[h].at \in {"send", "range", "deliver"}
  BY DEF Send, ReadList, Deliver, DeliverFails, At
<1>3. hook \in [Hooks -> Requests] /\ hook[h] \in Requests BY DEF IInv, TypeOK
<1>4. /\ \A g \in Hooks : g # h => hook'[g] = hook[g]
      /\ ~GoesToBot(hook'[h].at)
  <2>1. CASE NextPart(h)
    <3>1. hook'[h] = [hook[h] EXCEPT !.part = @ + 1] BY <1>3, <2>1 DEF NextPart
    <3>2. hook'[h].at = hook[h].at BY <1>3, <3>1 DEF Requests
    <3>3. \A g \in Hooks : g # h => hook'[g] = hook[g] BY <1>3, <2>1 DEF NextPart
    <3> QED BY <1>2, <3>2, <3>3 DEF GoesToBot
  <2>2. CASE Goto(h, "remember") BY <2>2, GoesAlone DEF GoesToBot
  <2>3. CASE ReadList(h)
    <3>1. hook' = [hook EXCEPT ![h] = [hook[h] EXCEPT !.batch = pending,
                        !.at = IF pending = <<>> THEN "muted" ELSE "delete"]]
      BY <1>3, <2>3 DEF ReadList
    <3>2. hook'[h].at \in {"muted", "delete"} BY <1>3, <3>1 DEF Requests
    <3> QED BY <1>3, <3>1, <3>2 DEF GoesToBot
  <2>4. CASE Deliver(h) /\ ~NextPart(h)
    <3>1. hook' = [hook EXCEPT ![h] = [hook[h] EXCEPT !.part = 1, !.sent = TRUE,
              !.batch = Tail(hook[h].batch),
              !.at = IF Len(hook[h].batch) = 1 THEN "unflag" ELSE "deliver"]]
      BY <1>3, <2>4 DEF Deliver
    <3>2. hook'[h].at \in {"unflag", "deliver"} BY <1>3, <3>1 DEF Requests
    <3> QED BY <1>3, <3>1, <3>2 DEF GoesToBot
  <2>5. CASE DeliverFails(h)
    <3>1. hook' = [hook EXCEPT ![h] = [hook[h] EXCEPT !.batch = <<>>, !.part = 1,
                                         !.at = "unflag"]]
      BY <1>3, <2>5 DEF DeliverFails
    <3>2. hook'[h].at = "unflag" BY <1>3, <3>1 DEF Requests
    <3> QED BY <1>3, <3>1, <3>2 DEF GoesToBot
  <2> QED BY <2>1, <2>2, <2>3, <2>4, <2>5 DEF Send
<1>5. \A g \in Hooks : ~BotTakes(g) BY <1>4 DEF BotTakes, GoesToBot
<1>6. \A g \in Hooks : ~GoesToBot(hook[g].at) => ~GoesToBot(hook'[g].at) BY <1>4
<1> QED BY <1>1, <1>5, <1>6 DEF TakeoverInv, GoesToBot

\* The steps that look at the mute or change it.
LEMMA TakeoverMutes ==
  ASSUME IInv, TakeoverInv, NEW h \in Hooks,
         SetHuman(h) \/ IsMuted(h) \/ ClearExpired(h) \/ TakeTap(h) \/ BotEscalates(h)
  PROVE  TakeoverInv' /\ \A g \in Hooks : BotTakes(g) => ~takeover
<1>1. CASE SetHuman(h)
  <2>1. PICK place \in {"muted", "idle"} : Goto(h, place) BY <1>1 DEF SetHuman
  <2>2. hook'[h].at = place /\ \A g \in Hooks : g # h => hook'[g] = hook[g]
    BY <2>1, GoesAlone
  <2>3. \A g \in Hooks : ~BotTakes(g) BY <2>2 DEF BotTakes
  <2>4. takeover' => \A g \in Hooks : ~GoesToBot(hook[g].at)
    BY <1>1 DEF SetHuman, TakeoverInv
  <2>5. \A g \in Hooks : ~GoesToBot(hook[g].at) => ~GoesToBot(hook'[g].at)
    BY <2>2 DEF GoesToBot
  <2>6. mute' = "human" BY <1>1 DEF SetHuman
  <2> QED BY <2>3, <2>4, <2>5, <2>6 DEF TakeoverInv, GoesToBot
<1>2. CASE IsMuted(h) /\ mute = "human"
  <2>1. Goto(h, "idle") /\ UNCHANGED <<takeover, mute>>
    BY <1>2 DEF IsMuted, redis, ghosts
  <2>2. hook'[h].at = "idle" /\ \A g \in Hooks : g # h => hook'[g] = hook[g]
    BY <2>1, GoesAlone
  <2>3. \A g \in Hooks : ~BotTakes(g) BY <2>2 DEF BotTakes
  <2>4. \A g \in Hooks : ~GoesToBot(hook[g].at) => ~GoesToBot(hook'[g].at)
    BY <2>2 DEF GoesToBot
  <2> QED BY <2>1, <2>3, <2>4 DEF TakeoverInv, GoesToBot
<1>3. CASE IsMuted(h) /\ mute # "human"
  <2>1. ~takeover /\ takeover' = takeover BY <1>3 DEF IsMuted, TakeoverInv, ghosts
  <2> QED BY <2>1 DEF TakeoverInv
<1>4. CASE ClearExpired(h) \/ BotEscalates(h)
  <2>1. GoesToBot(hook[h].at) /\ takeover' = takeover
    BY <1>4 DEF ClearExpired, BotEscalates, At, GoesToBot, ghosts
  <2>2. ~takeover BY <2>1 DEF TakeoverInv
  <2> QED BY <2>1, <2>2 DEF TakeoverInv
<1>5. CASE TakeTap(h)
  <2>1. Goto(h, "tapped") /\ takeover' = FALSE BY <1>5 DEF TakeTap
  <2>2. hook'[h].at = "tapped" /\ \A g \in Hooks : g # h => hook'[g] = hook[g]
    BY <2>1, GoesAlone
  <2>3. \A g \in Hooks : ~BotTakes(g) BY <2>2 DEF BotTakes
  <2> QED BY <2>1, <2>3 DEF TakeoverInv
<1> QED BY <1>1, <1>2, <1>3, <1>4, <1>5

LEMMA TakeoverElse ==
  ASSUME IInv, TakeoverInv,
         ClientWrites \/ TemplateRejected \/ Resolve \/ Time \/ UNCHANGED vars
  PROVE  TakeoverInv' /\ hook' = hook
<1>1. hook' = hook
  BY DEF ClientWrites, TemplateRejected, Resolve, Time, TimePasses, RecordAges,
         GracePasses, TakeoverExpires, FlagExpires, PendingExpires, vars
<1>2. CASE Resolve \/ TakeoverExpires
  BY <1>2 DEF Resolve, TakeoverExpires, TakeoverInv
<1>3. CASE GracePasses
  <2>1. takeover' = takeover /\ (mute = "human" => mute' = "human")
    BY <1>3 DEF GracePasses, AfterGrace, ghosts
  <2> QED BY <1>1, <2>1 DEF TakeoverInv, GoesToBot
<1>4. CASE UNCHANGED <<takeover, mute>> BY <1>1, <1>4 DEF TakeoverInv, GoesToBot
<1>5. Resolve \/ TakeoverExpires \/ GracePasses \/ UNCHANGED <<takeover, mute>>
  BY DEF ClientWrites, TemplateRejected, Time, TimePasses, RecordAges,
         FlagExpires, PendingExpires, vars, redis, ghosts
<1> QED BY <1>1, <1>2, <1>3, <1>4, <1>5

LEMMA TakeoverStart ==
  ASSUME IInv, TakeoverInv, NEW h \in Hooks,
         Relay(h) \/ Inbound(h) \/ \E f \in failing : Status(h, f)
  PROVE  TakeoverInv' /\ \A g \in Hooks : BotTakes(g) => ~takeover
<1>1. UNCHANGED <<takeover, mute>> BY DEF Relay, Inbound, Status, redis, ghosts
<1>2. \E k : Starts(h, k) /\ k.at \in {"check", "range", "lookup"}
  <2>1. CASE Relay(h)
    <3> DEFINE k == [IdleHook EXCEPT !.kind = "agent", !.at = "check", !.msg = written + 1]
    <3>1. Starts(h, k) BY <2>1 DEF Relay
    <3>2. k.at = "check" BY DEF IdleHook
    <3> HIDE DEF k
    <3> QED BY <3>1, <3>2
  <2>2. CASE Inbound(h)
    <3> DEFINE k == [IdleHook EXCEPT !.kind = "client", !.at = "range"]
    <3>1. Starts(h, k) BY <2>2 DEF Inbound
    <3>2. k.at = "range" BY DEF IdleHook
    <3> HIDE DEF k
    <3> QED BY <3>1, <3>2
  <2>3. ASSUME NEW f \in failing, Status(h, f)
        PROVE  \E k : Starts(h, k) /\ k.at \in {"check", "range", "lookup"}
    <3> DEFINE k == [IdleHook EXCEPT !.kind = "status", !.at = "lookup",
                       !.msg = f.id[1], !.part = f.id[2], !.why = f.why]
    <3>1. Starts(h, k) BY <2>3 DEF Status
    <3>2. k.at = "lookup" BY DEF IdleHook
    <3> HIDE DEF k
    <3> QED BY <3>1, <3>2
  <2> QED BY <2>1, <2>2, <2>3
<1>3. PICK k : Starts(h, k) /\ k.at \in {"check", "range", "lookup"} BY <1>2
<1>4. hook' = [hook EXCEPT ![h] = k] /\ ~GoesToBot(k.at) BY <1>3 DEF Starts, GoesToBot
<1>5. TakeoverInv' /\ \A g \in Hooks : hook[g].at # "bot" => hook'[g].at # "bot"
  BY <1>1, <1>4, KeptFromBot
<1> QED BY <1>5 DEF BotTakes

LEMMA TakeoverNext ==
  ASSUME IInv, TakeoverInv, [Next]_vars
  PROVE  TakeoverInv' /\ \A h \in Hooks : BotTakes(h) => ~takeover
<1>1. ASSUME NEW h \in Hooks, HookStep(h) \/ HookFails(h)
      PROVE  TakeoverInv' /\ \A g \in Hooks : BotTakes(g) => ~takeover
  BY <1>1, TakeoverMoves, TakeoverCalls, TakeoverMutes DEF HookStep, HookFails
<1>2. ASSUME NEW h \in Hooks, Relay(h) \/ Inbound(h) \/ \E f \in failing : Status(h, f)
      PROVE  TakeoverInv' /\ \A g \in Hooks : BotTakes(g) => ~takeover
  BY <1>2, TakeoverStart
<1>3. ASSUME ClientWrites \/ TemplateRejected \/ Resolve \/ Time \/ UNCHANGED vars
      PROVE  TakeoverInv' /\ \A g \in Hooks : ~BotTakes(g)
  BY <1>3, TakeoverElse DEF BotTakes
<1> QED BY <1>1, <1>2, <1>3 DEF Next

\* mute.py:11, 22: the bot takes no text of the client from a human's answer until
\* the conversation is resolved, 24 hours pass or the client taps a template's
\* button, with any number of requests under way; a message that was on its way
\* to the bot when the human answered is the other exception.
THEOREM HumanKeepsTheChat == Spec => HumanTakeoverHolds
<1>1. Init => TakeoverInv BY DEF Init, TakeoverInv
<1>2. IInv /\ TakeoverInv /\ [Next]_vars => TakeoverInv' BY TakeoverNext
<1>3. IInv /\ TakeoverInv /\ [Next]_vars =>
        [\A h \in Hooks : BotTakes(h) => ~takeover]_vars
  BY TakeoverNext
<1> QED BY Invariance, <1>1, <1>2, <1>3, PTL DEF Spec, HumanTakeoverHolds

-----------------------------------------------------------------------------
(* Lists *)

LEMMA ContainsAppend ==
  ASSUME NEW S, NEW list \in Seq(S), NEW x \in S, NEW y
  PROVE  Contains(Append(list, x), y) <=> Contains(list, y) \/ y = x
BY AppendProperties DEF Contains

LEMMA ContainsConcat ==
  ASSUME NEW S, NEW s \in Seq(S), NEW t \in Seq(S), NEW y
  PROVE  Contains(s, y) \/ Contains(t, y) => Contains(s \o t, y)
<1>1. /\ Len(s \o t) = Len(s) + Len(t) /\ Len(s) \in Nat /\ Len(t) \in Nat
      /\ \A i \in 1 .. Len(s) + Len(t) :
           (s \o t)[i] = IF i <= Len(s) THEN s[i] ELSE t[i - Len(s)]
  BY ConcatProperties, LenProperties
<1>2. CASE Contains(s, y) BY <1>1, <1>2 DEF Contains
<1>3. CASE Contains(t, y)
  <2>1. PICK i \in 1 .. Len(t) : t[i] = y BY <1>3 DEF Contains
  <2>2. (s \o t)[Len(s) + i] = y /\ Len(s) + i \in 1 .. Len(s \o t) BY <1>1, <2>1
  <2> QED BY <2>2 DEF Contains
<1> QED BY <1>2, <1>3

LEMMA ContainsHead ==
  ASSUME NEW S, NEW b \in Seq(S), b # <<>>, NEW y
  PROVE  Contains(b, y) <=> y = Head(b) \/ Contains(Tail(b), y)
<1>1. /\ Len(b) \in Nat /\ Len(b) # 0 /\ Len(Tail(b)) = Len(b) - 1 /\ Head(b) = b[1]
      /\ \A i \in 1 .. Len(Tail(b)) : Tail(b)[i] = b[i + 1]
  BY HeadTailProperties, EmptySeq, LenProperties
<1>2. CASE Contains(b, y)
  <2>1. PICK i \in 1 .. Len(b) : b[i] = y BY <1>2 DEF Contains
  <2>2. i = 1 \/ (i - 1 \in 1 .. Len(Tail(b)) /\ Tail(b)[i - 1] = y) BY <1>1, <2>1
  <2> QED BY <1>1, <1>2, <2>1, <2>2 DEF Contains
<1>3. CASE y = Head(b) BY <1>1, <1>3 DEF Contains
<1>4. CASE Contains(Tail(b), y)
  <2>1. PICK i \in 1 .. Len(Tail(b)) : Tail(b)[i] = y BY <1>4 DEF Contains
  <2>2. b[i + 1] = y /\ i + 1 \in 1 .. Len(b) BY <1>1, <2>1
  <2> QED BY <1>4, <2>2 DEF Contains
<1> QED BY <1>2, <1>3, <1>4

LEMMA ContainsNothing == \A y : ~Contains(<<>>, y)
BY DEF Contains

-----------------------------------------------------------------------------
(* Nothing vanishes (one request at a time) *)

\* What can no longer vanish.
Rejected(x) == \E f \in failing : f.id = x
Due(x)      == x \in out /\ Rejected(x)
Settled(x)  == \/ Arrived(x) \/ Contains(pending, x[1]) \/ x[1] \in noted
               \/ RejectedByFlush(x) \/ Due(x)
\* What request k has still to send, to remember or to put in the list.
Owes(k, x) ==
  \/ /\ k.kind = "agent" /\ k.at \in {"check", "send", "remember", "queue"}
     /\ x[1] = k.msg
  \/ k.kind = "client" /\ k.at = "deliver" /\ Contains(k.batch, x[1])
  \/ k.kind = "status" /\ k.at = "queue" /\ x = <<k.msg, k.part>>
\* How far a request has come.
Halfway(k) ==
  /\ k.kind = "agent" /\ k.at = "check" => k.part = 1
  /\ k.kind = "agent" /\ k.at \in {"send", "remember"} =>
       \A x \in Wamids : x[1] = k.msg /\ (k.at = "send" => x[2] < k.part) =>
         Arrived(x) \/ Rejected(x)
  /\ k.kind = "client" /\ k.at = "delete" => k.batch = pending
  /\ k.kind = "client" /\ k.at = "deliver" =>
       \A x \in Wamids : x[1] = Head(k.batch) /\ x[2] < k.part =>
         Arrived(x) \/ RejectedByFlush(x)
  /\ k.kind = "status" /\ k.at \in {"lookup", "forget"} => Due(<<k.msg, k.part>>)
DebtInv ==
  ~gone =>
    /\ \A x \in Wamids : x[1] <= written => Settled(x) \/ \E h \in Hooks : Owes(hook[h], x)
    /\ \A h \in Hooks : Halfway(hook[h])

\* Nothing is taken back.
Grows == /\ \A x : Arrived(x) => Arrived(x)'
         /\ failing \subseteq failing' /\ noted \subseteq noted'

LEMMA StaysSettled ==
  ASSUME Grows, out \subseteq out', \A m : Contains(pending, m) => Contains(pending, m)'
  PROVE  \A x : Settled(x) => Settled(x)'
BY DEF Grows, Settled, Due, Rejected, RejectedByFlush

\* A step of the only request.
LEMMA DebtStep ==
  ASSUME OneRequest, DebtInv, NEW h \in Hooks, gone' = gone,
         ~gone /\ Halfway(hook[h]) =>
           /\ (Halfway(hook[h]))'
           /\ \A x \in Wamids : x[1] <= written' =>
                \/ Settled(x)' \/ Owes(hook'[h], x)
                \/ x[1] <= written /\ ~Settled(x) /\ ~Owes(hook[h], x)
  PROVE  DebtInv'
BY DEF OneRequest, DebtInv

\* The same for a step that takes nothing from anywhere.
LEMMA DebtGrows ==
  ASSUME OneRequest, DebtInv, NEW h \in Hooks, gone' = gone, written' = written,
         Grows, out \subseteq out', \A m : Contains(pending, m) => Contains(pending, m)',
         ~gone /\ Halfway(hook[h]) =>
           /\ (Halfway(hook[h]))'
           /\ \A x \in Wamids : Owes(hook[h], x) => Settled(x)' \/ Owes(hook'[h], x)
  PROVE  DebtInv'
<1>1. \A x : Settled(x) => Settled(x)' BY StaysSettled
<1> QED BY <1>1, DebtStep

\* A call to Meta delivers the message or has a rejection reported.
LEMMA AcceptedSettles ==
  ASSUME IInv, NEW x \in Wamids, NEW sender, Accepted(x, sender)
  PROVE  /\ \A y : Arrived(y) => Arrived(y)'
         /\ failing \subseteq failing'
         /\ \/ Arrived(x)'
            \/ \E f \in failing' : f.id = x /\ f.sender = sender
<1>1. arrived \in Seq(Wamids) BY DEF IInv, TypeOK
<1>2. CASE arrived' = Append(arrived, x) /\ UNCHANGED <<failing, faults>>
  BY <1>1, <1>2, ContainsAppend DEF Arrived
<1>3. ASSUME NEW why, UNCHANGED arrived,
             failing' = failing \cup {[id |-> x, why |-> why, sender |-> sender]}
      PROVE  /\ \A y : Arrived(y) => Arrived(y)'
             /\ failing \subseteq failing'
             /\ \E f \in failing' : f.id = x /\ f.sender = sender
  <2> DEFINE f == [id |-> x, why |-> why, sender |-> sender]
  <2>1. f \in failing' /\ f.id = x /\ f.sender = sender BY <1>3
  <2> HIDE DEF f
  <2> QED BY <1>3, <2>1 DEF Arrived
<1> QED BY <1>2, <1>3 DEF Accepted

\* The places where a request owes nothing and has nothing half done.
Clear == {"idle", "flag", "template", "range", "unflag", "human", "muted", "clear",
          "bot", "tapped"}

LEMMA ClearOwes ==
  ASSUME NEW k, k.at \in Clear
  PROVE  (\A x : ~Owes(k, x)) /\ Halfway(k)
BY DEF Clear, Owes, Halfway

LEMMA ClearOwesNext ==
  ASSUME NEW h \in Hooks, hook'[h].at \in Clear
  PROVE  (Halfway(hook[h]))' /\ \A x : ~Owes(hook'[h], x)
BY DEF Clear, Owes, Halfway

LEMMA DebtClear ==
  ASSUME OneRequest, IInv, DebtInv, NEW h \in Hooks,
         \/ TakeFlag(h) \/ SendTemplate(h) \/ TemplateFails(h) \/ Unflag(h) \/ SetHuman(h)
         \/ IsMuted(h) \/ ClearExpired(h) \/ TakeTap(h) \/ NotForTheBot(h)
         \/ BotAnswers(h) \/ BotEscalates(h) \/ UnflagRejected(h)
  PROVE  DebtInv'
<1>1. /\ UNCHANGED <<pending, failing, arrived, noted, written, gone>>
      /\ out \subseteq out'
  BY DEF TakeFlag, SendTemplate, TemplateFails, Unflag, SetHuman, IsMuted, ClearExpired,
         TakeTap, NotForTheBot, BotAnswers, BotEscalates, UnflagRejected, redis, phone,
         ghosts
<1>2. hook[h].at \in Clear
  BY DEF TakeFlag, SendTemplate, TemplateFails, Unflag, SetHuman, IsMuted, ClearExpired,
         TakeTap, NotForTheBot, BotAnswers, BotEscalates, UnflagRejected, At, Clear
<1>3. \E place \in Clear : Goto(h, place)
  BY DEF TakeFlag, SendTemplate, TemplateFails, Unflag, SetHuman, IsMuted, ClearExpired,
         TakeTap, NotForTheBot, BotAnswers, BotEscalates, UnflagRejected, Clear,
         AfterReengage, AfterFlush
<1>4. hook'[h].at \in Clear BY <1>3, GoesTo
<1>5. Grows BY <1>1 DEF Grows, Arrived
<1>6. \A x : ~Owes(hook[h], x) BY <1>2, ClearOwes
<1> QED BY <1>1, <1>4, <1>5, <1>6, ClearOwesNext, DebtGrows

LEMMA DebtCheck ==
  ASSUME OneRequest, IInv, DebtInv, NEW h \in Hooks, Check(h) PROVE DebtInv'
<1>1. /\ UNCHANGED <<pending, out, failing, arrived, noted, written, gone>>
      /\ hook[h].kind = "agent" /\ hook[h].at = "check"
  BY DEF Check, At, redis, phone, ghosts
<1>2. PICK place \in {"send", "queue"} : Goto(h, place) BY DEF Check
<1>3. hook'[h].at = place /\ Same(hook[h], hook'[h]) BY <1>2, GoesTo
<1>4. Grows BY <1>1 DEF Grows, Arrived
<1>5. \A x : Owes(hook[h], x) => Owes(hook'[h], x) BY <1>1, <1>3 DEF Owes, Same
<1>6. Halfway(hook[h]) => (Halfway(hook[h]))'
  <2>1. \A x \in Wamids : ~(x[2] < 1) BY DEF Wamids
  <2> QED BY <1>1, <1>3, <2>1 DEF Halfway, Same
<1> QED BY <1>1, <1>4, <1>5, <1>6, DebtGrows

LEMMA DebtSend ==
  ASSUME OneRequest, IInv, DebtInv, NEW h \in Hooks, Send(h) PROVE DebtInv'
<1> DEFINE m == hook[h].msg
           p == hook[h].part
<1>1. /\ UNCHANGED <<pending, out, noted, written, gone>>
      /\ hook[h].kind = "agent" /\ hook[h].at = "send" /\ Accepted(<<m, p>>, "agent")
  BY DEF Send, At, redis, ghosts
<1>2. hook[h] \in Requests /\ m \in Msgs /\ p \in {1, 2} /\ <<m, p>> \in Wamids
  BY <1>1, RequestTyped DEF Carries
<1>3. /\ hook'[h].kind = "agent" /\ hook'[h].msg = m
      /\ \/ hook'[h].at = "send" /\ hook'[h].part = p + 1
         \/ hook'[h].at = "remember" /\ p >= Parts(m)
  <2>1. CASE p < Parts(m)
    <3>1. hook'[h] = [hook[h] EXCEPT !.part = @ + 1]
      BY <2>1 DEF Send, NextPart, IInv, TypeOK
    <3> QED BY <1>1, <1>2, <3>1 DEF Requests
  <2>2. CASE ~(p < Parts(m))
    <3>1. Goto(h, "remember") BY <2>2 DEF Send
    <3> QED BY <1>1, <1>2, <2>2, <3>1, GoesTo, PartsRange DEF Same
  <2> QED BY <2>1, <2>2
<1>4. Grows BY <1>1, <1>2, AcceptedSettles DEF Grows
<1>5. \A x : Owes(hook[h], x) => Owes(hook'[h], x) BY <1>1, <1>3 DEF Owes
<1>6. Halfway(hook[h]) => (Halfway(hook[h]))'
  <2> SUFFICES ASSUME Halfway(hook[h]), NEW x \in Wamids, x[1] = m,
                      hook'[h].at = "send" => x[2] < hook'[h].part
               PROVE  Arrived(x)' \/ Rejected(x)'
    BY <1>3 DEF Halfway
  <2>1. x = <<x[1], x[2]>> /\ x[2] \in {1, 2} /\ x[2] <= Parts(x[1]) BY DEF Wamids
  <2>2. x[2] <= p BY <1>2, <1>3, <2>1, PartsRange
  <2>3. CASE x[2] = p
    <3>1. x = <<m, p>> BY <2>1, <2>3
    <3> QED BY <1>1, <1>2, <3>1, AcceptedSettles DEF Rejected
  <2>4. CASE x[2] < p
    <3>1. Arrived(x) \/ Rejected(x) BY <1>1, <2>4 DEF Halfway
    <3> QED BY <1>4, <3>1 DEF Grows, Rejected
  <2> QED BY <1>2, <2>1, <2>2, <2>3, <2>4
<1> QED BY <1>1, <1>4, <1>5, <1>6, DebtGrows

LEMMA DebtRemember ==
  ASSUME OneRequest, IInv, DebtInv, NEW h \in Hooks, Remember(h) PROVE DebtInv'
<1>1. /\ UNCHANGED <<pending, failing, arrived, noted, written, gone>>
      /\ hook[h].kind = "agent" /\ hook[h].at = "remember" /\ Goto(h, "human")
      /\ out' = out \cup {x \in Wamids : x[1] = hook[h].msg}
  BY DEF Remember, At, phone, ghosts
<1>2. hook'[h].at \in Clear BY <1>1, GoesTo DEF Clear
<1>3. Grows BY <1>1 DEF Grows, Arrived
<1>4. Halfway(hook[h]) => \A x \in Wamids : Owes(hook[h], x) => Settled(x)'
  <2> SUFFICES ASSUME Halfway(hook[h]), NEW x \in Wamids, Owes(hook[h], x)
               PROVE  Settled(x)'
    OBVIOUS
  <2>1. x[1] = hook[h].msg BY <1>1 DEF Owes
  <2>2. Arrived(x) \/ Rejected(x) BY <1>1, <2>1 DEF Halfway
  <2>3. x \in out' BY <1>1, <2>1
  <2>4. Arrived(x)' \/ (Rejected(x)' /\ x \in out') BY <1>1, <2>2, <2>3 DEF Arrived, Rejected
  <2> QED BY <2>4 DEF Settled, Due
<1> QED BY <1>1, <1>2, <1>3, <1>4, ClearOwesNext, DebtGrows

LEMMA DebtRelayFails ==
  ASSUME OneRequest, IInv, DebtInv, NEW h \in Hooks, RelayFails(h) PROVE DebtInv'
<1>1. /\ UNCHANGED <<pending, out, failing, written, gone>>
      /\ hook[h].kind = "agent" /\ Goto(h, "idle") /\ noted' = noted \cup {hook[h].msg}
      /\ \/ arrived' = arrived
         \/ arrived' = Append(arrived, <<hook[h].msg, hook[h].part>>)
  BY DEF RelayFails, redis
<1>2. hook'[h].at \in Clear BY <1>1, GoesTo DEF Clear
<1>3. arrived \in Seq(Wamids) /\ <<hook[h].msg, hook[h].part>> \in Wamids
  BY <1>1, RequestTyped DEF Carries, IInv, TypeOK
<1>4. Grows
  <2>1. CASE arrived' = arrived BY <1>1, <2>1 DEF Grows, Arrived
  <2>2. CASE arrived' = Append(arrived, <<hook[h].msg, hook[h].part>>)
    <3>1. \A x : Arrived(x) => Arrived(x)' BY <1>3, <2>2, ContainsAppend DEF Arrived
    <3> QED BY <1>1, <3>1 DEF Grows
  <2> QED BY <1>1, <2>1, <2>2
<1>5. \A x : Owes(hook[h], x) => Settled(x)' BY <1>1 DEF Owes, Settled
<1> QED BY <1>1, <1>2, <1>4, <1>5, ClearOwesNext, DebtGrows

LEMMA DebtQueue ==
  ASSUME OneRequest, IInv, DebtInv, NEW h \in Hooks, Queue(h) PROVE DebtInv'
<1>1. /\ UNCHANGED <<out, failing, arrived, noted, written, gone>>
      /\ hook[h].at = "queue" /\ Goto(h, "flag") /\ pending' = Append(pending, hook[h].msg)
  BY DEF Queue, Pushed, phone, ghosts
<1>2. hook'[h].at \in Clear BY <1>1, GoesTo DEF Clear
<1>3. pending \in Seq(Msgs) /\ hook[h].msg \in Msgs
  BY <1>1, RequestTyped DEF Carries, IInv, TypeOK
<1>4. \A m : Contains(pending, m)' <=> Contains(pending, m) \/ m = hook[h].msg
  BY <1>1, <1>3, ContainsAppend
<1>5. Grows BY <1>1 DEF Grows, Arrived
<1>6. \A x : Owes(hook[h], x) => x[1] = hook[h].msg BY <1>1 DEF Owes
<1>7. \A x : Owes(hook[h], x) => Settled(x)' BY <1>4, <1>6 DEF Settled
<1> QED BY <1>1, <1>2, <1>4, <1>5, <1>7, ClearOwesNext, DebtGrows

LEMMA DebtReadList ==
  ASSUME OneRequest, IInv, DebtInv, NEW h \in Hooks, ReadList(h) PROVE DebtInv'
<1>1. /\ UNCHANGED <<pending, out, failing, arrived, noted, written, gone>>
      /\ hook[h].kind = "client" /\ hook[h].at = "range"
      /\ hook'[h] = [hook[h] EXCEPT !.batch = pending,
                       !.at = IF pending = <<>> THEN "muted" ELSE "delete"]
  BY DEF ReadList, At, redis, phone, ghosts, IInv, TypeOK
<1>2. /\ hook'[h].kind = "client" /\ hook'[h].at \in {"muted", "delete"}
      /\ hook'[h].batch = pending
  BY <1>1, RequestTyped DEF Requests
<1>3. Grows BY <1>1 DEF Grows, Arrived
<1>4. \A x : ~Owes(hook[h], x) BY <1>1 DEF Owes
<1>5. (Halfway(hook[h]))' BY <1>1, <1>2 DEF Halfway
<1> QED BY <1>1, <1>3, <1>4, <1>5, DebtGrows

\* The list moves into the request's hands.
LEMMA DebtDeleteList ==
  ASSUME OneRequest, IInv, DebtInv, NEW h \in Hooks, DeleteList(h) PROVE DebtInv'
<1>1. /\ UNCHANGED <<out, failing, arrived, noted, written, gone>>
      /\ hook[h].kind = "client" /\ hook[h].at = "delete" /\ Goto(h, "deliver")
  BY DEF DeleteList, At, phone, ghosts
<1>2. hook'[h].at = "deliver" /\ Same(hook[h], hook'[h]) BY <1>1, GoesTo
<1>3. hook[h].part = 1 BY <1>1, RequestTyped DEF Carries
<1>4. Halfway(hook[h]) => hook[h].batch = pending BY <1>1 DEF Halfway
<1>5. (Halfway(hook[h]))'
  <2>1. \A x \in Wamids : ~(x[2] < 1) BY DEF Wamids
  <2> QED BY <1>1, <1>2, <1>3, <2>1 DEF Halfway, Same
<1>6. Halfway(hook[h]) => \A x : Settled(x) => Settled(x)' \/ Owes(hook'[h], x)
  <2> SUFFICES ASSUME Halfway(hook[h]), NEW x, Settled(x)
               PROVE  Settled(x)' \/ Owes(hook'[h], x)
    OBVIOUS
  <2>1. CASE Contains(pending, x[1]) BY <1>1, <1>2, <1>4, <2>1 DEF Owes, Same
  <2>2. CASE ~Contains(pending, x[1])
    BY <1>1, <2>2 DEF Settled, Arrived, Due, Rejected, RejectedByFlush
  <2> QED BY <2>1, <2>2
<1>7. \A x : ~Owes(hook[h], x) BY <1>1 DEF Owes
<1> QED BY <1>1, <1>5, <1>6, <1>7, DebtStep

LEMMA DebtDeliver ==
  ASSUME OneRequest, IInv, DebtInv, NEW h \in Hooks, Deliver(h) PROVE DebtInv'
<1> DEFINE b == hook[h].batch
           m == Head(b)
           p == hook[h].part
<1>1. /\ UNCHANGED <<pending, out, noted, written, gone>>
      /\ At(h, "client", "deliver") /\ Accepted(<<m, p>>, "client")
  BY DEF Deliver, redis, ghosts
<1>2. /\ hook[h] \in Requests /\ hook[h].kind = "client" /\ hook[h].at = "deliver"
      /\ b \in Seq(Msgs) /\ b # <<>> /\ m \in Msgs /\ p \in {1, 2} /\ p <= Parts(m)
      /\ <<m, p>> \in Wamids
  BY <1>1, Delivering, RequestTyped
<1>3. /\ hook'[h].kind = "client"
      /\ \/ p < Parts(m) /\ hook'[h].at = "deliver" /\ hook'[h].part = p + 1 /\ hook'[h].batch = b
         \/ /\ p = Parts(m) /\ hook'[h].batch = Tail(b)
            /\ \/ hook'[h].at = "deliver" /\ hook'[h].part = 1
               \/ hook'[h].at = "unflag" /\ Len(b) = 1
  <2>1. CASE p # Parts(m)
    <3>1. hook'[h] = [hook[h] EXCEPT !.part = @ + 1]
      BY <2>1 DEF Deliver, NextPart, IInv, TypeOK
    <3> QED BY <1>2, <2>1, <3>1, PartsRange DEF Requests
  <2>2. CASE p = Parts(m)
    <3>1. hook'[h] = [hook[h] EXCEPT !.part = 1, !.sent = TRUE, !.batch = Tail(b),
                        !.at = IF Len(b) = 1 THEN "unflag" ELSE "deliver"]
      BY <2>2 DEF Deliver, IInv, TypeOK
    <3> QED BY <1>2, <2>2, <3>1 DEF Requests
  <2> QED BY <2>1, <2>2
<1>4. Grows BY <1>1, <1>2, AcceptedSettles DEF Grows
<1>5. ASSUME NEW x \in Wamids, x = <<m, p>> PROVE Arrived(x)' \/ RejectedByFlush(x)'
  BY <1>1, <1>5, AcceptedSettles DEF RejectedByFlush
<1>6. ASSUME Halfway(hook[h]), NEW x \in Wamids, x[1] = m, x[2] <= p
      PROVE  Arrived(x)' \/ RejectedByFlush(x)'
  <2>1. x = <<x[1], x[2]>> /\ x[2] \in {1, 2} BY DEF Wamids
  <2>2. CASE x[2] = p
    <3>1. x = <<m, p>> BY <1>6, <2>1, <2>2
    <3> QED BY <1>5, <3>1
  <2>3. CASE x[2] < p
    <3>1. Arrived(x) \/ RejectedByFlush(x) BY <1>2, <1>6, <2>3 DEF Halfway
    <3> QED BY <1>4, <3>1 DEF Grows, RejectedByFlush
  <2> QED BY <1>2, <1>6, <2>1, <2>2, <2>3
<1>7. Halfway(hook[h]) => (Halfway(hook[h]))'
  <2> SUFFICES ASSUME Halfway(hook[h]), NEW x \in Wamids, hook'[h].at = "deliver",
                      x[1] = Head(hook'[h].batch), x[2] < hook'[h].part
               PROVE  Arrived(x)' \/ RejectedByFlush(x)'
    BY <1>3 DEF Halfway
  <2>1. x[2] \in {1, 2} BY DEF Wamids
  <2>2. x[1] = m /\ x[2] <= p BY <1>2, <1>3, <2>1
  <2> QED BY <1>6, <2>2
<1>8. Halfway(hook[h]) => \A x \in Wamids : Owes(hook[h], x) => Settled(x)' \/ Owes(hook'[h], x)
  <2> SUFFICES ASSUME Halfway(hook[h]), NEW x \in Wamids, Owes(hook[h], x), ~Owes(hook'[h], x)
               PROVE  Settled(x)'
    OBVIOUS
  <2>1. Contains(b, x[1]) BY <1>2 DEF Owes
  <2>2. p = Parts(m) /\ hook'[h].batch = Tail(b) BY <1>3, <2>1 DEF Owes
  <2>3. x[1] = m
    <3>1. CASE hook'[h].at = "deliver"
      <4>1. ~Contains(Tail(b), x[1]) BY <1>3, <2>2, <3>1 DEF Owes
      <4> QED BY <1>2, <2>1, <4>1, ContainsHead
    <3>2. CASE Len(b) = 1
      <4>1. Len(Tail(b)) = 0 BY <1>2, <3>2, HeadTailProperties
      <4>2. ~Contains(Tail(b), x[1]) BY <4>1 DEF Contains
      <4> QED BY <1>2, <2>1, <4>2, ContainsHead
    <3> QED BY <1>3, <2>2, <3>1, <3>2
  <2>4. x[2] <= p BY <2>2, <2>3 DEF Wamids
  <2>5. Arrived(x)' \/ RejectedByFlush(x)' BY <1>6, <2>3, <2>4
  <2> QED BY <2>5 DEF Settled
<1> QED BY <1>1, <1>4, <1>7, <1>8, DebtGrows

LEMMA DebtDeliverFails ==
  ASSUME OneRequest, IInv, DebtInv, NEW h \in Hooks, DeliverFails(h) PROVE DebtInv'
<1> DEFINE b == hook[h].batch
<1>1. /\ UNCHANGED <<out, failing, noted, written, gone>>
      /\ At(h, "client", "deliver") /\ pending' = pending \o b
      /\ \/ arrived' = arrived
         \/ arrived' = Append(arrived, <<Head(b), hook[h].part>>)
      /\ hook'[h] = [hook[h] EXCEPT !.batch = <<>>, !.part = 1, !.at = "unflag"]
  BY DEF DeliverFails, PutBack, ghosts, IInv, TypeOK
<1>2. /\ hook[h] \in Requests /\ hook[h].kind = "client" /\ hook[h].at = "deliver"
      /\ b \in Seq(Msgs) /\ <<Head(b), hook[h].part>> \in Wamids
  BY <1>1, Delivering
<1>3. hook'[h].at = "unflag" BY <1>1, <1>2 DEF Requests
<1>4. \A m : Contains(pending, m) \/ Contains(b, m) => Contains(pending, m)'
  <2>1. pending \in Seq(Msgs) BY DEF IInv, TypeOK
  <2>2. \A m : Contains(pending, m) \/ Contains(b, m) => Contains(pending \o b, m)
    BY <1>2, <2>1, ContainsConcat
  <2> QED BY <1>1, <2>2
<1>5. Grows
  <2>1. CASE arrived' = arrived BY <1>1, <2>1 DEF Grows, Arrived
  <2>2. CASE arrived' = Append(arrived, <<Head(b), hook[h].part>>)
    <3>1. arrived \in Seq(Wamids) BY DEF IInv, TypeOK
    <3>2. \A x : Arrived(x) => Arrived(x)' BY <1>2, <2>2, <3>1, ContainsAppend DEF Arrived
    <3> QED BY <1>1, <3>2 DEF Grows
  <2> QED BY <1>1, <2>1, <2>2
<1>6. \A x : Owes(hook[h], x) => Settled(x)' BY <1>2, <1>4 DEF Owes, Settled
<1>7. hook'[h].at \in Clear BY <1>3 DEF Clear
<1> QED BY <1>1, <1>4, <1>5, <1>6, <1>7, ClearOwesNext, DebtGrows

LEMMA DebtLookup ==
  ASSUME OneRequest, IInv, DebtInv, NEW h \in Hooks, Lookup(h) PROVE DebtInv'
<1>1. /\ UNCHANGED <<pending, out, failing, arrived, noted, written, gone>>
      /\ hook[h].kind = "status" /\ hook[h].at = "lookup"
  BY DEF Lookup, At, redis, phone, ghosts
<1>2. PICK place \in {"forget", "idle"} : Goto(h, place) BY DEF Lookup
<1>3. hook'[h].at = place /\ (place # "idle" => Same(hook[h], hook'[h])) BY <1>2, GoesTo
<1>4. Grows BY <1>1 DEF Grows, Arrived
<1>5. \A x : ~Owes(hook[h], x) BY <1>1 DEF Owes
<1>6. Halfway(hook[h]) => (Halfway(hook[h]))'
  <2>1. CASE place = "idle" BY <1>3, <2>1, ClearOwesNext DEF Clear
  <2>2. CASE place = "forget" BY <1>1, <1>3, <2>2 DEF Halfway, Same, Due, Rejected
  <2> QED BY <2>1, <2>2
<1> QED BY <1>1, <1>4, <1>5, <1>6, DebtGrows

\* What is forgotten goes back to the list, or the agent is told.
LEMMA DebtForget ==
  ASSUME OneRequest, IInv, DebtInv, NEW h \in Hooks, Forget(h) PROVE DebtInv'
<1>1. /\ UNCHANGED <<pending, failing, arrived, written, gone>>
      /\ hook[h].kind = "status" /\ hook[h].at = "forget" /\ out' = out \ {Wamid(h)}
  BY DEF Forget, Forgotten, At, phone
<1>2. \/ Wamid(h) = Template /\ Goto(h, "unflag") /\ UNCHANGED noted
      \/ Goto(h, "queue") /\ UNCHANGED noted
      \/ Goto(h, "idle") /\ noted' = noted \cup {hook[h].msg}
  BY DEF Forget, WhatFailed
<1>3. noted \subseteq noted' BY <1>2
<1>4. \A x : x # Wamid(h) /\ Settled(x) => Settled(x)'
  BY <1>1, <1>3 DEF Settled, Arrived, Due, Rejected, RejectedByFlush
<1>5. (Halfway(hook[h]))'
  <2>1. hook'[h].at \in Clear \/ (hook'[h].at = "queue" /\ hook'[h].kind = "status")
    BY <1>1, <1>2, GoesTo DEF Clear, Same
  <2>2. CASE hook'[h].at = "queue" /\ hook'[h].kind = "status" BY <2>2 DEF Halfway
  <2> QED BY <2>1, <2>2, ClearOwesNext
<1>6. ASSUME NEW x \in Wamids, x = Wamid(h) PROVE Settled(x)' \/ Owes(hook'[h], x)
  <2>1. Wamid(h) # Template
    <3>1. Template \notin Wamids BY DEF Wamids, Template, Msgs
    <3> QED BY <1>6, <3>1
  <2>2. CASE Goto(h, "queue")
    <3>1. hook'[h].at = "queue" /\ Same(hook[h], hook'[h]) BY <2>2, GoesTo
    <3> QED BY <1>1, <1>6, <3>1 DEF Owes, Same, Wamid
  <2>3. CASE Goto(h, "idle") /\ noted' = noted \cup {hook[h].msg}
    <3>1. x[1] \in noted' BY <1>6, <2>3 DEF Wamid
    <3> QED BY <3>1 DEF Settled
  <2> QED BY <1>2, <2>1, <2>2, <2>3
<1>7. \A x : ~Owes(hook[h], x) BY <1>1 DEF Owes
<1> QED BY <1>1, <1>4, <1>5, <1>6, <1>7, DebtStep

\* A process that ends halfway is what NothingVanishes leaves out.
LEMMA DebtGone == ASSUME gone' = TRUE PROVE DebtInv'
BY DEF DebtInv

LEMMA DebtHook ==
  ASSUME OneRequest, IInv, DebtInv, NEW h \in Hooks, HookStep(h) \/ HookFails(h)
  PROVE  DebtInv'
<1>1. Dies(h) => DebtInv' BY DebtGone DEF Dies
<1> QED BY <1>1, DebtClear, DebtCheck, DebtSend, DebtRemember, DebtQueue, DebtReadList,
     DebtDeleteList, DebtDeliver, DebtLookup, DebtForget, DebtRelayFails, DebtDeliverFails
     DEF HookStep, HookFails

LEMMA DebtStart ==
  ASSUME OneRequest, IInv, DebtInv, NEW h \in Hooks,
         Relay(h) \/ Inbound(h) \/ \E f \in failing : Status(h, f)
  PROVE  DebtInv'
<1>1. /\ UNCHANGED <<pending, out, failing, arrived, noted, gone>>
      /\ hook[h].at = "idle"
  BY DEF Relay, Inbound, Status, Starts, redis, phone, ghosts
<1>2. Grows BY <1>1 DEF Grows, Arrived
<1>3. \A x : ~Owes(hook[h], x) BY <1>1 DEF Owes
<1>4. CASE Relay(h)
  <2>1. hook'[h] = [IdleHook EXCEPT !.kind = "agent", !.at = "check", !.msg = written + 1]
    BY <1>4, StartsAs DEF Relay
  <2>2. /\ hook'[h].kind = "agent" /\ hook'[h].at = "check" /\ hook'[h].msg = written + 1
        /\ hook'[h].part = 1
    BY <2>1 DEF IdleHook
  <2>3. (Halfway(hook[h]))' BY <2>2 DEF Halfway
  <2>4. written' = written + 1 /\ written \in Nat BY <1>4, BoundsAssumption DEF Relay, IInv, TypeOK
  <2>5. \A x \in Wamids : x[1] <= written' => x[1] <= written \/ Owes(hook'[h], x)
    <3>1. \A x \in Wamids : x[1] \in Nat BY DEF Wamids, Msgs
    <3> QED BY <2>2, <2>4, <3>1 DEF Owes
  <2>6. \A x : Settled(x) => Settled(x)' BY <1>1, <1>2, StaysSettled
  <2> QED BY <1>1, <1>3, <2>3, <2>5, <2>6, DebtStep
<1>5. CASE Inbound(h)
  <2>1. hook'[h] = [IdleHook EXCEPT !.kind = "client", !.at = "range"]
    BY <1>5, StartsAs DEF Inbound
  <2>2. hook'[h].at \in Clear BY <2>1 DEF IdleHook, Clear
  <2>3. written' = written BY <1>5 DEF Inbound
  <2> QED BY <1>1, <1>2, <1>3, <2>2, <2>3, ClearOwesNext, DebtGrows
<1>6. ASSUME NEW f \in failing, Status(h, f) PROVE DebtInv'
  <2>1. hook'[h] = [IdleHook EXCEPT !.kind = "status", !.at = "lookup",
                      !.msg = f.id[1], !.part = f.id[2], !.why = f.why]
    BY <1>6, StartsAs DEF Status
  <2>2. /\ hook'[h].kind = "status" /\ hook'[h].at = "lookup"
        /\ hook'[h].msg = f.id[1] /\ hook'[h].part = f.id[2]
    BY <2>1 DEF IdleHook
  <2>3. f.id = <<f.id[1], f.id[2]>>
    <3>1. f.id \in Wamids \cup {Template} BY DEF IInv, TypeOK
    <3> QED BY <3>1 DEF Wamids, Template
  <2>4. f.id \in out' /\ f \in failing' BY <1>1, <1>6 DEF Status
  <2>5. (Halfway(hook[h]))' BY <2>2, <2>3, <2>4 DEF Halfway, Due, Rejected
  <2>6. written' = written BY <1>6 DEF Status
  <2> QED BY <1>1, <1>2, <1>3, <2>5, <2>6, DebtGrows
<1> QED BY <1>4, <1>5, <1>6

LEMMA DebtElse ==
  ASSUME IInv, DebtInv, ClientWrites \/ TemplateRejected \/ Resolve \/ Time \/ UNCHANGED vars
  PROVE  DebtInv'
<1>1. CASE PendingExpires BY <1>1, DebtGone DEF PendingExpires
<1>2. CASE ~PendingExpires
  <2>1. /\ UNCHANGED <<hook, pending, out, arrived, noted, written, gone>>
        /\ failing \subseteq failing'
    BY <1>2 DEF ClientWrites, TemplateRejected, Resolve, Time, TimePasses, RecordAges,
         GracePasses, TakeoverExpires, FlagExpires, vars, redis, phone, ghosts
  <2>2. Grows BY <2>1 DEF Grows, Arrived
  <2>3. \A x : Settled(x) => Settled(x)' BY <2>1, <2>2, StaysSettled
  <2>4. \A h \in Hooks : Halfway(hook[h]) => (Halfway(hook[h]))'
    BY <2>1 DEF Halfway, Arrived, Rejected, RejectedByFlush, Due
  <2> QED BY <2>1, <2>3, <2>4 DEF DebtInv
<1> QED BY <1>1, <1>2

LEMMA DebtNext == ASSUME OneRequest, IInv, DebtInv, [Next]_vars PROVE DebtInv'
BY DebtHook, DebtStart, DebtElse DEF Next

LEMMA DebtIsAccounted == ASSUME IInv, DebtInv PROVE NothingVanishes
<1> SUFFICES ASSUME ~gone, NEW x \in Wamids, x[1] <= written
             PROVE  Accounted(x) \/ RejectedByFlush(x)
  BY DEF NothingVanishes
<1>1. CASE Settled(x) BY <1>1 DEF Settled, Due, Rejected, Accounted
<1>2. CASE \E h \in Hooks : Owes(hook[h], x)
  <2>1. Handled(x[1]) BY <1>2 DEF Owes, Handled
  <2> QED BY <2>1 DEF Accounted
<1> QED BY <1>1, <1>2 DEF DebtInv

\* window.py, with one request at a time: whichever call fails or is rejected, what
\* the agent wrote arrives, waits, is in a request's hands or has a rejection
\* coming, or the agent is told; only a flush that Meta rejects later loses it.
THEOREM NothingIsLost == ASSUME OneRequest PROVE Spec => []NothingVanishes
<1>1. Init => DebtInv
  <2>1. \A x \in Wamids : ~(x[1] <= 0) BY DEF Wamids, Msgs
  <2> QED BY <2>1 DEF Init, DebtInv, Halfway, IdleHook
<1>2. IInv /\ DebtInv /\ [Next]_vars => DebtInv' BY DebtNext
<1>3. IInv /\ DebtInv => NothingVanishes BY DebtIsAccounted
<1> QED BY Invariance, <1>1, <1>2, <1>3, PTL DEF Spec

-----------------------------------------------------------------------------
(* The client is invited (one request at a time) *)

\* The flag is held for a template on its way, in the client's hands, or whose
\* rejection is on its way.
InviteInv ==
  ~gone =>
    /\ flag => \/ invited \/ Due(Template)
               \/ \E h \in Hooks : hook[h].at = "template" \/ At(h, "status", "unflag")
    /\ faults = 0 =>
         /\ ~Rejected(Template)
         /\ pending # <<>> => invited \/ \E h \in Hooks : hook[h].at \in {"flag", "template"}
         /\ \A h \in Hooks : hook[h].kind = "client" /\ hook[h].at \in {"deliver", "unflag"} =>
              pending = <<>>

\* Nobody but the request itself is on the way to the template.
LEMMA InviteStep ==
  ASSUME OneRequest, NEW h \in Hooks,
         ~gone' =>
           /\ flag' => \/ invited' \/ Due(Template)'
                       \/ hook'[h].at = "template"
                       \/ hook'[h].kind = "status" /\ hook'[h].at = "unflag"
           /\ faults' = 0 =>
                /\ ~Rejected(Template)'
                /\ pending' # <<>> => invited' \/ hook'[h].at \in {"flag", "template"}
                /\ hook'[h].kind = "client" /\ hook'[h].at \in {"deliver", "unflag"} =>
                     pending' = <<>>
  PROVE  InviteInv'
BY DEF OneRequest, InviteInv, At

\* A step that touches neither the template nor the list.
LEMMA InviteKept ==
  ASSUME OneRequest, InviteInv, NEW h \in Hooks, gone' = gone,
         UNCHANGED <<flag, invited, pending>>, out \subseteq out',
         Rejected(Template) => Rejected(Template)',
         faults' = 0 => faults = 0 /\ (Rejected(Template)' => Rejected(Template)),
         hook[h].at \notin {"template", "unflag", "flag"},
         hook'[h].kind = "client" /\ hook'[h].at \in {"deliver", "unflag"} =>
           hook[h].kind = "client" /\ hook[h].at \in {"deliver", "unflag"}
  PROVE  InviteInv'
BY InviteStep DEF OneRequest, InviteInv, At, Due

\* A call about a message says nothing of the template.
LEMMA AcceptedTemplate ==
  ASSUME IInv, NEW x \in Wamids, NEW sender, Accepted(x, sender)
  PROVE  /\ Rejected(Template)' <=> Rejected(Template)
         /\ faults' = 0 => faults = 0
<1>1. x # Template BY DEF Wamids, Template, Msgs
<1>2. faults \in Nat BY DEF IInv, TypeOK
<1>3. failing' = failing \/ \E why : failing' = failing \cup {[id |-> x, why |-> why, sender |-> sender]}
  BY DEF Accepted
<1>4. Rejected(Template)' <=> Rejected(Template)
  <2>1. CASE failing' = failing BY <2>1 DEF Rejected
  <2>2. ASSUME NEW why, failing' = failing \cup {[id |-> x, why |-> why, sender |-> sender]}
        PROVE  Rejected(Template)' <=> Rejected(Template)
    BY <1>1, <2>2 DEF Rejected
  <2> QED BY <1>3, <2>1, <2>2
<1>5. faults' = 0 => faults = 0 BY <1>2 DEF Accepted, Fault
<1> QED BY <1>4, <1>5

LEMMA FaultCounts == ASSUME IInv, Fault PROVE faults' # 0
BY DEF IInv, TypeOK, Fault

LEMMA InviteMoves ==
  ASSUME OneRequest, IInv, InviteInv, NEW h \in Hooks,
         \/ Check(h) \/ Remember(h) \/ SetHuman(h) \/ IsMuted(h) \/ ClearExpired(h)
         \/ TakeTap(h) \/ NotForTheBot(h) \/ BotAnswers(h) \/ BotEscalates(h) \/ Lookup(h)
  PROVE  InviteInv'
<1>1. UNCHANGED <<pending, flag, invited, failing, faults, gone>> /\ out \subseteq out'
  BY DEF Check, Remember, SetHuman, IsMuted, ClearExpired, TakeTap, NotForTheBot,
         BotAnswers, BotEscalates, Lookup, redis, phone, ghosts
<1>2. hook[h].at \notin {"template", "unflag", "flag"}
  BY DEF Check, Remember, SetHuman, IsMuted, ClearExpired, TakeTap, NotForTheBot,
         BotAnswers, BotEscalates, Lookup, At
<1>3. \E place \in {"send", "queue", "human", "muted", "idle", "bot", "clear", "tapped",
                    "forget"} : Goto(h, place)
  BY DEF Check, Remember, SetHuman, IsMuted, ClearExpired, TakeTap, NotForTheBot,
         BotAnswers, BotEscalates, Lookup
<1>4. hook'[h].at \notin {"deliver", "unflag"} BY <1>3, GoesTo
<1>5. Rejected(Template)' <=> Rejected(Template) BY <1>1 DEF Rejected
<1> QED BY <1>1, <1>2, <1>4, <1>5, InviteKept

LEMMA InviteCalls ==
  ASSUME OneRequest, IInv, InviteInv, NEW h \in Hooks, Send(h) \/ Deliver(h) \/ ReadList(h)
  PROVE  InviteInv'
<1>1. UNCHANGED <<pending, flag, invited, out, gone>>
  BY DEF Send, Deliver, ReadList, redis, ghosts
<1>2. /\ hook[h] \in Requests /\ hook \in [Hooks -> Requests]
      /\ hook[h].at \in {"send", "deliver", "range"}
  BY RequestTyped DEF IInv, TypeOK, Send, Deliver, ReadList, At
<1>3. (Rejected(Template)' <=> Rejected(Template)) /\ (faults' = 0 => faults = 0)
  <2>1. CASE Send(h)
    <3>1. <<hook[h].msg, hook[h].part>> \in Wamids
      BY <2>1, RequestTyped DEF Send, At, Carries
    <3> QED BY <2>1, <3>1, AcceptedTemplate DEF Send
  <2>2. CASE Deliver(h)
    <3>1. <<Head(hook[h].batch), hook[h].part>> \in Wamids
      BY <2>2, Delivering DEF Deliver
    <3> QED BY <2>2, <3>1, AcceptedTemplate DEF Deliver
  <2>3. CASE ReadList(h)
    BY <2>3 DEF ReadList, Rejected, phone
  <2> QED BY <2>1, <2>2, <2>3
<1>4. hook'[h].kind = "client" /\ hook'[h].at \in {"deliver", "unflag"} =>
        hook[h].kind = "client" /\ hook[h].at \in {"deliver", "unflag"}
  <2>1. CASE NextPart(h)
    <3>1. hook'[h] = [hook[h] EXCEPT !.part = @ + 1] BY <1>2, <2>1 DEF NextPart
    <3> QED BY <1>2, <3>1 DEF Requests
  <2>2. CASE Send(h) /\ ~NextPart(h)
    <3>1. Goto(h, "remember") BY <2>2 DEF Send
    <3> QED BY <3>1, GoesTo
  <2>3. CASE Deliver(h) BY <2>3 DEF Deliver, At
  <2>4. CASE ReadList(h)
    <3>1. hook'[h] = [hook[h] EXCEPT !.batch = pending,
                        !.at = IF pending = <<>> THEN "muted" ELSE "delete"]
      BY <1>2, <2>4 DEF ReadList
    <3>2. hook'[h].at \in {"muted", "delete"} BY <1>2, <3>1 DEF Requests
    <3> QED BY <3>2
  <2> QED BY <2>1, <2>2, <2>3, <2>4
<1> QED BY <1>1, <1>2, <1>3, <1>4, InviteKept

\* The steps of _reengage and of flush_pending around the flag.
LEMMA InviteFlag ==
  ASSUME OneRequest, IInv, InviteInv, NEW h \in Hooks,
         Queue(h) \/ TakeFlag(h) \/ SendTemplate(h) \/ DeleteList(h) \/ Unflag(h)
           \/ UnflagRejected(h) \/ Forget(h)
  PROVE  InviteInv'
<1>1. UNCHANGED <<failing, faults, gone>>
  BY DEF Queue, TakeFlag, SendTemplate, DeleteList, Unflag, UnflagRejected, Forget,
         phone, ghosts
<1>2. Rejected(Template)' <=> Rejected(Template) BY <1>1 DEF Rejected
<1>3. CASE Queue(h)
  <2>1. /\ UNCHANGED <<flag, invited, out>> /\ hook[h].at = "queue" /\ Goto(h, "flag")
    BY <1>3 DEF Queue, ghosts
  <2>2. hook'[h].at = "flag" BY <2>1, GoesTo
  <2> QED BY <1>1, <1>2, <2>1, <2>2, InviteStep DEF OneRequest, InviteInv, At, Due
<1>4. CASE TakeFlag(h)
  <2>1. UNCHANGED <<pending, invited, out>> /\ hook[h].at = "flag" BY <1>4 DEF TakeFlag, ghosts
  <2>2. CASE flag
    <3>1. \E place \in {"human", "idle"} : Goto(h, place)
      BY <1>4, <2>2 DEF TakeFlag, AfterReengage
    <3>2. hook'[h].at \in {"human", "idle"} BY <3>1, GoesTo
    <3>3. ~gone => invited \/ Due(Template) BY <2>1, <2>2 DEF OneRequest, InviteInv, At
    <3>4. ~gone /\ faults = 0 => ~Due(Template) BY DEF InviteInv, Due
    <3> QED BY <1>1, <1>2, <2>1, <3>2, <3>3, <3>4, InviteStep DEF InviteInv, Due
  <2>3. CASE ~flag
    <3>1. Goto(h, "template") BY <1>4, <2>3 DEF TakeFlag
    <3>2. hook'[h].at = "template" BY <3>1, GoesTo
    <3> QED BY <1>1, <1>2, <2>1, <3>2, InviteStep DEF InviteInv
  <2> QED BY <2>2, <2>3
<1>5. CASE SendTemplate(h)
  <2>1. invited' /\ \E place \in {"human", "idle"} : Goto(h, place)
    BY <1>5 DEF SendTemplate, AfterReengage
  <2>2. hook'[h].at \in {"human", "idle"} BY <2>1, GoesTo
  <2> QED BY <1>1, <1>2, <2>1, <2>2, InviteStep DEF InviteInv
<1>6. CASE DeleteList(h)
  <2>1. /\ UNCHANGED <<flag, invited, out>> /\ pending' = <<>>
        /\ hook[h].at = "delete" /\ Goto(h, "deliver")
    BY <1>6 DEF DeleteList, At, ghosts
  <2>2. hook'[h].at = "deliver" BY <2>1, GoesTo
  <2> QED BY <1>1, <1>2, <2>1, <2>2, InviteStep DEF OneRequest, InviteInv, At, Due
<1>7. CASE Unflag(h)
  <2>1. /\ ~flag' /\ UNCHANGED pending /\ hook[h].kind = "client" /\ hook[h].at = "unflag"
        /\ \E place \in {"human", "muted"} : Goto(h, place)
    BY <1>7 DEF Unflag, FlagAfter, AfterFlush, At
  <2>2. hook'[h].at \in {"human", "muted"} BY <2>1, GoesTo
  <2>3. ~gone /\ faults = 0 => pending = <<>> BY <2>1 DEF InviteInv
  <2> QED BY <1>1, <1>2, <2>1, <2>2, <2>3, InviteStep DEF InviteInv
<1>8. CASE UnflagRejected(h)
  <2>1. /\ ~flag' /\ UNCHANGED <<pending, invited>> /\ hook[h].at = "unflag" /\ Goto(h, "idle")
    BY <1>8 DEF UnflagRejected, At, ghosts
  <2>2. hook'[h].at = "idle" BY <2>1, GoesTo
  <2> QED BY <1>1, <1>2, <2>1, <2>2, InviteStep DEF OneRequest, InviteInv
<1>9. CASE Forget(h)
  <2>1. /\ UNCHANGED <<pending, flag, invited>> /\ hook[h].kind = "status"
        /\ hook[h].at = "forget" /\ out' = out \ {Wamid(h)}
        /\ \/ Goto(h, "unflag")
           \/ Wamid(h) # Template /\ \E place \in {"queue", "idle"} : Goto(h, place)
    BY <1>9 DEF Forget, Forgotten, WhatFailed, At
  <2>2. ~gone /\ flag => invited \/ Due(Template) BY <2>1 DEF OneRequest, InviteInv, At
  <2>3. CASE Goto(h, "unflag")
    <3>1. hook'[h].at = "unflag" /\ hook'[h].kind = "status" BY <2>1, <2>3, GoesTo DEF Same
    <3> QED BY <1>1, <1>2, <2>1, <3>1, InviteStep DEF OneRequest, InviteInv
  <2>4. CASE Wamid(h) # Template /\ \E place \in {"queue", "idle"} : Goto(h, place)
    <3>1. hook'[h].at \in {"queue", "idle"} BY <2>4, GoesTo
    <3>2. Due(Template) => Due(Template)' BY <1>2, <2>1, <2>4 DEF Due
    <3> QED BY <1>1, <1>2, <2>1, <2>2, <3>1, <3>2, InviteStep DEF OneRequest, InviteInv
  <2> QED BY <2>1, <2>3, <2>4
<1> QED BY <1>3, <1>4, <1>5, <1>6, <1>7, <1>8, <1>9

LEMMA InviteFails ==
  ASSUME OneRequest, IInv, InviteInv, NEW h \in Hooks, HookFails(h)
  PROVE  InviteInv'
<1>1. faults' # 0
  BY FaultCounts DEF HookFails, RelayFails, TemplateFails, DeliverFails, Dies
<1>2. CASE RelayFails(h)
  <2>1. /\ UNCHANGED <<flag, invited, out, failing, gone>>
        /\ hook[h].kind = "agent" /\ hook[h].at # "template" /\ Goto(h, "idle")
    BY <1>2 DEF RelayFails, redis
  <2>2. ~gone /\ flag => invited \/ Due(Template) BY <2>1 DEF OneRequest, InviteInv, At
  <2> QED BY <1>1, <2>1, <2>2, InviteStep DEF Due, Rejected
<1>3. CASE TemplateFails(h)
  BY <1>1, <1>3, InviteStep DEF TemplateFails
<1>4. CASE DeliverFails(h)
  <2>1. /\ UNCHANGED <<flag, invited, out, failing, gone>>
        /\ hook[h].kind = "client" /\ hook[h].at = "deliver"
    BY <1>4 DEF DeliverFails, At, ghosts
  <2>2. ~gone /\ flag => invited \/ Due(Template) BY <2>1 DEF OneRequest, InviteInv, At
  <2> QED BY <1>1, <2>1, <2>2, InviteStep DEF Due, Rejected
<1>5. CASE Dies(h) BY <1>5, InviteStep DEF Dies
<1> QED BY <1>2, <1>3, <1>4, <1>5 DEF HookFails

LEMMA InviteStart ==
  ASSUME OneRequest, IInv, InviteInv, NEW h \in Hooks,
         Relay(h) \/ Inbound(h) \/ \E f \in failing : Status(h, f)
  PROVE  InviteInv'
<1>1. /\ UNCHANGED <<pending, flag, invited, out, failing, faults, gone>>
      /\ hook[h].at = "idle"
  BY DEF Relay, Inbound, Status, Starts, redis, phone, ghosts
<1>2. hook'[h].at \in {"check", "range", "lookup"} BY RequestStarts
<1>3. Rejected(Template)' <=> Rejected(Template) BY <1>1 DEF Rejected
<1> QED BY <1>1, <1>2, <1>3, InviteKept

LEMMA InviteElse ==
  ASSUME IInv, InviteInv, ClientWrites \/ TemplateRejected \/ Resolve \/ Time \/ UNCHANGED vars
  PROVE  InviteInv'
<1>1. CASE PendingExpires BY <1>1 DEF PendingExpires, InviteInv
<1>2. CASE TemplateRejected
  <2>1. UNCHANGED <<hook, flag, out, gone>> /\ Template \in out
    BY <1>2 DEF TemplateRejected, redis
  <2>2. failing' = failing \cup {[id |-> Template, why |-> "other", sender |-> "agent"]}
    BY <1>2 DEF TemplateRejected
  <2>3. \E f \in failing' : f.id = Template
    <3>1. [id |-> Template, why |-> "other", sender |-> "agent"].id = Template OBVIOUS
    <3> QED BY <2>2, <3>1
  <2>4. Due(Template)'
    BY <2>1, <2>3 DEF Due, Rejected
  <2>5. faults' # 0 BY <1>2, FaultCounts DEF TemplateRejected
  <2> QED BY <2>4, <2>5 DEF InviteInv
<1>3. CASE FlagExpires
  <2>1. /\ UNCHANGED <<hook, pending, out, failing, invited, gone, faults>>
        /\ ~flag'
    BY <1>3 DEF FlagExpires, phone, ghosts
  <2> QED BY <2>1 DEF InviteInv, Rejected
<1>4. CASE ClientWrites \/ Resolve \/ TimePasses \/ RecordAges \/ GracePasses
             \/ TakeoverExpires \/ UNCHANGED vars
  <2>1. UNCHANGED <<hook, pending, flag, out, failing, invited, gone, faults>>
    BY <1>4 DEF ClientWrites, Resolve, TimePasses, RecordAges, GracePasses,
         TakeoverExpires, vars, redis, phone, ghosts
  <2> QED BY <2>1 DEF InviteInv, Due, Rejected, At
<1> QED BY <1>1, <1>2, <1>3, <1>4 DEF Time

LEMMA InviteNext == ASSUME OneRequest, IInv, InviteInv, [Next]_vars PROVE InviteInv'
<1>1. ASSUME NEW h \in Hooks, HookStep(h) PROVE InviteInv'
  BY <1>1, InviteMoves, InviteCalls, InviteFlag DEF HookStep
<1> QED BY <1>1, InviteFails, InviteStart, InviteElse DEF Next

\* window.py:128, with one request at a time: unless a process ended halfway, the
\* re-engagement flag is never held for a client that got no template, and, as
\* long as no call fails, a client with messages waiting has one to tap.
THEOREM WaitingIsInvited == ASSUME OneRequest PROVE Spec => []ClientIsInvited
<1>1. Init => InviteInv BY DEF Init, InviteInv, Rejected
<1>2. IInv /\ InviteInv /\ [Next]_vars => InviteInv' BY InviteNext
<1>3. InviteInv => ClientIsInvited
  BY DEF InviteInv, ClientIsInvited, AllIdle, Due, Rejected, At
<1> QED BY Invariance, <1>1, <1>2, <1>3, PTL DEF Spec

-----------------------------------------------------------------------------
(* In the order they were written (one request at a time) *)

Sorted(s)     == \A i, j \in DOMAIN s : i < j => s[i] <= s[j]
Below(s, n)   == \A i \in DOMAIN s : s[i] <= n
Precede(s, t) == \A i \in DOMAIN s, j \in DOMAIN t : s[i] <= t[j]
\* The messages the client has, as they came.
Texts == [i \in DOMAIN arrived |-> arrived[i][1]]

\* What a request carries comes after what the client has.
InLine(k) ==
  /\ k.kind # "status"
  /\ k.kind = "agent" => k.msg = written
  /\ k.at = "queue" => k.kind = "agent" /\ record # 0
  /\ k.at = "send" => k.kind = "agent" /\ pending = <<>>
  /\ k.at = "delete" => k.batch = pending
  /\ k.at = "deliver" => /\ pending = <<>>
                         /\ Sorted(k.batch) /\ Below(k.batch, written)
                         /\ Precede(Texts, k.batch)

\* What waits comes after what the client has, and while it waits the relay does
\* not send: the client's last message is too old, or its request has the list.
Listed ==
  /\ failing = {}
  /\ Sorted(Texts) /\ Sorted(pending) /\ Precede(Texts, pending)
  /\ Below(Texts, written) /\ Below(pending, written)
Claims(k) == k.kind = "client" /\ k.at \in {"range", "delete"}
OrderInv ==
  faults = 0 /\ ~late =>
    /\ Listed
    /\ pending # <<>> => record # 0 \/ \E h \in Hooks : Claims(hook[h])
    /\ \A h \in Hooks : InLine(hook[h])

LEMMA SortedAppend ==
  ASSUME NEW s \in Seq(Msgs), NEW t \in Seq(Msgs), NEW n \in Msgs,
         Sorted(t), Below(t, n)
  PROVE  /\ Sorted(Append(t, n)) /\ \A m \in Int : n <= m => Below(Append(t, n), m)
         /\ Precede(s, t) /\ Below(s, n) => Precede(s, Append(t, n))
<1>1. /\ Len(t) \in Nat /\ Append(t, n) \in Seq(Msgs) /\ Len(Append(t, n)) = Len(t) + 1
      /\ \A i \in 1 .. Len(t) : Append(t, n)[i] = t[i]
      /\ Append(t, n)[Len(t) + 1] = n
  BY AppendProperties, LenProperties
<1>2. DOMAIN t = 1 .. Len(t) /\ DOMAIN Append(t, n) = 1 .. Len(t) + 1
  BY <1>1, LenProperties
<1>3. \A i \in DOMAIN t : t[i] \in Int
  <2>1. \A i \in DOMAIN t : t[i] \in Msgs BY <1>2, ElementOfSeq
  <2> QED BY <2>1 DEF Msgs
<1>4. n \in Int BY DEF Msgs
<1> DEFINE u == Append(t, n)
<1>5. \A i \in DOMAIN u : (i \in DOMAIN t /\ u[i] = t[i]) \/ (i = Len(t) + 1 /\ u[i] = n)
  BY <1>1, <1>2
<1> HIDE DEF u
<1>6. Sorted(u)
  <2> SUFFICES ASSUME NEW i \in DOMAIN u, NEW j \in DOMAIN u, i < j PROVE u[i] <= u[j]
    BY DEF Sorted
  <2>1. i \in DOMAIN t /\ u[i] = t[i]
    <3>1. i \in Int /\ j \in Int /\ j <= Len(t) + 1 BY <1>1, <1>2 DEF u
    <3> QED BY <1>1, <1>5, <3>1
  <2>2. CASE j \in DOMAIN t /\ u[j] = t[j] BY <2>1, <2>2 DEF Sorted
  <2>3. CASE u[j] = n BY <2>1, <2>3 DEF Below
  <2> QED BY <1>5, <2>2, <2>3
<1>7. ASSUME NEW m \in Int, n <= m PROVE Below(u, m)
  <2> SUFFICES ASSUME NEW i \in DOMAIN u PROVE u[i] <= m BY DEF Below
  <2>1. CASE i \in DOMAIN t /\ u[i] = t[i] BY <1>3, <1>4, <1>7, <2>1 DEF Below
  <2>2. CASE u[i] = n BY <1>7, <2>2
  <2> QED BY <1>5, <2>1, <2>2
<1>8. ASSUME Precede(s, t), Below(s, n) PROVE Precede(s, u)
  BY <1>5, <1>8 DEF Precede, Below
<1> QED BY <1>6, <1>7, <1>8 DEF u

LEMMA PrecedeAppend ==
  ASSUME NEW s \in Seq(Msgs), NEW n \in Msgs, NEW t \in Seq(Msgs), Precede(s, t),
         \A j \in DOMAIN t : n <= t[j]
  PROVE  Precede(Append(s, n), t)
<1>1. /\ Len(s) \in Nat /\ Len(Append(s, n)) = Len(s) + 1 /\ Append(s, n) \in Seq(Msgs)
      /\ \A i \in 1 .. Len(s) : Append(s, n)[i] = s[i]
      /\ Append(s, n)[Len(s) + 1] = n
  BY AppendProperties, LenProperties
<1>2. DOMAIN s = 1 .. Len(s) /\ DOMAIN Append(s, n) = 1 .. Len(s) + 1
  BY <1>1, LenProperties
<1>3. \A i \in DOMAIN Append(s, n) :
        (i \in DOMAIN s /\ Append(s, n)[i] = s[i]) \/ Append(s, n)[i] = n
  BY <1>1, <1>2
<1> QED BY <1>3 DEF Precede

LEMMA SortedTail ==
  ASSUME NEW b \in Seq(Msgs), b # <<>>, Sorted(b)
  PROVE  /\ Sorted(Tail(b))
         /\ \A i \in DOMAIN b : Head(b) <= b[i]
         /\ \A i \in DOMAIN Tail(b) : \E j \in DOMAIN b : Tail(b)[i] = b[j]
         /\ \E j \in DOMAIN b : Head(b) = b[j]
<1>1. /\ Len(b) \in Nat /\ Len(b) # 0 /\ Len(Tail(b)) = Len(b) - 1 /\ Head(b) = b[1]
      /\ \A i \in 1 .. Len(Tail(b)) : Tail(b)[i] = b[i + 1]
      /\ Tail(b) \in Seq(Msgs)
  BY HeadTailProperties, EmptySeq, LenProperties
<1>2. DOMAIN b = 1 .. Len(b) /\ DOMAIN Tail(b) = 1 .. Len(b) - 1 BY <1>1, LenProperties
<1>3. 1 \in DOMAIN b /\ \A i \in DOMAIN Tail(b) : i + 1 \in DOMAIN b /\ Tail(b)[i] = b[i + 1]
  BY <1>1, <1>2
<1>4. Sorted(Tail(b))
  <2> SUFFICES ASSUME NEW i \in DOMAIN Tail(b), NEW j \in DOMAIN Tail(b), i < j
               PROVE  Tail(b)[i] <= Tail(b)[j]
    BY DEF Sorted
  <2>1. i + 1 \in DOMAIN b /\ j + 1 \in DOMAIN b /\ i + 1 < j + 1
    BY <1>1, <1>2, <1>3
  <2>2. b[i + 1] <= b[j + 1] BY <2>1 DEF Sorted
  <2> QED BY <1>3, <2>2
<1>5. ASSUME NEW i \in DOMAIN b PROVE Head(b) <= b[i]
  <2>1. b[i] \in Msgs BY <1>2, ElementOfSeq
  <2>2. CASE i = 1 BY <1>1, <2>1, <2>2 DEF Msgs
  <2>3. CASE i # 1
    <3>1. 1 < i BY <1>1, <1>2, <2>3
    <3> QED BY <1>1, <1>3, <3>1 DEF Sorted
  <2> QED BY <2>2, <2>3
<1> QED BY <1>1, <1>3, <1>4, <1>5

LEMMA NothingSorted ==
  ASSUME NEW s, NEW n
  PROVE  Sorted(<<>>) /\ Below(<<>>, n) /\ Precede(s, <<>>) /\ Precede(<<>>, s)
BY DEF Sorted, Below, Precede

LEMMA TextsTyped ==
  ASSUME IInv
  PROVE  Texts \in Seq(Msgs) /\ DOMAIN Texts = DOMAIN arrived
<1>1. /\ arrived \in Seq(Wamids) /\ Len(arrived) \in Nat
      /\ DOMAIN arrived = 1 .. Len(arrived)
  BY LenProperties DEF IInv, TypeOK
<1>2. \A i \in 1 .. Len(arrived) : arrived[i][1] \in Msgs BY <1>1, ElementOfSeq DEF Wamids
<1>3. Texts = [i \in 1 .. Len(arrived) |-> arrived[i][1]] BY <1>1 DEF Texts
<1> QED BY <1>1, <1>2, <1>3, IsASeq

LEMMA TextsAppend ==
  ASSUME IInv, NEW x \in Wamids, arrived' = Append(arrived, x)
  PROVE  Texts' = Append(Texts, x[1]) /\ x[1] \in Msgs
<1>1. /\ arrived \in Seq(Wamids) /\ Len(arrived) \in Nat
      /\ DOMAIN arrived = 1 .. Len(arrived) /\ x[1] \in Msgs
  BY LenProperties DEF IInv, TypeOK, Wamids
<1>2. /\ Append(arrived, x) \in Seq(Wamids) /\ Len(Append(arrived, x)) = Len(arrived) + 1
      /\ \A i \in 1 .. Len(arrived) : Append(arrived, x)[i] = arrived[i]
      /\ Append(arrived, x)[Len(arrived) + 1] = x
  BY <1>1, AppendProperties
<1>3. DOMAIN Append(arrived, x) = 1 .. Len(arrived) + 1 BY <1>2, LenProperties
<1>4. Texts' = [i \in 1 .. Len(arrived) + 1 |-> Append(arrived, x)[i][1]]
  BY <1>3 DEF Texts
<1>5. Texts \in Seq(Msgs) /\ Len(Texts) = Len(arrived) BY <1>1, TextsTyped, LenProperties
<1>6. /\ Append(Texts, x[1]) \in Seq(Msgs) /\ Len(Append(Texts, x[1])) = Len(arrived) + 1
      /\ \A i \in 1 .. Len(arrived) : Append(Texts, x[1])[i] = Texts[i]
      /\ Append(Texts, x[1])[Len(arrived) + 1] = x[1]
  BY <1>1, <1>5, AppendProperties
<1>7. \A i \in 1 .. Len(arrived) + 1 : Append(Texts, x[1])[i] = Append(arrived, x)[i][1]
  BY <1>1, <1>2, <1>6 DEF Texts
<1>8. Append(Texts, x[1]) = [i \in 1 .. Len(arrived) + 1 |-> Append(arrived, x)[i][1]]
  BY <1>6, <1>7
<1> QED BY <1>1, <1>4, <1>8

\* A step of the only request.
LEMMA OrderStep ==
  ASSUME OneRequest, NEW h \in Hooks,
         faults' = 0 /\ ~late' =>
           /\ Listed'
           /\ pending' # <<>> => record' # 0 \/ Claims(hook'[h])
           /\ (InLine(hook[h]))'
  PROVE  OrderInv'
BY DEF OneRequest, OrderInv, Claims, InLine

LEMMA OrderSpent == ASSUME faults' # 0 \/ late' PROVE OrderInv'
BY DEF OrderInv

\* A step that changes nothing but where the request is.
LEMMA OrderKept ==
  ASSUME OneRequest, OrderInv, NEW h \in Hooks,
         UNCHANGED <<written, pending, arrived, failing, record, faults, late>>,
         ~Claims(hook[h]), hook'[h].at \notin {"queue", "send", "delete", "deliver"},
         \/ hook'[h].kind = "none"
         \/ hook'[h].kind = hook[h].kind /\ hook'[h].msg = hook[h].msg
  PROVE  OrderInv'
<1> SUFFICES ASSUME faults = 0, ~late
             PROVE  /\ Listed'
                    /\ pending' # <<>> => record' # 0 \/ Claims(hook'[h])
                    /\ (InLine(hook[h]))'
  BY OrderStep
<1>1. Listed' BY DEF OrderInv, Listed, Texts, Sorted, Below, Precede
<1>2. pending # <<>> => record # 0 BY DEF OneRequest, OrderInv
<1>3. (InLine(hook[h]))' BY DEF OrderInv, InLine
<1> QED BY <1>1, <1>2, <1>3

LEMMA OrderMoves ==
  ASSUME OneRequest, IInv, OrderInv, NEW h \in Hooks,
         \/ Remember(h) \/ TakeFlag(h) \/ SendTemplate(h) \/ Unflag(h) \/ SetHuman(h)
         \/ IsMuted(h) \/ ClearExpired(h) \/ TakeTap(h) \/ NotForTheBot(h)
         \/ BotAnswers(h) \/ BotEscalates(h) \/ Lookup(h) \/ UnflagRejected(h)
  PROVE  OrderInv'
<1>1. UNCHANGED <<written, pending, arrived, failing, record, faults, late>>
  BY DEF Remember, TakeFlag, SendTemplate, Unflag, SetHuman, IsMuted, ClearExpired,
         TakeTap, NotForTheBot, BotAnswers, BotEscalates, Lookup, UnflagRejected,
         redis, phone, ghosts
<1>2. ~Claims(hook[h])
  BY DEF Remember, TakeFlag, SendTemplate, Unflag, SetHuman, IsMuted, ClearExpired,
         TakeTap, NotForTheBot, BotAnswers, BotEscalates, Lookup, UnflagRejected,
         At, Claims
<1>3. PICK place \in {"human", "template", "idle", "muted", "bot", "clear", "tapped", "forget"} :
        Goto(h, place)
  BY DEF Remember, TakeFlag, SendTemplate, Unflag, SetHuman, IsMuted, ClearExpired,
         TakeTap, NotForTheBot, BotAnswers, BotEscalates, Lookup, UnflagRejected,
         AfterReengage, AfterFlush
<1>4. hook'[h].at = place BY <1>3, GoesTo
<1>5. \/ hook'[h].kind = "none"
      \/ hook'[h].kind = hook[h].kind /\ hook'[h].msg = hook[h].msg
  BY <1>3, GoesTo DEF IdleHook, Same
<1> QED BY <1>1, <1>2, <1>4, <1>5, OrderKept

LEMMA OrderCheck ==
  ASSUME OneRequest, IInv, OrderInv, NEW h \in Hooks, Check(h) PROVE OrderInv'
<1>1. /\ UNCHANGED <<written, pending, arrived, failing, record, faults, late>>
      /\ hook[h].kind = "agent" /\ hook[h].at = "check"
      /\ \/ record = 0 /\ Goto(h, "send")
         \/ record # 0 /\ Goto(h, "queue")
  BY DEF Check, WindowOpen, At, redis, phone, ghosts
<1> SUFFICES ASSUME faults = 0, ~late
             PROVE  /\ Listed'
                    /\ pending' # <<>> => record' # 0 \/ Claims(hook'[h])
                    /\ (InLine(hook[h]))'
  BY <1>1, OrderStep
<1>2. Listed' BY <1>1 DEF OrderInv, Listed, Texts, Sorted, Below, Precede
<1>3. pending # <<>> => record # 0 BY <1>1 DEF OneRequest, OrderInv, Claims
<1>4. hook'[h].kind = "agent" /\ hook'[h].msg = hook[h].msg
  BY <1>1, GoesTo DEF Same
<1>5. \/ hook'[h].at = "queue" /\ record # 0
      \/ hook'[h].at = "send" /\ record = 0
  BY <1>1, GoesTo
<1>6. hook[h].msg = written BY <1>1 DEF OrderInv, InLine
<1>7. (InLine(hook[h]))' BY <1>1, <1>3, <1>4, <1>5, <1>6 DEF InLine
<1> QED BY <1>1, <1>2, <1>3, <1>7

LEMMA OrderQueue ==
  ASSUME OneRequest, IInv, OrderInv, NEW h \in Hooks, Queue(h) PROVE OrderInv'
<1>1. /\ UNCHANGED <<written, arrived, failing, record, faults, late>>
      /\ hook[h].at = "queue" /\ Goto(h, "flag") /\ pending' = Append(pending, hook[h].msg)
  BY DEF Queue, Pushed, phone, ghosts
<1> SUFFICES ASSUME faults = 0, ~late
             PROVE  /\ Listed'
                    /\ pending' # <<>> => record' # 0 \/ Claims(hook'[h])
                    /\ (InLine(hook[h]))'
  BY <1>1, OrderStep
<1>2. /\ pending \in Seq(Msgs) /\ hook[h].msg \in Msgs /\ written \in Int
      /\ Texts \in Seq(Msgs)
  <2>1. pending \in Seq(Msgs) /\ written \in Int BY DEF IInv, TypeOK
  <2>2. hook[h].msg \in Msgs BY <1>1, RequestTyped DEF Carries
  <2> QED BY <2>1, <2>2, TextsTyped
<1>3. hook[h].kind = "agent" /\ record # 0 /\ hook[h].msg = written
  BY <1>1 DEF OrderInv, InLine
<1>4. Listed
  BY DEF OrderInv
<1>5. /\ Sorted(Append(pending, written)) /\ Below(Append(pending, written), written)
      /\ Precede(Texts, Append(pending, written))
  BY <1>2, <1>3, <1>4, SortedAppend DEF Listed
<1>6. Texts' = Texts BY <1>1 DEF Texts
<1>7. Listed' BY <1>1, <1>3, <1>4, <1>5, <1>6 DEF Listed, Sorted, Below, Precede
<1>8. hook'[h].at = "flag" /\ hook'[h].kind = "agent" /\ hook'[h].msg = written
  BY <1>1, <1>3, GoesTo DEF Same
<1>9. (InLine(hook[h]))' BY <1>1, <1>8 DEF InLine
<1> QED BY <1>1, <1>3, <1>7, <1>9

LEMMA OrderSend ==
  ASSUME OneRequest, IInv, OrderInv, NEW h \in Hooks, Send(h) PROVE OrderInv'
<1> DEFINE m == hook[h].msg
           x == <<m, hook[h].part>>
<1>1. /\ UNCHANGED <<written, pending, record, late>>
      /\ hook[h].kind = "agent" /\ hook[h].at = "send" /\ Accepted(x, "agent")
  BY DEF Send, At, redis, ghosts
<1>2. hook[h] \in Requests /\ m \in Msgs /\ x \in Wamids
  BY <1>1, RequestTyped DEF Carries
<1> SUFFICES ASSUME faults' = 0, ~late
             PROVE  /\ Listed'
                    /\ pending' # <<>> => record' # 0 \/ Claims(hook'[h])
                    /\ (InLine(hook[h]))'
  BY <1>1, OrderStep
<1>3. quiet # 2 BY <1>1 DEF IInv, ClosedInv, At
<1>4. UNCHANGED <<failing, faults>> /\ arrived' = Append(arrived, x)
  BY <1>1, <1>3, FaultCounts DEF Accepted
<1>5. /\ Listed /\ pending = <<>> /\ m = written
  BY <1>1, <1>4 DEF OrderInv, InLine
<1>6. Texts \in Seq(Msgs) /\ Texts' = Append(Texts, m)
  BY <1>2, <1>4, TextsTyped, TextsAppend
<1>7. Sorted(Append(Texts, m)) /\ Below(Append(Texts, m), m)
  <2>1. m \in Int BY <1>2 DEF Msgs
  <2> QED BY <1>2, <1>5, <1>6, <2>1, SortedAppend DEF Listed
<1>8. Listed'
  BY <1>1, <1>4, <1>5, <1>6, <1>7, NothingSorted DEF Listed, Sorted, Below, Precede
<1>9. hook'[h].kind = "agent" /\ hook'[h].msg = m /\ hook'[h].at \in {"send", "remember"}
  <2>1. CASE NextPart(h)
    <3>1. hook'[h] = [hook[h] EXCEPT !.part = @ + 1] BY <2>1 DEF NextPart, IInv, TypeOK
    <3> QED BY <1>1, <1>2, <3>1 DEF Requests
  <2>2. CASE Goto(h, "remember") BY <1>1, <2>2, GoesTo DEF Same
  <2> QED BY <2>1, <2>2 DEF Send
<1>10. (InLine(hook[h]))' BY <1>1, <1>5, <1>9 DEF InLine
<1> QED BY <1>1, <1>5, <1>8, <1>10

LEMMA OrderReadList ==
  ASSUME OneRequest, IInv, OrderInv, NEW h \in Hooks, ReadList(h) PROVE OrderInv'
<1>1. /\ UNCHANGED <<written, pending, arrived, failing, record, faults, late>>
      /\ hook[h].kind = "client" /\ hook[h].at = "range"
      /\ hook'[h] = [hook[h] EXCEPT !.batch = pending,
                       !.at = IF pending = <<>> THEN "muted" ELSE "delete"]
  BY DEF ReadList, At, redis, phone, ghosts, IInv, TypeOK
<1> SUFFICES ASSUME faults = 0, ~late
             PROVE  /\ Listed'
                    /\ pending' # <<>> => record' # 0 \/ Claims(hook'[h])
                    /\ (InLine(hook[h]))'
  BY <1>1, OrderStep
<1>2. /\ hook'[h].kind = "client" /\ hook'[h].at \in {"muted", "delete"}
      /\ hook'[h].batch = pending /\ (pending # <<>> => hook'[h].at = "delete")
  BY <1>1, RequestTyped DEF Requests
<1>3. Listed' BY <1>1 DEF OrderInv, Listed, Texts, Sorted, Below, Precede
<1>4. (InLine(hook[h]))' BY <1>1, <1>2 DEF InLine
<1> QED BY <1>1, <1>2, <1>3, <1>4 DEF Claims

LEMMA OrderDeleteList ==
  ASSUME OneRequest, IInv, OrderInv, NEW h \in Hooks, DeleteList(h) PROVE OrderInv'
<1>1. /\ UNCHANGED <<written, arrived, failing, record, faults, late>> /\ pending' = <<>>
      /\ hook[h].kind = "client" /\ hook[h].at = "delete" /\ Goto(h, "deliver")
  BY DEF DeleteList, At, phone, ghosts
<1> SUFFICES ASSUME faults = 0, ~late
             PROVE  /\ Listed'
                    /\ pending' # <<>> => record' # 0 \/ Claims(hook'[h])
                    /\ (InLine(hook[h]))'
  BY <1>1, OrderStep
<1>2. Listed /\ hook[h].batch = pending BY <1>1 DEF OrderInv, InLine
<1>3. /\ hook'[h].kind = "client" /\ hook'[h].at = "deliver" /\ hook'[h].batch = pending
  BY <1>1, <1>2, GoesTo DEF Same
<1>4. Listed' BY <1>1, <1>2, NothingSorted DEF Listed, Texts, Sorted, Below, Precede
<1>5. (InLine(hook[h]))'
  BY <1>1, <1>2, <1>3 DEF Listed, InLine, Texts, Sorted, Below, Precede
<1> QED BY <1>1, <1>4, <1>5

LEMMA OrderDeliver ==
  ASSUME OneRequest, IInv, OrderInv, NEW h \in Hooks, Deliver(h) PROVE OrderInv'
<1> DEFINE b == hook[h].batch
           m == Head(b)
           x == <<m, hook[h].part>>
<1>1. /\ UNCHANGED <<written, pending, record, late>>
      /\ At(h, "client", "deliver") /\ Accepted(x, "client")
  BY DEF Deliver, redis, ghosts
<1>2. /\ hook[h] \in Requests /\ hook[h].kind = "client" /\ hook[h].at = "deliver"
      /\ b \in Seq(Msgs) /\ b # <<>> /\ m \in Msgs /\ x \in Wamids
  BY <1>1, Delivering
<1> SUFFICES ASSUME faults' = 0, ~late
             PROVE  /\ Listed'
                    /\ pending' # <<>> => record' # 0 \/ Claims(hook'[h])
                    /\ (InLine(hook[h]))'
  BY <1>1, OrderStep
<1>3. quiet # 2 BY <1>2 DEF IInv, ClosedInv
<1>4. UNCHANGED <<failing, faults>> /\ arrived' = Append(arrived, x)
  BY <1>1, <1>3, FaultCounts DEF Accepted
<1>5. /\ Listed /\ pending = <<>> /\ Sorted(b) /\ Below(b, written) /\ Precede(Texts, b)
  BY <1>2, <1>4 DEF OrderInv, InLine
<1>6. Texts \in Seq(Msgs) /\ Texts' = Append(Texts, m)
  BY <1>2, <1>4, TextsTyped, TextsAppend
<1>7. /\ Sorted(Tail(b)) /\ \A i \in DOMAIN b : m <= b[i]
      /\ \A i \in DOMAIN Tail(b) : \E j \in DOMAIN b : Tail(b)[i] = b[j]
      /\ \E j \in DOMAIN b : m = b[j]
  BY <1>2, <1>5, SortedTail
<1>8. m <= written /\ Below(Texts, m) BY <1>5, <1>7 DEF Below, Precede
<1>9. Sorted(Append(Texts, m)) /\ Below(Append(Texts, m), written)
  <2>1. written \in Int BY DEF IInv, TypeOK
  <2> QED BY <1>2, <1>5, <1>6, <1>8, <2>1, SortedAppend DEF Listed
<1>10. Precede(Append(Texts, m), b) BY <1>2, <1>5, <1>6, <1>7, PrecedeAppend
<1>11. Listed'
  BY <1>1, <1>4, <1>5, <1>6, <1>9, NothingSorted DEF Listed, Sorted, Below, Precede
<1>12. /\ hook'[h].kind = "client" /\ hook'[h].at \in {"deliver", "unflag"}
       /\ hook'[h].batch \in {b, Tail(b)}
  <2>1. CASE hook[h].part # Parts(m)
    <3>1. hook'[h] = [hook[h] EXCEPT !.part = @ + 1]
      BY <2>1 DEF Deliver, NextPart, IInv, TypeOK
    <3> QED BY <1>2, <3>1 DEF Requests
  <2>2. CASE hook[h].part = Parts(m)
    <3>1. hook'[h] = [hook[h] EXCEPT !.part = 1, !.sent = TRUE, !.batch = Tail(b),
                        !.at = IF Len(b) = 1 THEN "unflag" ELSE "deliver"]
      BY <2>2 DEF Deliver, IInv, TypeOK
    <3> QED BY <1>2, <3>1 DEF Requests
  <2> QED BY <2>1, <2>2
<1>13. ASSUME NEW c \in {b, Tail(b)}
       PROVE  Sorted(c) /\ Below(c, written) /\ Precede(Append(Texts, m), c)
  <2>1. CASE c = b BY <1>5, <1>10, <2>1
  <2>2. CASE c = Tail(b)
    <3>1. Below(Tail(b), written) BY <1>5, <1>7 DEF Below
    <3>2. Precede(Append(Texts, m), Tail(b)) BY <1>7, <1>10 DEF Precede
    <3> QED BY <1>7, <2>2, <3>1, <3>2
  <2> QED BY <1>13, <2>1, <2>2
<1>14. (InLine(hook[h]))'
  <2> DEFINE c == hook'[h].batch
  <2>1. Sorted(c) /\ Below(c, written) /\ Precede(Texts', c) BY <1>6, <1>12, <1>13
  <2> HIDE DEF b, m
  <2> QED BY <1>1, <1>5, <1>12, <2>1 DEF InLine, Sorted, Below, Precede
<1> QED BY <1>1, <1>5, <1>11, <1>14

\* Meta has nothing to report while nothing is late and no call fails.
LEMMA OrderForget ==
  ASSUME OneRequest, IInv, OrderInv, NEW h \in Hooks, Forget(h) PROVE OrderInv'
<1>1. UNCHANGED <<late, faults>> /\ hook[h].kind = "status" BY DEF Forget, At
<1>2. ~(faults = 0 /\ ~late) BY <1>1 DEF OrderInv, InLine
<1> QED BY <1>1, <1>2, OrderSpent DEF IInv, TypeOK

LEMMA OrderFails ==
  ASSUME IInv, NEW h \in Hooks, HookFails(h) PROVE OrderInv'
<1>1. faults' # 0
  BY FaultCounts DEF HookFails, RelayFails, TemplateFails, DeliverFails, Dies
<1> QED BY <1>1, OrderSpent

LEMMA OrderStart ==
  ASSUME OneRequest, IInv, OrderInv, NEW h \in Hooks,
         Relay(h) \/ Inbound(h) \/ \E f \in failing : Status(h, f)
  PROVE  OrderInv'
<1>1. UNCHANGED <<pending, arrived, failing, late, faults>> /\ hook[h].at = "idle"
  BY DEF Relay, Inbound, Status, Starts, redis, phone, ghosts
<1> SUFFICES ASSUME faults = 0, ~late
             PROVE  /\ Listed'
                    /\ pending' # <<>> => record' # 0 \/ Claims(hook'[h])
                    /\ (InLine(hook[h]))'
  BY <1>1, OrderStep
<1>2. Listed /\ (pending # <<>> => record # 0) BY <1>1 DEF OneRequest, OrderInv, Claims
<1>3. CASE Relay(h)
  <2>1. hook'[h] = [IdleHook EXCEPT !.kind = "agent", !.at = "check", !.msg = written + 1]
    BY <1>3, StartsAs DEF Relay
  <2>2. hook'[h].kind = "agent" /\ hook'[h].at = "check" /\ hook'[h].msg = written + 1
    BY <2>1 DEF IdleHook
  <2>3. written' = written + 1 /\ written \in Int /\ record' = record
    BY <1>3, BoundsAssumption DEF Relay, IInv, TypeOK, redis
  <2>4. (InLine(hook[h]))' BY <2>2, <2>3 DEF InLine
  <2>5. Below(Texts, written + 1) /\ Below(pending, written + 1)
    <3>1. Texts \in Seq(Msgs) /\ pending \in Seq(Msgs) BY TextsTyped DEF IInv, TypeOK
    <3>2. /\ \A i \in DOMAIN Texts : Texts[i] \in Msgs
          /\ \A i \in DOMAIN pending : pending[i] \in Msgs
      BY <3>1, LenProperties, ElementOfSeq
    <3> QED BY <1>2, <2>3, <3>2 DEF Listed, Below, Msgs
  <2>6. Listed' BY <1>1, <1>2, <2>3, <2>5 DEF Listed, Texts, Sorted, Below, Precede
  <2> QED BY <1>1, <1>2, <2>3, <2>4, <2>6
<1>4. CASE Inbound(h)
  <2>1. hook'[h] = [IdleHook EXCEPT !.kind = "client", !.at = "range"] /\ written' = written
    BY <1>4, StartsAs DEF Inbound
  <2>2. hook'[h].kind = "client" /\ hook'[h].at = "range" BY <2>1 DEF IdleHook
  <2>3. (InLine(hook[h]))' BY <2>2 DEF InLine
  <2>4. Listed' BY <1>1, <1>2, <2>1 DEF Listed, Texts, Sorted, Below, Precede
  <2> QED BY <2>2, <2>3, <2>4 DEF Claims
<1>5. CASE \E f \in failing : Status(h, f) BY <1>2, <1>5 DEF Listed
<1> QED BY <1>3, <1>4, <1>5

LEMMA OrderElse ==
  ASSUME IInv, OrderInv, ClientWrites \/ TemplateRejected \/ Resolve \/ Time \/ UNCHANGED vars
  PROVE  OrderInv'
<1>1. CASE PendingExpires \/ TemplateRejected
  BY <1>1, FaultCounts, OrderSpent DEF PendingExpires, TemplateRejected
<1>2. CASE ~PendingExpires /\ ~TemplateRejected
  <2>1. UNCHANGED <<written, hook, pending, arrived, failing, faults>>
    BY <1>2 DEF ClientWrites, Resolve, Time, TimePasses, RecordAges,
         GracePasses, TakeoverExpires, FlagExpires, vars, redis, phone, ghosts
  <2>2. (record # 0 => record' # 0) /\ (late => late')
    <3>1. CASE TimePasses BY <3>1 DEF TimePasses, redis
    <3>2. CASE RecordAges BY <3>2 DEF RecordAges, ghosts, IInv, TypeOK
    <3>3. CASE ~TimePasses /\ ~RecordAges
      <4>1. UNCHANGED <<record, late>>
        BY <1>2, <3>3 DEF ClientWrites, Resolve, Time, GracePasses, TakeoverExpires,
             FlagExpires, vars, redis, ghosts
      <4> QED BY <4>1
    <3> QED BY <3>1, <3>2, <3>3
  <2> SUFFICES ASSUME faults = 0, ~late
               PROVE  /\ Listed'
                      /\ pending' # <<>> => record' # 0 \/ \E h \in Hooks : Claims(hook'[h])
                      /\ \A h \in Hooks : (InLine(hook[h]))'
    BY <2>1, <2>2 DEF OrderInv, Claims, InLine
  <2>3. Listed' BY <2>1 DEF OrderInv, Listed, Texts, Sorted, Below, Precede
  <2>4. \A h \in Hooks : (InLine(hook[h]))'
    BY <2>1, <2>2 DEF OrderInv, InLine, Texts, Sorted, Below, Precede
  <2> QED BY <2>1, <2>2, <2>3, <2>4 DEF OrderInv
<1> QED BY <1>1, <1>2

LEMMA OrderNext == ASSUME OneRequest, IInv, OrderInv, [Next]_vars PROVE OrderInv'
<1>1. ASSUME NEW h \in Hooks, HookStep(h) PROVE OrderInv'
  BY <1>1, OrderMoves, OrderCheck, OrderQueue, OrderSend, OrderReadList, OrderDeleteList,
     OrderDeliver, OrderForget DEF HookStep
<1> QED BY <1>1, OrderFails, OrderStart, OrderElse DEF Next

\* window.py:17, with one request at a time: while nothing is late and no call
\* fails, the client has the messages in the order the agent wrote them, whichever
\* of them waited in the list.
THEOREM ReceivedInOrder == ASSUME OneRequest PROVE Spec => []InOrder
<1>1. Init => OrderInv
  <2> SUFFICES ASSUME Init PROVE OrderInv OBVIOUS
  <2>1. pending = <<>> /\ arrived = <<>> /\ failing = {} /\ hook = [h \in Hooks |-> IdleHook]
    BY DEF Init
  <2>2. Texts = <<>> BY <2>1 DEF Texts
  <2>3. Listed BY <2>1, <2>2, NothingSorted DEF Listed
  <2>4. \A h \in Hooks : InLine(hook[h]) BY <2>1 DEF InLine, IdleHook
  <2> QED BY <2>1, <2>3, <2>4 DEF OrderInv
<1>2. IInv /\ OrderInv /\ [Next]_vars => OrderInv' BY OrderNext
<1>3. IInv /\ OrderInv => InOrder
  <2> SUFFICES ASSUME IInv, OrderInv, faults = 0, ~late PROVE IsSorted(Texts, <=)
    BY DEF InOrder, Texts
  <2>1. Sorted(Texts) BY DEF OrderInv, Listed
  <2>2. DOMAIN Texts = 1 .. Len(Texts) BY TextsTyped, LenProperties
  <2> QED BY <2>1, <2>2 DEF Sorted, IsSorted
<1> QED BY Invariance, <1>1, <1>2, <1>3, PTL DEF Spec

-----------------------------------------------------------------------------
(* No text arrives twice (one request at a time) *)

Once(s, y) == \A i, j \in DOMAIN s : s[i] = y /\ s[j] = y => i = j
\* The messages DeliveredOnce speaks of.
Counts(m)  == ~(late /\ m \in Albums)

\* Only what was written is anywhere.
Numbered ==
  /\ \A f \in failing : f.why = "window" /\ f.id # Template
  /\ \A x \in Wamids :
       Arrived(x) \/ Rejected(x) \/ x \in out \/ Contains(pending, x[1]) => x[1] <= written
InHand(k) ==
  /\ k.msg <= written
  /\ k.at = "delete" => k.batch = pending
  /\ k.at = "deliver" => \A x \in Wamids : Contains(k.batch, x[1]) => x[1] <= written
  /\ k.kind = "status" /\ k.at \in {"lookup", "forget"} => Due(<<k.msg, k.part>>)

\* A text that arrived is not in the list, nor can its rejection bring it back
\* there; one in the list is there once.
Resting(x) ==
  /\ Once(arrived, x) /\ Once(pending, x[1])
  /\ Arrived(x) => ~Contains(pending, x[1])
  /\ Arrived(x) \/ Contains(pending, x[1]) => ~Due(x)
\* A text that request k is about to send, to remember or to put in the list is
\* nowhere else.
Relaying(k, x) ==
  k.kind = "agent" /\ k.at \in {"check", "send", "remember"} /\ x[1] = k.msg =>
    /\ x \notin out /\ ~Contains(pending, x[1]) /\ ~(Arrived(x) /\ Rejected(x))
    /\ k.at = "check" \/ (k.at = "send" /\ x[2] >= k.part) => ~Arrived(x) /\ ~Rejected(x)
Flushing(k, x) ==
  k.kind = "client" /\ k.at = "deliver" /\ Contains(k.batch, x[1]) =>
    /\ Once(k.batch, x[1]) /\ ~Contains(pending, x[1]) /\ ~Due(x)
    /\ (x[1] = Head(k.batch) => x[2] >= k.part) => ~Arrived(x)
Queueing(k, x) ==
  k.at = "queue" /\ x[1] = k.msg => ~Arrived(x) /\ ~Contains(pending, x[1]) /\ ~Due(x)

OnceInv ==
  faults = 0 =>
    /\ Numbered /\ \A h \in Hooks : InHand(hook[h])
    /\ \A x \in Wamids : Counts(x[1]) =>
         /\ Resting(x)
         /\ \A h \in Hooks : Relaying(hook[h], x) /\ Flushing(hook[h], x) /\ Queueing(hook[h], x)

LEMMA OnceAppend ==
  ASSUME NEW S, NEW s \in Seq(S), NEW x \in S, NEW y, Once(s, y),
         y = x => ~Contains(s, y)
  PROVE  Once(Append(s, x), y)
<1>1. /\ Len(s) \in Nat /\ Len(Append(s, x)) = Len(s) + 1 /\ Append(s, x) \in Seq(S)
      /\ \A i \in 1 .. Len(s) : Append(s, x)[i] = s[i]
      /\ Append(s, x)[Len(s) + 1] = x
  BY AppendProperties, LenProperties
<1>2. DOMAIN s = 1 .. Len(s) /\ DOMAIN Append(s, x) = 1 .. Len(s) + 1
  BY <1>1, LenProperties
<1> QED BY <1>1, <1>2 DEF Once, Contains

LEMMA OnceTail ==
  ASSUME NEW S, NEW b \in Seq(S), b # <<>>, NEW y, Once(b, y)
  PROVE  Once(Tail(b), y) /\ (y = Head(b) => ~Contains(Tail(b), y))
<1>1. /\ Len(b) \in Nat /\ Len(b) # 0 /\ Len(Tail(b)) = Len(b) - 1 /\ Head(b) = b[1]
      /\ \A i \in 1 .. Len(Tail(b)) : Tail(b)[i] = b[i + 1]
      /\ Tail(b) \in Seq(S)
  BY HeadTailProperties, EmptySeq, LenProperties
<1>2. DOMAIN b = 1 .. Len(b) /\ DOMAIN Tail(b) = 1 .. Len(Tail(b)) BY <1>1, LenProperties
<1>3. \A i \in 1 .. Len(Tail(b)) : i + 1 \in DOMAIN b /\ i + 1 # 1 BY <1>1, <1>2
<1>4. 1 \in DOMAIN b BY <1>1, <1>2
<1>5. Once(Tail(b), y) BY <1>1, <1>2, <1>3 DEF Once
<1>6. y = Head(b) => ~Contains(Tail(b), y) BY <1>1, <1>2, <1>3, <1>4 DEF Once, Contains
<1> QED BY <1>5, <1>6

LEMMA OnceNothing == \A y : Once(<<>>, y)
BY DEF Once

\* A step of the only request.
LEMMA OnceStep ==
  ASSUME OneRequest, NEW h \in Hooks,
         faults' = 0 =>
           /\ Numbered' /\ (InHand(hook[h]))'
           /\ \A x \in Wamids : Counts(x[1])' =>
                /\ Resting(x)' /\ (Relaying(hook[h], x))' /\ (Flushing(hook[h], x))'
                /\ (Queueing(hook[h], x))'
  PROVE  OnceInv'
<1> SUFFICES ASSUME faults' = 0 PROVE
    /\ Numbered' /\ \A g \in Hooks : (InHand(hook[g]))'
    /\ \A x \in Wamids : Counts(x[1])' =>
         /\ Resting(x)'
         /\ \A g \in Hooks : /\ (Relaying(hook[g], x))' /\ (Flushing(hook[g], x))'
                             /\ (Queueing(hook[g], x))'
  BY DEF OnceInv
<1>1. \A g \in Hooks : g = h BY DEF OneRequest
<1> QED BY <1>1

LEMMA OnceSpent == ASSUME faults' # 0 PROVE OnceInv'
BY DEF OnceInv

LEMMA CountsLess == ASSUME late => late', NEW m PROVE Counts(m)' => Counts(m)
BY DEF Counts

\* A step after which the request has no text in its hands.
LEMMA OnceKept ==
  ASSUME OneRequest, OnceInv, NEW h \in Hooks,
         UNCHANGED <<written, pending, arrived, failing, faults, late>>,
         \A x \in Wamids : x \in out' => x \in out,
         hook'[h].at \in Clear, hook'[h].msg <= written
  PROVE  OnceInv'
<1> SUFFICES ASSUME faults = 0
             PROVE  /\ Numbered' /\ (InHand(hook[h]))'
                    /\ \A x \in Wamids : Counts(x[1])' =>
                         /\ Resting(x)' /\ (Relaying(hook[h], x))' /\ (Flushing(hook[h], x))'
                         /\ (Queueing(hook[h], x))'
  BY OnceStep
<1>1. Numbered' BY DEF OnceInv, Numbered, Arrived, Rejected
<1>2. (InHand(hook[h]))' BY DEF InHand, Clear
<1>3. ASSUME NEW x \in Wamids, Counts(x[1])' PROVE Resting(x)'
  <2>1. Resting(x) BY <1>3, CountsLess DEF OnceInv
  <2> QED BY <2>1 DEF Resting, Arrived, Due, Rejected, Once
<1>4. \A x : (Relaying(hook[h], x))' /\ (Flushing(hook[h], x))' /\ (Queueing(hook[h], x))'
  BY DEF Relaying, Flushing, Queueing, Clear
<1> QED BY <1>1, <1>2, <1>3, <1>4

LEMMA OnceMoves ==
  ASSUME OneRequest, IInv, OnceInv, NEW h \in Hooks,
         \/ TakeFlag(h) \/ SendTemplate(h) \/ Unflag(h) \/ SetHuman(h)
         \/ IsMuted(h) \/ ClearExpired(h) \/ TakeTap(h) \/ NotForTheBot(h)
         \/ BotAnswers(h) \/ BotEscalates(h) \/ UnflagRejected(h)
  PROVE  OnceInv'
<1>1. UNCHANGED <<written, pending, arrived, failing, faults, late>>
  BY DEF TakeFlag, SendTemplate, Unflag, SetHuman, IsMuted, ClearExpired, TakeTap,
         NotForTheBot, BotAnswers, BotEscalates, UnflagRejected, redis, phone, ghosts
<1>2. out' = out \/ out' = out \cup {Template}
  BY DEF TakeFlag, SendTemplate, Unflag, SetHuman, IsMuted, ClearExpired, TakeTap,
         NotForTheBot, BotAnswers, BotEscalates, UnflagRejected, redis
<1>3. \A x \in Wamids : x \in out' => x \in out
  BY <1>2 DEF Wamids, Template, Msgs
<1>4. PICK place \in Clear : Goto(h, place)
  BY DEF TakeFlag, SendTemplate, Unflag, SetHuman, IsMuted, ClearExpired, TakeTap,
         NotForTheBot, BotAnswers, BotEscalates, UnflagRejected, Clear,
         AfterReengage, AfterFlush
<1>5. hook'[h].at \in Clear BY <1>4, GoesTo
<1>6. hook'[h].msg = 0 \/ hook'[h].msg = hook[h].msg BY <1>4, GoesTo DEF IdleHook, Same
<1>7. faults = 0 => hook'[h].msg <= written
  <2>1. 0 <= written BY DEF IInv, TypeOK
  <2>2. faults = 0 => hook[h].msg <= written BY DEF OnceInv, InHand
  <2> QED BY <1>6, <2>1, <2>2
<1> QED BY <1>1, <1>3, <1>5, <1>7, OnceKept, OnceSpent

LEMMA OnceCheck ==
  ASSUME OneRequest, IInv, OnceInv, NEW h \in Hooks, Check(h) PROVE OnceInv'
<1>1. /\ UNCHANGED <<written, pending, out, arrived, failing, faults, late>>
      /\ hook[h].kind = "agent" /\ hook[h].at = "check"
  BY DEF Check, At, redis, phone, ghosts
<1> SUFFICES ASSUME faults = 0
             PROVE  /\ Numbered' /\ (InHand(hook[h]))'
                    /\ \A x \in Wamids : Counts(x[1])' =>
                         /\ Resting(x)' /\ (Relaying(hook[h], x))' /\ (Flushing(hook[h], x))'
                         /\ (Queueing(hook[h], x))'
  BY <1>1, OnceStep
<1>2. PICK place \in {"send", "queue"} : Goto(h, place) BY DEF Check
<1>3. hook'[h].at = place /\ hook'[h].kind = "agent" /\ hook'[h].msg = hook[h].msg
  BY <1>1, <1>2, GoesTo DEF Same
<1>4. Numbered' BY <1>1 DEF OnceInv, Numbered, Arrived, Rejected
<1>5. (InHand(hook[h]))' BY <1>1, <1>3 DEF OnceInv, InHand
<1>6. ASSUME NEW x \in Wamids, Counts(x[1])'
      PROVE  /\ Resting(x)' /\ (Relaying(hook[h], x))' /\ (Flushing(hook[h], x))'
             /\ (Queueing(hook[h], x))'
  <2>1. Resting(x) /\ Relaying(hook[h], x) BY <1>1, <1>6, CountsLess DEF OnceInv
  <2>2. Resting(x)' BY <1>1, <2>1 DEF Resting, Arrived, Due, Rejected, Once
  <2>3. x[1] = hook[h].msg =>
          x \notin out /\ ~Contains(pending, x[1]) /\ ~Arrived(x) /\ ~Rejected(x)
    BY <1>1, <2>1 DEF Relaying
  <2>4. (Relaying(hook[h], x))' BY <1>1, <1>3, <2>3 DEF Relaying, Arrived, Rejected
  <2>5. (Queueing(hook[h], x))' BY <1>1, <1>3, <2>3 DEF Queueing, Arrived, Rejected, Due
  <2>6. (Flushing(hook[h], x))' BY <1>3 DEF Flushing
  <2> QED BY <2>2, <2>4, <2>5, <2>6
<1> QED BY <1>4, <1>5, <1>6

LEMMA OnceSend ==
  ASSUME OneRequest, IInv, OnceInv, NEW h \in Hooks, Send(h) PROVE OnceInv'
<1> DEFINE m == hook[h].msg
           w == <<m, hook[h].part>>
<1>1. /\ UNCHANGED <<written, pending, out, late>>
      /\ hook[h].kind = "agent" /\ hook[h].at = "send" /\ Accepted(w, "agent")
  BY DEF Send, At, redis, ghosts
<1>2. /\ hook[h] \in Requests /\ m \in Msgs /\ w \in Wamids /\ hook[h].part \in {1, 2}
      /\ w[1] = m /\ w[2] = hook[h].part
  BY <1>1, RequestTyped DEF Carries
<1> SUFFICES ASSUME faults' = 0
             PROVE  /\ Numbered' /\ (InHand(hook[h]))'
                    /\ \A x \in Wamids : Counts(x[1])' =>
                         /\ Resting(x)' /\ (Relaying(hook[h], x))' /\ (Flushing(hook[h], x))'
                         /\ (Queueing(hook[h], x))'
  BY <1>1, OnceStep
<1>3. /\ faults = 0
      /\ \/ arrived' = Append(arrived, w) /\ failing' = failing
         \/ /\ arrived' = arrived
            /\ failing' = failing \cup {[id |-> w, why |-> "window", sender |-> "agent"]}
  BY <1>1, FaultCounts DEF Accepted
<1>4. arrived \in Seq(Wamids) BY DEF IInv, TypeOK
<1>5. hook'[h].kind = "agent" /\ hook'[h].msg = m
      /\ \/ hook'[h].at = "send" /\ hook'[h].part = hook[h].part + 1
         \/ hook'[h].at = "remember"
  <2>1. CASE NextPart(h)
    <3>1. hook'[h] = [hook[h] EXCEPT !.part = @ + 1] /\ ~(hook[h].part + 1 = hook[h].part)
      BY <1>2, <2>1 DEF NextPart, IInv, TypeOK
    <3> QED BY <1>1, <1>2, <3>1 DEF Requests
  <2>2. CASE Goto(h, "remember") BY <1>1, <2>2, GoesTo DEF Same
  <2> QED BY <2>1, <2>2 DEF Send
<1>6. Numbered /\ m <= written BY <1>3 DEF OnceInv, InHand
<1>7. (InHand(hook[h]))' BY <1>1, <1>5, <1>6 DEF InHand
<1>8. \A x \in Wamids : x[1] = m /\ x[2] >= hook'[h].part /\ hook'[h].at = "send" =>
        x # w /\ x[2] >= hook[h].part
  BY <1>2, <1>5 DEF Wamids
<1>9. \A x \in Wamids : Counts(x[1])' => Resting(x) /\ Relaying(hook[h], x)
  BY <1>1, <1>3, CountsLess DEF OnceInv
<1>10. \A x \in Wamids : Counts(x[1])' /\ x = w =>
         x \notin out /\ ~Contains(pending, x[1]) /\ ~Arrived(x) /\ ~Rejected(x)
  <2> SUFFICES ASSUME NEW x \in Wamids, Counts(x[1])', x = w
               PROVE  x \notin out /\ ~Contains(pending, x[1]) /\ ~Arrived(x) /\ ~Rejected(x)
    OBVIOUS
  <2>1. x[1] = m /\ x[2] >= hook[h].part BY <1>2
  <2> QED BY <1>1, <1>9, <2>1 DEF Relaying
<1>11. \A x : (Flushing(hook[h], x))' /\ (Queueing(hook[h], x))'
  BY <1>5 DEF Flushing, Queueing
<1>12. CASE arrived' = Append(arrived, w) /\ failing' = failing
  <2>1. \A x : Arrived(x)' <=> Arrived(x) \/ x = w
    BY <1>2, <1>4, <1>12, ContainsAppend DEF Arrived
  <2>2. \A x : (Rejected(x)' <=> Rejected(x)) /\ (Due(x)' <=> Due(x))
    BY <1>1, <1>12 DEF Rejected, Due
  <2>3. Numbered' BY <1>1, <1>2, <1>6, <1>12, <2>1, <2>2 DEF Numbered
  <2>4. ASSUME NEW x \in Wamids, Counts(x[1])' PROVE Resting(x)' /\ (Relaying(hook[h], x))'
    <3>1. Resting(x) /\ Relaying(hook[h], x) BY <1>9, <2>4
    <3>2. x = w => x \notin out /\ ~Contains(pending, x[1]) /\ ~Arrived(x) /\ ~Rejected(x)
      BY <1>10, <2>4
    <3>3. Once(arrived, x)'
      <4>1. Once(Append(arrived, w), x)
        BY <1>2, <1>4, <3>1, <3>2, OnceAppend DEF Resting, Arrived
      <4> QED BY <1>12, <4>1 DEF Once
    <3>4. Once(pending, x[1])' BY <1>1, <3>1 DEF Resting, Once
    <3>5. Resting(x)' BY <1>1, <2>1, <2>2, <3>1, <3>2, <3>3, <3>4 DEF Resting, Due
    <3>6. (Relaying(hook[h], x))'
      BY <1>1, <1>5, <1>8, <2>1, <2>2, <3>1, <3>2 DEF Relaying
    <3> QED BY <3>5, <3>6
  <2> QED BY <1>7, <1>11, <2>3, <2>4
<1>13. CASE /\ arrived' = arrived
            /\ failing' = failing \cup {[id |-> w, why |-> "window", sender |-> "agent"]}
  <2> DEFINE f == [id |-> w, why |-> "window", sender |-> "agent"]
  <2>1. failing' = failing \cup {f} /\ f.id = w /\ f.why = "window" BY <1>13
  <2> HIDE DEF f
  <2>2. \A x : Rejected(x)' <=> Rejected(x) \/ x = w BY <2>1 DEF Rejected
  <2>3. \A x : Arrived(x)' <=> Arrived(x) BY <1>13 DEF Arrived
  <2>4. w # Template BY <1>2 DEF Template, Msgs
  <2>5. Numbered' BY <1>1, <1>2, <1>6, <2>1, <2>2, <2>3, <2>4 DEF Numbered
  <2>6. ASSUME NEW x \in Wamids, Counts(x[1])' PROVE Resting(x)' /\ (Relaying(hook[h], x))'
    <3>1. Resting(x) /\ Relaying(hook[h], x) BY <1>9, <2>6
    <3>2. x = w => x \notin out /\ ~Contains(pending, x[1]) /\ ~Arrived(x) /\ ~Rejected(x)
      BY <1>10, <2>6
    <3>3. Once(arrived, x)' /\ Once(pending, x[1])' BY <1>1, <1>13, <3>1 DEF Resting, Once
    <3>4. Due(x)' <=> Due(x) BY <1>1, <2>2, <3>2 DEF Due
    <3>5. Resting(x)' BY <1>1, <2>3, <3>1, <3>3, <3>4 DEF Resting
    <3>6. (Relaying(hook[h], x))'
      BY <1>1, <1>5, <1>8, <2>2, <2>3, <3>1, <3>2 DEF Relaying
    <3> QED BY <3>5, <3>6
  <2> QED BY <1>7, <1>11, <2>5, <2>6
<1> QED BY <1>3, <1>12, <1>13

LEMMA OnceRemember ==
  ASSUME OneRequest, IInv, OnceInv, NEW h \in Hooks, Remember(h) PROVE OnceInv'
<1>1. /\ UNCHANGED <<written, pending, arrived, failing, faults, late>>
      /\ hook[h].kind = "agent" /\ hook[h].at = "remember" /\ Goto(h, "human")
      /\ out' = out \cup {x \in Wamids : x[1] = hook[h].msg}
  BY DEF Remember, At, phone, ghosts
<1> SUFFICES ASSUME faults = 0
             PROVE  /\ Numbered' /\ (InHand(hook[h]))'
                    /\ \A x \in Wamids : Counts(x[1])' =>
                         /\ Resting(x)' /\ (Relaying(hook[h], x))' /\ (Flushing(hook[h], x))'
                         /\ (Queueing(hook[h], x))'
  BY <1>1, OnceStep
<1>2. hook'[h].at = "human" /\ hook'[h].msg = hook[h].msg BY <1>1, GoesTo DEF Same
<1>3. Numbered /\ hook[h].msg <= written BY DEF OnceInv, InHand
<1>4. Numbered' BY <1>1, <1>3 DEF Numbered, Arrived, Rejected
<1>5. (InHand(hook[h]))' BY <1>1, <1>2, <1>3 DEF InHand
<1>6. \A x : (Relaying(hook[h], x))' /\ (Flushing(hook[h], x))' /\ (Queueing(hook[h], x))'
  BY <1>2 DEF Relaying, Flushing, Queueing
<1>7. ASSUME NEW x \in Wamids, Counts(x[1])' PROVE Resting(x)'
  <2>1. Resting(x) /\ Relaying(hook[h], x) BY <1>1, <1>7, CountsLess DEF OnceInv
  <2>2. CASE x[1] = hook[h].msg
    <3>1. ~Contains(pending, x[1]) /\ ~(Arrived(x) /\ Rejected(x))
      BY <1>1, <2>1, <2>2 DEF Relaying
    <3> QED BY <1>1, <2>1, <3>1 DEF Resting, Arrived, Due, Rejected, Once
  <2>3. CASE x[1] # hook[h].msg
    <3>1. x \in out' <=> x \in out BY <1>1, <2>3
    <3> QED BY <1>1, <2>1, <3>1 DEF Resting, Arrived, Due, Rejected, Once
  <2> QED BY <2>2, <2>3
<1> QED BY <1>4, <1>5, <1>6, <1>7

LEMMA OnceQueue ==
  ASSUME OneRequest, IInv, OnceInv, NEW h \in Hooks, Queue(h) PROVE OnceInv'
<1> DEFINE m == hook[h].msg
<1>1. /\ UNCHANGED <<written, out, arrived, failing, faults, late>>
      /\ hook[h].at = "queue" /\ Goto(h, "flag") /\ pending' = Append(pending, m)
  BY DEF Queue, Pushed, phone, ghosts
<1> SUFFICES ASSUME faults = 0
             PROVE  /\ Numbered' /\ (InHand(hook[h]))'
                    /\ \A x \in Wamids : Counts(x[1])' =>
                         /\ Resting(x)' /\ (Relaying(hook[h], x))' /\ (Flushing(hook[h], x))'
                         /\ (Queueing(hook[h], x))'
  BY <1>1, OnceStep
<1>2. pending \in Seq(Msgs) /\ m \in Msgs
  <2>1. pending \in Seq(Msgs) BY DEF IInv, TypeOK
  <2> QED BY <1>1, <2>1, RequestTyped DEF Carries
<1>3. \A n : Contains(pending, n)' <=> Contains(pending, n) \/ n = m
  BY <1>1, <1>2, ContainsAppend
<1>4. hook'[h].at = "flag" /\ hook'[h].msg = m BY <1>1, GoesTo DEF Same
<1>5. Numbered /\ m <= written BY DEF OnceInv, InHand
<1>6. Numbered' BY <1>1, <1>3, <1>5 DEF Numbered, Arrived, Rejected
<1>7. (InHand(hook[h]))' BY <1>1, <1>4, <1>5 DEF InHand
<1>8. \A x : (Relaying(hook[h], x))' /\ (Flushing(hook[h], x))' /\ (Queueing(hook[h], x))'
  BY <1>4 DEF Relaying, Flushing, Queueing
<1>9. ASSUME NEW x \in Wamids, Counts(x[1])' PROVE Resting(x)'
  <2>1. Resting(x) /\ Queueing(hook[h], x) BY <1>1, <1>9, CountsLess DEF OnceInv
  <2>2. x[1] = m => ~Arrived(x) /\ ~Contains(pending, x[1]) /\ ~Due(x)
    BY <1>1, <2>1 DEF Queueing
  <2>3. Once(pending, x[1])'
    <3>1. Once(Append(pending, m), x[1]) BY <1>2, <2>1, <2>2, OnceAppend DEF Resting
    <3> QED BY <1>1, <3>1 DEF Once
  <2>4. /\ Once(arrived, x)' /\ (Arrived(x)' <=> Arrived(x)) /\ (Due(x)' <=> Due(x))
    BY <1>1, <2>1 DEF Resting, Once, Arrived, Due, Rejected
  <2> QED BY <1>3, <2>1, <2>2, <2>3, <2>4 DEF Resting
<1> QED BY <1>6, <1>7, <1>8, <1>9

LEMMA OnceReadList ==
  ASSUME OneRequest, IInv, OnceInv, NEW h \in Hooks, ReadList(h) PROVE OnceInv'
<1>1. /\ UNCHANGED <<written, pending, out, arrived, failing, faults, late>>
      /\ hook[h].kind = "client" /\ hook[h].at = "range"
      /\ hook'[h] = [hook[h] EXCEPT !.batch = pending,
                       !.at = IF pending = <<>> THEN "muted" ELSE "delete"]
  BY DEF ReadList, At, redis, phone, ghosts, IInv, TypeOK
<1> SUFFICES ASSUME faults = 0
             PROVE  /\ Numbered' /\ (InHand(hook[h]))'
                    /\ \A x \in Wamids : Counts(x[1])' =>
                         /\ Resting(x)' /\ (Relaying(hook[h], x))' /\ (Flushing(hook[h], x))'
                         /\ (Queueing(hook[h], x))'
  BY <1>1, OnceStep
<1>2. /\ hook'[h].kind = "client" /\ hook'[h].at \in {"muted", "delete"}
      /\ hook'[h].batch = pending /\ hook'[h].msg = hook[h].msg
  BY <1>1, RequestTyped DEF Requests
<1>3. Numbered' BY <1>1 DEF OnceInv, Numbered, Arrived, Rejected
<1>4. (InHand(hook[h]))' BY <1>1, <1>2 DEF OnceInv, InHand
<1>5. \A x : (Relaying(hook[h], x))' /\ (Flushing(hook[h], x))' /\ (Queueing(hook[h], x))'
  BY <1>2 DEF Relaying, Flushing, Queueing
<1>6. ASSUME NEW x \in Wamids, Counts(x[1])' PROVE Resting(x)'
  <2>1. Resting(x) BY <1>1, <1>6, CountsLess DEF OnceInv
  <2> QED BY <1>1, <2>1 DEF Resting, Arrived, Due, Rejected, Once
<1> QED BY <1>3, <1>4, <1>5, <1>6

LEMMA OnceDeleteList ==
  ASSUME OneRequest, IInv, OnceInv, NEW h \in Hooks, DeleteList(h) PROVE OnceInv'
<1>1. /\ UNCHANGED <<written, out, arrived, failing, faults, late>> /\ pending' = <<>>
      /\ hook[h].kind = "client" /\ hook[h].at = "delete" /\ Goto(h, "deliver")
  BY DEF DeleteList, At, phone, ghosts
<1> SUFFICES ASSUME faults = 0
             PROVE  /\ Numbered' /\ (InHand(hook[h]))'
                    /\ \A x \in Wamids : Counts(x[1])' =>
                         /\ Resting(x)' /\ (Relaying(hook[h], x))' /\ (Flushing(hook[h], x))'
                         /\ (Queueing(hook[h], x))'
  BY <1>1, OnceStep
<1>2. Numbered /\ hook[h].batch = pending /\ hook[h].msg <= written
  BY <1>1 DEF OnceInv, InHand
<1>3. /\ hook'[h].kind = "client" /\ hook'[h].at = "deliver" /\ hook'[h].batch = pending
      /\ hook'[h].msg = hook[h].msg
  BY <1>1, <1>2, GoesTo DEF Same
<1>4. \A n : ~Contains(pending, n)' BY <1>1, ContainsNothing
<1>5. Numbered' BY <1>1, <1>2, <1>4 DEF Numbered, Arrived, Rejected
<1>6. (InHand(hook[h]))' BY <1>1, <1>2, <1>3 DEF InHand, Numbered
<1>7. ASSUME NEW x \in Wamids, Counts(x[1])'
      PROVE  Resting(x)' /\ (Flushing(hook[h], x))'
  <2>1. Resting(x) BY <1>1, <1>7, CountsLess DEF OnceInv
  <2>2. (Arrived(x)' <=> Arrived(x)) /\ (Due(x)' <=> Due(x)) /\ Once(arrived, x)'
    BY <1>1, <2>1 DEF Resting, Arrived, Due, Rejected, Once
  <2>3. Once(pending, x[1])' BY <1>1, OnceNothing DEF Once
  <2>4. Resting(x)' BY <1>4, <2>1, <2>2, <2>3 DEF Resting
  <2>5. Contains(hook'[h].batch, x[1]) =>
          Once(hook'[h].batch, x[1]) /\ ~Contains(pending, x[1])' /\ ~Due(x)' /\ ~Arrived(x)'
    BY <1>3, <1>4, <2>1, <2>2 DEF Resting
  <2>6. (Flushing(hook[h], x))' BY <2>5 DEF Flushing, Once
  <2> QED BY <2>4, <2>6
<1>8. \A x : (Relaying(hook[h], x))' /\ (Queueing(hook[h], x))'
  BY <1>3 DEF Relaying, Queueing
<1> QED BY <1>5, <1>6, <1>7, <1>8

LEMMA OnceDeliver ==
  ASSUME OneRequest, IInv, OnceInv, NEW h \in Hooks, Deliver(h) PROVE OnceInv'
<1> DEFINE b == hook[h].batch
           m == Head(b)
           w == <<m, hook[h].part>>
<1>1. /\ UNCHANGED <<written, pending, out, late>>
      /\ At(h, "client", "deliver") /\ Accepted(w, "client")
  BY DEF Deliver, redis, ghosts
<1>2. /\ hook[h] \in Requests /\ hook[h].kind = "client" /\ hook[h].at = "deliver"
      /\ b \in Seq(Msgs) /\ b # <<>> /\ m \in Msgs /\ w \in Wamids
      /\ hook[h].part \in {1, 2} /\ w[1] = m /\ w[2] = hook[h].part
  BY <1>1, Delivering, RequestTyped
<1> SUFFICES ASSUME faults' = 0
             PROVE  /\ Numbered' /\ (InHand(hook[h]))'
                    /\ \A x \in Wamids : Counts(x[1])' =>
                         /\ Resting(x)' /\ (Relaying(hook[h], x))' /\ (Flushing(hook[h], x))'
                         /\ (Queueing(hook[h], x))'
  BY <1>1, OnceStep
<1>3. quiet # 2 BY <1>2 DEF IInv, ClosedInv
<1>4. failing' = failing /\ faults = 0 /\ arrived' = Append(arrived, w)
  BY <1>1, <1>3, FaultCounts DEF Accepted
<1>5. arrived \in Seq(Wamids) BY DEF IInv, TypeOK
<1>6. /\ \A x : Arrived(x)' <=> Arrived(x) \/ x = w
      /\ \A x : Due(x)' <=> Due(x)
      /\ \A x : Rejected(x)' <=> Rejected(x)
  BY <1>1, <1>2, <1>4, <1>5, ContainsAppend DEF Arrived, Rejected, Due
<1>7. /\ hook'[h].kind = "client" /\ hook'[h].msg = hook[h].msg
      /\ \/ /\ hook'[h].at = "deliver" /\ hook'[h].part = hook[h].part + 1
            /\ hook'[h].batch = b
         \/ hook'[h].at \in {"deliver", "unflag"} /\ hook'[h].batch = Tail(b)
  <2>1. CASE hook[h].part # Parts(m)
    <3>1. hook'[h] = [hook[h] EXCEPT !.part = @ + 1]
      BY <2>1 DEF Deliver, NextPart, IInv, TypeOK
    <3> QED BY <1>2, <3>1 DEF Requests
  <2>2. CASE hook[h].part = Parts(m)
    <3>1. hook'[h] = [hook[h] EXCEPT !.part = 1, !.sent = TRUE, !.batch = Tail(b),
                        !.at = IF Len(b) = 1 THEN "unflag" ELSE "deliver"]
      BY <2>2 DEF Deliver, IInv, TypeOK
    <3> QED BY <1>2, <3>1 DEF Requests
  <2> QED BY <2>1, <2>2
<1>8. \A n : Contains(b, n) <=> n = m \/ Contains(Tail(b), n) BY <1>2, ContainsHead
<1>9. /\ Numbered /\ hook[h].msg <= written
      /\ \A x \in Wamids : Contains(b, x[1]) => x[1] <= written
  BY <1>2, <1>4 DEF OnceInv, InHand
<1>10. m <= written BY <1>2, <1>8, <1>9
<1>11. Numbered' BY <1>1, <1>2, <1>4, <1>6, <1>9, <1>10 DEF Numbered
<1>12. (InHand(hook[h]))' BY <1>1, <1>7, <1>8, <1>9 DEF InHand
<1>13. \A x : (Relaying(hook[h], x))' /\ (Queueing(hook[h], x))'
  BY <1>7 DEF Relaying, Queueing
<1>14. ASSUME NEW x \in Wamids, Counts(x[1])'
       PROVE  Resting(x)' /\ (Flushing(hook[h], x))'
  <2>1. Resting(x) /\ Flushing(hook[h], x) BY <1>1, <1>4, <1>14, CountsLess DEF OnceInv
  <2>2. Contains(b, x[1]) =>
          /\ Once(b, x[1]) /\ ~Contains(pending, x[1]) /\ ~Due(x)
          /\ (x[1] = m => x[2] >= hook[h].part) => ~Arrived(x)
    BY <1>2, <2>1 DEF Flushing
  <2>3. x = w => ~Arrived(x) /\ ~Contains(pending, x[1]) /\ ~Due(x)
    BY <1>2, <1>8, <2>2
  <2>4. Once(arrived, x)'
    <3>1. Once(Append(arrived, w), x)
      BY <1>2, <1>5, <2>1, <2>3, OnceAppend DEF Resting, Arrived
    <3> QED BY <1>4, <3>1 DEF Once
  <2>5. Once(pending, x[1])' BY <1>1, <2>1 DEF Resting, Once
  <2>6. Resting(x)' BY <1>1, <1>6, <2>1, <2>3, <2>4, <2>5 DEF Resting
  <2>7. CASE hook'[h].part = hook[h].part + 1 /\ hook'[h].batch = b
    <3>1. x[1] = m /\ x[2] >= hook'[h].part => x[2] >= hook[h].part /\ x # w
      BY <1>2, <2>7 DEF Wamids
    <3>2. x[1] # m => x # w BY <1>2
    <3>3. Contains(b, x[1]) =>
            /\ Once(b, x[1]) /\ ~Contains(pending, x[1]) /\ ~Due(x)
            /\ (x[1] = m => x[2] >= hook'[h].part) => ~Arrived(x)'
      BY <1>6, <2>2, <3>1, <3>2
    <3> QED BY <1>1, <1>6, <2>6, <2>7, <3>3 DEF Flushing, Once
  <2>8. CASE hook'[h].batch = Tail(b)
    <3>1. Contains(Tail(b), x[1]) =>
            Once(Tail(b), x[1]) /\ x[1] # m /\ ~Contains(pending, x[1]) /\ ~Due(x) /\ ~Arrived(x)
      BY <1>2, <1>8, <2>2, OnceTail
    <3>2. x[1] # m => x # w BY <1>2
    <3> QED BY <1>1, <1>6, <2>6, <2>8, <3>1, <3>2 DEF Flushing, Once
  <2> QED BY <1>7, <2>7, <2>8
<1> QED BY <1>11, <1>12, <1>13, <1>14

LEMMA OnceLookup ==
  ASSUME OneRequest, IInv, OnceInv, NEW h \in Hooks, Lookup(h) PROVE OnceInv'
<1>1. /\ UNCHANGED <<written, pending, out, arrived, failing, faults, late>>
      /\ hook[h].kind = "status" /\ hook[h].at = "lookup"
  BY DEF Lookup, At, redis, phone, ghosts
<1>2. PICK place \in {"forget", "idle"} : Goto(h, place) BY DEF Lookup
<1> SUFFICES ASSUME faults = 0
             PROVE  /\ Numbered' /\ (InHand(hook[h]))'
                    /\ \A x \in Wamids : Counts(x[1])' =>
                         /\ Resting(x)' /\ (Relaying(hook[h], x))' /\ (Flushing(hook[h], x))'
                         /\ (Queueing(hook[h], x))'
  BY <1>1, OnceStep
<1>3. Numbered' BY <1>1 DEF OnceInv, Numbered, Arrived, Rejected
<1>4. hook'[h].at = place /\ (place # "idle" => Same(hook[h], hook'[h])) BY <1>2, GoesTo
<1>5. hook[h].msg <= written /\ Due(<<hook[h].msg, hook[h].part>>)
  BY <1>1 DEF OnceInv, InHand
<1>6. (InHand(hook[h]))'
  <2>1. CASE place = "idle"
    <3>1. hook'[h] = IdleHook BY <1>2, <2>1, GoesTo
    <3>2. 0 <= written BY DEF IInv, TypeOK
    <3> QED BY <1>1, <3>1, <3>2 DEF InHand, IdleHook
  <2>2. CASE place = "forget"
    BY <1>1, <1>4, <1>5, <2>2 DEF InHand, Same, Due, Rejected
  <2> QED BY <2>1, <2>2
<1>7. \A x : (Relaying(hook[h], x))' /\ (Flushing(hook[h], x))' /\ (Queueing(hook[h], x))'
  BY <1>4 DEF Relaying, Flushing, Queueing
<1>8. ASSUME NEW x \in Wamids, Counts(x[1])' PROVE Resting(x)'
  <2>1. Resting(x) BY <1>1, <1>8, CountsLess DEF OnceInv
  <2> QED BY <1>1, <2>1 DEF Resting, Arrived, Due, Rejected, Once
<1> QED BY <1>3, <1>6, <1>7, <1>8

\* The rejected text goes back to the list only once: its record is gone.
LEMMA OnceForget ==
  ASSUME OneRequest, IInv, OnceInv, NEW h \in Hooks, Forget(h) PROVE OnceInv'
<1> DEFINE w == <<hook[h].msg, hook[h].part>>
<1>1. /\ UNCHANGED <<written, pending, arrived, failing, faults, late>>
      /\ hook[h].kind = "status" /\ hook[h].at = "forget" /\ out' = out \ {w}
  BY DEF Forget, Forgotten, At, Wamid, phone
<1>2. PICK place \in {"unflag", "queue", "idle"} :
        Goto(h, place) /\ (place = "queue" => w # Template)
  BY DEF Forget, WhatFailed, Wamid
<1>3. hook'[h].at = place /\ (place # "idle" => Same(hook[h], hook'[h])) BY <1>2, GoesTo
<1>4. CASE place # "queue"
  <2>1. hook'[h].at \in Clear BY <1>3, <1>4 DEF Clear
  <2>2. hook'[h].msg = 0 \/ hook'[h].msg = hook[h].msg
    BY <1>2, GoesTo DEF IdleHook, Same
  <2>3. faults = 0 => hook'[h].msg <= written
    <3>1. 0 <= written BY DEF IInv, TypeOK
    <3>2. faults = 0 => hook[h].msg <= written BY DEF OnceInv, InHand
    <3> QED BY <2>2, <3>1, <3>2
  <2> QED BY <1>1, <2>1, <2>3, OnceKept, OnceSpent
<1>5. CASE place = "queue"
  <2> SUFFICES ASSUME faults = 0
               PROVE  /\ Numbered' /\ (InHand(hook[h]))'
                      /\ \A x \in Wamids : Counts(x[1])' =>
                           /\ Resting(x)' /\ (Relaying(hook[h], x))' /\ (Flushing(hook[h], x))'
                           /\ (Queueing(hook[h], x))'
    BY <1>1, OnceStep
  <2>1. hook'[h].at = "queue" /\ hook'[h].kind = "status" /\ hook'[h].msg = hook[h].msg
    BY <1>1, <1>3, <1>5 DEF Same
  <2>2. Numbered' BY <1>1 DEF OnceInv, Numbered, Arrived, Rejected
  <2>3. hook[h].msg <= written /\ Due(w) BY <1>1 DEF OnceInv, InHand
  <2>4. (InHand(hook[h]))' BY <1>1, <2>1, <2>3 DEF InHand
  <2>5. late
    BY <2>3 DEF OnceInv, Numbered, IInv, WithinWindow, Due, Rejected
  <2>6. w \in Wamids BY <1>1, <1>2, <1>5, RequestTyped DEF Carries
  <2>7. ASSUME NEW x \in Wamids, Counts(x[1])'
        PROVE  Resting(x)' /\ (Queueing(hook[h], x))'
    <3>1. Resting(x) BY <1>1, <2>7, CountsLess DEF OnceInv
    <3>2. Resting(x)' BY <1>1, <3>1 DEF Resting, Arrived, Due, Rejected, Once
    <3>3. ASSUME x[1] = hook[h].msg PROVE x = w
      <4>1. x[1] \notin Albums BY <1>1, <2>5, <2>7 DEF Counts
      <4>2. w[1] = x[1] /\ w[2] = hook[h].part BY <3>3
      <4>3. x[2] = 1 /\ w[2] = 1 BY <2>6, <4>1, <4>2 DEF Wamids, Parts
      <4> QED BY <2>6, <4>2, <4>3 DEF Wamids
    <3>4. x[1] = hook[h].msg => ~Arrived(x) /\ ~Contains(pending, x[1]) /\ x \notin out'
      BY <1>1, <2>3, <3>1, <3>3 DEF Resting
    <3>5. (Queueing(hook[h], x))' BY <1>1, <2>1, <3>4 DEF Queueing, Arrived, Due
    <3> QED BY <3>2, <3>5
  <2>8. \A x : (Relaying(hook[h], x))' /\ (Flushing(hook[h], x))'
    BY <2>1 DEF Relaying, Flushing
  <2> QED BY <2>2, <2>4, <2>7, <2>8
<1> QED BY <1>4, <1>5

LEMMA OnceFails ==
  ASSUME IInv, NEW h \in Hooks, HookFails(h) PROVE OnceInv'
<1>1. faults' # 0
  BY FaultCounts DEF HookFails, RelayFails, TemplateFails, DeliverFails, Dies
<1> QED BY <1>1, OnceSpent

LEMMA OnceStart ==
  ASSUME OneRequest, IInv, OnceInv, NEW h \in Hooks,
         Relay(h) \/ Inbound(h) \/ \E f \in failing : Status(h, f)
  PROVE  OnceInv'
<1>1. UNCHANGED <<pending, out, arrived, failing, late, faults>>
  BY DEF Relay, Inbound, Status, Starts, redis, phone, ghosts
<1> SUFFICES ASSUME faults = 0
             PROVE  /\ Numbered' /\ (InHand(hook[h]))'
                    /\ \A x \in Wamids : Counts(x[1])' =>
                         /\ Resting(x)' /\ (Relaying(hook[h], x))' /\ (Flushing(hook[h], x))'
                         /\ (Queueing(hook[h], x))'
  BY <1>1, OnceStep
<1>2. Numbered /\ written \in Int BY DEF OnceInv, IInv, TypeOK
<1>3. \A x \in Wamids : Counts(x[1])' => Resting(x)'
  <2> SUFFICES ASSUME NEW x \in Wamids, Counts(x[1])' PROVE Resting(x)' OBVIOUS
  <2>1. Resting(x) BY <1>1, CountsLess DEF OnceInv
  <2> QED BY <1>1, <2>1 DEF Resting, Arrived, Due, Rejected, Once
<1>4. CASE Relay(h)
  <2>1. /\ hook'[h] = [IdleHook EXCEPT !.kind = "agent", !.at = "check", !.msg = written + 1]
        /\ written' = written + 1
    BY <1>4, StartsAs DEF Relay
  <2>2. hook'[h].kind = "agent" /\ hook'[h].at = "check" /\ hook'[h].msg = written + 1
    BY <2>1 DEF IdleHook
  <2>3. (InHand(hook[h]))' BY <1>2, <2>1, <2>2 DEF InHand
  <2>4. Numbered'
    <3>1. \A x \in Wamids : x[1] \in Int BY DEF Wamids, Msgs
    <3> QED BY <1>1, <1>2, <2>1, <3>1 DEF Numbered, Arrived, Rejected
  <2>5. ASSUME NEW x \in Wamids PROVE (Relaying(hook[h], x))'
    <3>1. x[1] = written + 1 =>
            x \notin out /\ ~Contains(pending, x[1]) /\ ~Arrived(x) /\ ~Rejected(x)
      BY <1>2 DEF Numbered
    <3> QED BY <1>1, <2>2, <3>1 DEF Relaying, Arrived, Rejected
  <2>6. \A x : (Flushing(hook[h], x))' /\ (Queueing(hook[h], x))'
    BY <2>2 DEF Flushing, Queueing
  <2> QED BY <1>3, <2>3, <2>4, <2>5, <2>6
<1>5. CASE Inbound(h)
  <2>1. hook'[h] = [IdleHook EXCEPT !.kind = "client", !.at = "range"] /\ written' = written
    BY <1>5, StartsAs DEF Inbound
  <2>2. hook'[h].kind = "client" /\ hook'[h].at = "range" /\ hook'[h].msg = 0
    BY <2>1 DEF IdleHook
  <2>3. 0 <= written BY DEF IInv, TypeOK
  <2>4. (InHand(hook[h]))' BY <2>1, <2>2, <2>3 DEF InHand
  <2>5. \A x : (Relaying(hook[h], x))' /\ (Flushing(hook[h], x))' /\ (Queueing(hook[h], x))'
    BY <2>2 DEF Relaying, Flushing, Queueing
  <2>6. Numbered' BY <1>1, <1>2, <2>1 DEF Numbered, Arrived, Rejected
  <2> QED BY <1>3, <2>4, <2>5, <2>6
<1>6. ASSUME NEW f \in failing, Status(h, f)
      PROVE  /\ Numbered' /\ (InHand(hook[h]))'
             /\ \A x : (Relaying(hook[h], x))' /\ (Flushing(hook[h], x))' /\ (Queueing(hook[h], x))'
  <2>1. /\ hook'[h] = [IdleHook EXCEPT !.kind = "status", !.at = "lookup",
                         !.msg = f.id[1], !.part = f.id[2], !.why = f.why]
        /\ written' = written /\ f.id \in out
    BY <1>6, StartsAs DEF Status
  <2>2. /\ hook'[h].kind = "status" /\ hook'[h].at = "lookup"
        /\ hook'[h].msg = f.id[1] /\ hook'[h].part = f.id[2]
    BY <2>1 DEF IdleHook
  <2>3. f.id \in Wamids
    <3>1. f.id \in Wamids \cup {Template} BY DEF IInv, TypeOK
    <3> QED BY <1>2, <3>1 DEF Numbered
  <2>4. f.id = <<f.id[1], f.id[2]>> BY <2>3 DEF Wamids
  <2>5. Due(f.id) /\ f.id[1] <= written BY <1>2, <2>1, <2>3 DEF Due, Rejected, Numbered
  <2>6. (InHand(hook[h]))' BY <1>1, <2>1, <2>2, <2>4, <2>5 DEF InHand, Due, Rejected
  <2>7. \A x : (Relaying(hook[h], x))' /\ (Flushing(hook[h], x))' /\ (Queueing(hook[h], x))'
    BY <2>2 DEF Relaying, Flushing, Queueing
  <2>8. Numbered' BY <1>1, <1>2, <2>1 DEF Numbered, Arrived, Rejected
  <2> QED BY <2>6, <2>7, <2>8
<1> QED BY <1>3, <1>4, <1>5, <1>6

LEMMA OnceElse ==
  ASSUME IInv, OnceInv, ClientWrites \/ TemplateRejected \/ Resolve \/ Time \/ UNCHANGED vars
  PROVE  OnceInv'
<1>1. CASE PendingExpires \/ TemplateRejected
  BY <1>1, FaultCounts, OnceSpent DEF PendingExpires, TemplateRejected
<1>2. CASE ~PendingExpires /\ ~TemplateRejected
  <2>1. UNCHANGED <<written, hook, pending, out, arrived, failing, faults>>
    BY <1>2 DEF ClientWrites, Resolve, Time, TimePasses, RecordAges,
         GracePasses, TakeoverExpires, FlagExpires, vars, redis, phone, ghosts
  <2>2. late => late'
    <3>1. CASE TimePasses BY <3>1 DEF TimePasses
    <3>2. CASE ~TimePasses
      <4>1. UNCHANGED late
        BY <1>2, <3>2 DEF ClientWrites, Resolve, Time, RecordAges, GracePasses,
             TakeoverExpires, FlagExpires, vars, ghosts
      <4> QED BY <4>1
    <3> QED BY <3>1, <3>2
  <2> SUFFICES ASSUME faults = 0
               PROVE  /\ Numbered' /\ \A h \in Hooks : (InHand(hook[h]))'
                      /\ \A x \in Wamids : Counts(x[1])' =>
                           /\ Resting(x)'
                           /\ \A h \in Hooks :
                                /\ (Relaying(hook[h], x))' /\ (Flushing(hook[h], x))'
                                /\ (Queueing(hook[h], x))'
    BY <2>1 DEF OnceInv
  <2>3. Numbered' BY <2>1 DEF OnceInv, Numbered, Arrived, Rejected
  <2>4. \A h \in Hooks : (InHand(hook[h]))' BY <2>1 DEF OnceInv, InHand, Due, Rejected
  <2>5. ASSUME NEW x \in Wamids, Counts(x[1])'
        PROVE  /\ Resting(x)'
               /\ \A h \in Hooks : /\ (Relaying(hook[h], x))' /\ (Flushing(hook[h], x))'
                                   /\ (Queueing(hook[h], x))'
    <3>1. /\ Resting(x)
          /\ \A h \in Hooks : /\ Relaying(hook[h], x) /\ Flushing(hook[h], x)
                              /\ Queueing(hook[h], x)
      BY <2>2, <2>5, CountsLess DEF OnceInv
    <3>2. Resting(x)' BY <2>1, <3>1 DEF Resting, Arrived, Due, Rejected, Once
    <3>3. \A h \in Hooks : (Relaying(hook[h], x))'
      BY <2>1, <3>1 DEF Relaying, Arrived, Rejected
    <3>4. \A h \in Hooks : (Flushing(hook[h], x))'
      BY <2>1, <3>1 DEF Flushing, Arrived, Due, Rejected, Once
    <3>5. \A h \in Hooks : (Queueing(hook[h], x))'
      BY <2>1, <3>1 DEF Queueing, Arrived, Due, Rejected
    <3> QED BY <3>2, <3>3, <3>4, <3>5
  <2> QED BY <2>3, <2>4, <2>5
<1> QED BY <1>1, <1>2

LEMMA OnceNext == ASSUME OneRequest, IInv, OnceInv, [Next]_vars PROVE OnceInv'
<1>1. ASSUME NEW h \in Hooks, HookStep(h) PROVE OnceInv'
  BY <1>1, OnceMoves, OnceCheck, OnceSend, OnceRemember, OnceQueue, OnceReadList,
     OnceDeleteList, OnceDeliver, OnceLookup, OnceForget DEF HookStep
<1> QED BY <1>1, OnceFails, OnceStart, OnceElse DEF Next

\* window.py, with one request at a time and no refused call: neither a
\* redelivery, nor a flush, nor a rejection that Meta reports twice, puts the same
\* text twice on the client's phone; a rejected album is the exception.
THEOREM TextsArriveOnce == ASSUME OneRequest PROVE Spec => []DeliveredOnce
<1>1. Init => OnceInv
  <2> SUFFICES ASSUME Init PROVE OnceInv OBVIOUS
  <2>1. /\ pending = <<>> /\ arrived = <<>> /\ failing = {} /\ out = {}
        /\ written = 0 /\ hook = [h \in Hooks |-> IdleHook]
    BY DEF Init
  <2>2. \A x : ~Arrived(x) /\ ~Rejected(x) /\ ~Contains(pending, x[1]) /\ ~Due(x)
    BY <2>1, ContainsNothing DEF Arrived, Rejected, Due
  <2>3. Numbered BY <2>1, <2>2 DEF Numbered
  <2>4. \A h \in Hooks : InHand(hook[h]) BY <2>1 DEF InHand, IdleHook
  <2>5. \A x : Resting(x) BY <2>1, <2>2, OnceNothing DEF Resting
  <2>6. \A h \in Hooks : \A x :
          Relaying(hook[h], x) /\ Flushing(hook[h], x) /\ Queueing(hook[h], x)
    BY <2>1 DEF Relaying, Flushing, Queueing, IdleHook
  <2> QED BY <2>3, <2>4, <2>5, <2>6 DEF OnceInv
<1>2. IInv /\ OnceInv /\ [Next]_vars => OnceInv' BY OnceNext
<1>3. IInv /\ OnceInv => DeliveredOnce
  <2> SUFFICES ASSUME IInv, OnceInv, faults = 0,
                      NEW i \in DOMAIN arrived, NEW j \in DOMAIN arrived,
                      arrived[i] = arrived[j], ~(late /\ arrived[i][1] \in Albums)
               PROVE  i = j
    BY DEF DeliveredOnce
  <2>1. arrived[i] \in Wamids BY LenProperties, ElementOfSeq DEF IInv, TypeOK
  <2>2. Once(arrived, arrived[i]) BY <2>1 DEF OnceInv, Resting, Counts
  <2> QED BY <2>2 DEF Once
<1> QED BY Invariance, <1>1, <1>2, <1>3, PTL DEF Spec
=============================================================================
