------------------------ MODULE MessageSystemProofs ------------------------
(***************************************************************************)
(* Proofs about MessageSystem, for any games, names, handlers, table size  *)
(* and bound on what is sent.                                              *)
(***************************************************************************)
EXTENDS MessageSystem, SequenceTheorems, TLAPS

(* Types *)

\* The requests a game makes here
Sent == [kind : {"join"}, session : SessionId] \cup [kind : {"text"}, message : Letter]

TypeInv == MessageTypeOK /\ up \in [Conn -> Seq(Sent)]

LEMMA InitTypes == MessageInit => TypeInv
  BY MessageAssumption DEF MessageInit, Init, TypeInv, MessageTypeOK

\* One more request in a log
LEMMA SendTypes ==
  ASSUME NEW q \in Seq(Sent), NEW req \in Sent
  PROVE  /\ q \o <<req>> \in Seq(Sent)
         /\ Len(q \o <<req>>) = Len(q) + 1
         /\ \A i \in 1..Len(q) : (q \o <<req>>)[i] = q[i]
         /\ (q \o <<req>>)[Len(q) + 1] = req
  OBVIOUS

\* The calls the game makes keep the types.
LEMMA RegisterTypes ==
  ASSUME TypeInv, NEW g \in Conn, NEW r \in Registrations[g],
         MessageSystemRegisterHandler(g, r)
  PROVE  TypeInv'
<1>1. /\ r \in Entry /\ r.callback \in Callback /\ r.message_id \in MessageId
      /\ gMessageCallbacks[g] \in Seq(Entry)
  <2>1. r \in Registration
    BY MessageAssumption
  <2>2. r.callback # None
    BY DEF MessageSystemRegisterHandler
  <2> QED
    BY <2>1, <2>2 DEF Registration, Entry, TypeInv, MessageTypeOK
<1>2. latest' \in [Conn -> [MessageId -> Callback \cup {None}]]
  BY <1>1 DEF MessageSystemRegisterHandler, TypeInv, MessageTypeOK
<1>3. /\ gMessageCallbacks' \in [Conn -> Seq(Entry)]
      /\ \A h \in Conn : Len(gMessageCallbacks'[h]) <= MAX_MESSAGE_CALLBACKS
  <2>1. CASE \E i \in DOMAIN gMessageCallbacks[g] :
               gMessageCallbacks' = [gMessageCallbacks EXCEPT ![g][i] = r]
    <3>1. PICK i \in DOMAIN gMessageCallbacks[g] :
            gMessageCallbacks' = [gMessageCallbacks EXCEPT ![g] = [@ EXCEPT ![i] = r]]
      BY <2>1
    <3>2. /\ [gMessageCallbacks[g] EXCEPT ![i] = r] \in Seq(Entry)
          /\ Len([gMessageCallbacks[g] EXCEPT ![i] = r]) = Len(gMessageCallbacks[g])
      BY <1>1, ExceptSeq
    <3> QED
      BY <3>1, <3>2 DEF TypeInv, MessageTypeOK
  <2>2. CASE gMessageCallbacks' = [gMessageCallbacks EXCEPT ![g] = Append(@, r)]
    <3>1. /\ Append(gMessageCallbacks[g], r) \in Seq(Entry)
          /\ Len(Append(gMessageCallbacks[g], r)) = Len(gMessageCallbacks[g]) + 1
          /\ Len(gMessageCallbacks[g]) \in Nat
      BY <1>1, AppendProperties
    <3>2. Len(gMessageCallbacks[g]) < MAX_MESSAGE_CALLBACKS
      BY DEF MessageSystemRegisterHandler
    <3> QED
      BY <2>2, <3>1, <3>2, MessageAssumption DEF TypeInv, MessageTypeOK
  <2> QED
    BY <2>1, <2>2 DEF MessageSystemRegisterHandler
<1> QED
  BY <1>2, <1>3 DEF MessageSystemRegisterHandler, TypeInv, MessageTypeOK

\* What an emitted message is
LEMMA EmitSends ==
  ASSUME TypeInv, NEW g \in Conn, NEW id \in MessageId, MessageSystemEmit(g, id)
  PROVE  \E m \in Letter :
           /\ m.from = g /\ m.n = Len(up[g]) + 1
           /\ TextRequest(m) \in Sent
           /\ up' = [up EXCEPT ![g] = @ \o <<TextRequest(m)>>]
<1>1. PICK i \in DOMAIN gMessageCallbacks[g] :
        send_registered_message(g, Mail(g, id, gMessageCallbacks[g][i].payload_size))
  BY DEF MessageSystemEmit
<1>2. gMessageCallbacks[g][i].payload_size \in Nat
  <2>1. gMessageCallbacks[g] \in Seq(Entry)
    BY DEF TypeInv, MessageTypeOK
  <2>2. gMessageCallbacks[g][i] \in Entry
    BY <2>1, ElementOfSeq
  <2> QED
    BY <2>2 DEF Entry
<1>3. Len(up[g]) \in Nat
  BY DEF TypeInv
<1>4. Mail(g, id, gMessageCallbacks[g][i].payload_size) \in Letter
  BY <1>2, <1>3 DEF Mail, Letter
<1> QED
  BY <1>1, <1>4 DEF Mail, TextRequest, Sent, send_registered_message, Send

LEMMA EmitTypes ==
  ASSUME TypeInv, NEW g \in Conn, NEW id \in MessageId, MessageSystemEmit(g, id)
  PROVE  TypeInv'
<1>1. PICK m \in Letter :
        /\ TextRequest(m) \in Sent
        /\ up' = [up EXCEPT ![g] = @ \o <<TextRequest(m)>>]
  BY EmitSends
<1>2. up[g] \o <<TextRequest(m)>> \in Seq(Sent)
  BY <1>1, SendTypes DEF TypeInv
<1>3. up' \in [Conn -> Seq(Sent)]
  BY <1>1, <1>2 DEF TypeInv
<1> QED
  BY <1>3 DEF MessageSystemEmit, send_registered_message, mailVars, TypeInv, MessageTypeOK

LEMMA JoinTypes ==
  ASSUME TypeInv, NEW g \in Conn, Join(g)
  PROVE  TypeInv'
<1>1. PICK s \in SessionId : join_session(g, s)
  BY DEF Join
<1>2. JoinRequest(s) \in Sent
  BY DEF JoinRequest, Sent
<1>3. up[g] \o <<JoinRequest(s)>> \in Seq(Sent)
  BY <1>2, SendTypes DEF TypeInv
<1>4. up' \in [Conn -> Seq(Sent)]
  BY <1>1, <1>3 DEF join_session, Send, TypeInv
<1>5. current_session_id' \in [Conn -> SessionId \cup {None}]
  BY <1>1 DEF join_session, TypeInv, MessageTypeOK
<1> QED
  BY <1>1, <1>4, <1>5 DEF Join, join_session, mailVars, TypeInv, MessageTypeOK

LEMMA WelcomedTypes ==
  ASSUME TypeInv, NEW g \in Conn, Welcomed(g)
  PROVE  TypeInv'
<1>1. connected' \in [Conn -> BOOLEAN]
  BY DEF Welcomed, process_welcome, TypeInv, MessageTypeOK
<1> QED
  BY <1>1 DEF Welcomed, process_welcome, mailVars, TypeInv, MessageTypeOK

\* What hearing of another game's log does
LEMMA HearEffect ==
  ASSUME TypeInv, NEW g \in Conn, NEW s \in Conn, Hear(g, s)
  PROVE  /\ heard' = [heard EXCEPT ![g] = [heard[g] EXCEPT ![s] = heard[g][s] + 1]]
         /\ heard[g][s] \in Nat
         /\ heard[g][s] + 1 \in 1..Len(up[s])
         /\ \/ \E m \in Letter :
                  /\ up[s][heard[g][s] + 1] = TextRequest(m)
                  /\ message_queue' = [message_queue EXCEPT ![g] = Append(@, m)]
            \/ message_queue' = message_queue
         /\ UNCHANGED <<connected, current_session_id, up, gMessageCallbacks, where, messageSize,
                        taken, handled, latest>>
<1>1. /\ heard[g][s] \in Nat /\ up[s] \in Seq(Sent) /\ Len(up[s]) \in Nat
      /\ heard' = [heard EXCEPT ![g] = [heard[g] EXCEPT ![s] = heard[g][s] + 1]]
      /\ heard[g][s] < Len(up[s])
  <2>1. /\ heard[g][s] \in Nat /\ up[s] \in Seq(Sent)
    BY DEF TypeInv, MessageTypeOK
  <2>2. /\ heard' = [heard EXCEPT ![g] = [heard[g] EXCEPT ![s] = heard[g][s] + 1]]
        /\ heard[g][s] < Len(up[s])
    BY DEF Hear
  <2> QED
    BY <2>1, <2>2, LenProperties
<1>2. heard[g][s] + 1 \in 1..Len(up[s])
  BY <1>1
<1>3. up[s][heard[g][s] + 1] \in Sent
  BY <1>1, <1>2, ElementOfSeq
<1>4. ASSUME up[s][heard[g][s] + 1].kind = "text"
      PROVE  \E m \in Letter : /\ up[s][heard[g][s] + 1] = TextRequest(m)
                               /\ up[s][heard[g][s] + 1].message = m
  BY <1>3, <1>4 DEF Sent, TextRequest
<1>5. \/ \E m \in Letter :
            /\ up[s][heard[g][s] + 1] = TextRequest(m)
            /\ message_queue' = [message_queue EXCEPT ![g] = Append(@, m)]
      \/ message_queue' = message_queue
  BY <1>4 DEF Hear, process_text
<1>6. UNCHANGED <<connected, current_session_id, up, gMessageCallbacks, where, messageSize,
                  taken, handled, latest>>
  BY DEF Hear, process_text
<1> QED
  BY <1>1, <1>2, <1>5, <1>6

LEMMA HearTypes ==
  ASSUME TypeInv, NEW g \in Conn, NEW s \in Conn, Hear(g, s)
  PROVE  TypeInv'
<1>1. heard' \in [Conn -> [Conn -> Nat]]
  <2>1. [heard[g] EXCEPT ![s] = heard[g][s] + 1] \in [Conn -> Nat]
    BY DEF TypeInv, MessageTypeOK
  <2>2. heard' = [heard EXCEPT ![g] = [heard[g] EXCEPT ![s] = heard[g][s] + 1]]
    BY HearEffect
  <2>3. heard \in [Conn -> [Conn -> Nat]]
    BY DEF TypeInv, MessageTypeOK
  <2> QED
    BY <2>1, <2>2, <2>3
<1>2. message_queue' \in [Conn -> Seq(Letter)]
  <2>1. /\ message_queue \in [Conn -> Seq(Letter)]
        /\ \A m \in Letter : Append(message_queue[g], m) \in Seq(Letter)
    BY AppendProperties DEF TypeInv, MessageTypeOK
  <2>2. \/ \E m \in Letter : message_queue' = [message_queue EXCEPT ![g] = Append(@, m)]
        \/ message_queue' = message_queue
    BY HearEffect
  <2> QED
    BY <2>1, <2>2
<1>3. UNCHANGED <<connected, current_session_id, up, gMessageCallbacks, where, messageSize,
                  taken, handled, latest>>
  BY HearEffect
<1> QED
  BY <1>1, <1>2, <1>3 DEF TypeInv, MessageTypeOK

\* The steps of the loop keep the types.
LEMMA LoopTypes ==
  ASSUME TypeInv, NEW g \in Conn, Loop(g)
  PROVE  TypeInv'
<1>1. CASE CheckPending(g)
  <2>1. get_pending_message_size(g) \in Nat
    <3>1. message_queue[g] # <<>> => Head(message_queue[g]) \in Letter
      BY HeadTailProperties DEF TypeInv, MessageTypeOK
    <3> QED
      BY <3>1 DEF get_pending_message_size, Letter
  <2>2. /\ messageSize' \in [Conn -> Nat]
        /\ where' \in [Conn -> {"game", "handler", "sized", "taken", "dropped"}]
    BY <1>1, <2>1 DEF CheckPending, TypeInv, MessageTypeOK
  <2> QED
    BY <1>1, <2>2 DEF CheckPending, TypeInv, MessageTypeOK
<1>2. CASE TakeMessage(g)
  <2>1. /\ Head(message_queue[g]) \in Letter
        /\ Tail(message_queue[g]) \in Seq(Letter)
    BY <1>2, HeadTailProperties DEF TakeMessage, get_message, TypeInv, MessageTypeOK
  <2>2. message_queue' \in [Conn -> Seq(Letter)]
    BY <1>2, <2>1 DEF TakeMessage, get_message, TypeInv, MessageTypeOK
  <2>3. /\ taken' \in [Conn -> Letter \cup {None}]
        /\ where' \in [Conn -> {"game", "handler", "sized", "taken", "dropped"}]
    BY <1>2, <2>1 DEF TakeMessage, TypeInv, MessageTypeOK
  <2> QED
    BY <1>2, <2>2, <2>3 DEF TakeMessage, get_message, TypeInv, MessageTypeOK
<1>3. CASE DropMessage(g)
  <2>1. /\ taken' \in [Conn -> Letter \cup {None}]
        /\ where' \in [Conn -> {"game", "handler", "sized", "taken", "dropped"}]
    BY <1>3 DEF DropMessage, TypeInv, MessageTypeOK
  <2> QED
    BY <1>3, <2>1 DEF DropMessage, TypeInv, MessageTypeOK
<1>4. CASE CallHandler(g)
  <2>1. PICK i \in DOMAIN gMessageCallbacks[g] :
          handled' = [handled EXCEPT ![g] =
            Append(@, [mail |-> taken[g], callback |-> gMessageCallbacks[g][i].callback])]
    BY <1>4 DEF CallHandler
  <2>2. gMessageCallbacks[g][i].callback \in Callback
    <3>1. gMessageCallbacks[g] \in Seq(Entry)
      BY DEF TypeInv, MessageTypeOK
    <3>2. gMessageCallbacks[g][i] \in Entry
      BY <3>1, <2>1, ElementOfSeq
    <3> QED
      BY <3>2 DEF Entry
  <2>3. taken[g] \in Letter
    BY <1>4 DEF CallHandler, TypeInv, MessageTypeOK
  <2>4. handled' \in [Conn -> Seq([mail : Letter, callback : Callback])]
    BY <2>1, <2>2, <2>3, AppendProperties DEF TypeInv, MessageTypeOK
  <2>5. /\ taken' \in [Conn -> Letter \cup {None}]
        /\ where' \in [Conn -> {"game", "handler", "sized", "taken", "dropped"}]
    BY <1>4 DEF CallHandler, TypeInv, MessageTypeOK
  <2> QED
    BY <1>4, <2>4, <2>5 DEF CallHandler, TypeInv, MessageTypeOK
<1> QED
  BY <1>1, <1>2, <1>3, <1>4 DEF Loop

LEMMA TypeStep == TypeInv /\ [MessageNext]_messageVars => TypeInv'
<1> SUFFICES ASSUME TypeInv, [MessageNext]_messageVars PROVE TypeInv'
  OBVIOUS
<1>1. ASSUME NEW g \in Conn, GameCalls(g) PROVE TypeInv'
  BY <1>1, JoinTypes, RegisterTypes, EmitTypes DEF GameCalls
<1>2. CASE UNCHANGED messageVars
  BY <1>2 DEF messageVars, mailVars, TypeInv, MessageTypeOK
<1> QED
  BY <1>1, <1>2, WelcomedTypes, LoopTypes, HearTypes DEF MessageNext

\* All values stay in their types; in particular the table stays within its
\* bound.
THEOREM MessageTypesHold == MessageSpec => []MessageTypeOK
<1>1. TypeInv => MessageTypeOK
  BY DEF TypeInv
<1> QED
  BY <1>1, InitTypes, TypeStep, PTL DEF MessageSpec

---------------------------------------------------------------------------
(* The table.  What makes LatestHandlerIsCalled inductive: a name has one   *)
(* row only, and every row holds the last handler of its name.              *)

TableInv ==
  \A g \in Conn :
    /\ \A i, j \in DOMAIN gMessageCallbacks[g] :
         gMessageCallbacks[g][i].message_id = gMessageCallbacks[g][j].message_id => i = j
    /\ \A i \in DOMAIN gMessageCallbacks[g] :
         gMessageCallbacks[g][i].callback = latest[g][gMessageCallbacks[g][i].message_id]
    /\ \A id \in MessageId : latest[g][id] # None =>
         \E i \in DOMAIN gMessageCallbacks[g] : gMessageCallbacks[g][i].message_id = id

LEMMA InitTable == MessageInit => TableInv
  BY DEF MessageInit, TableInv

\* Where names are unique the search finds every row.
LEMMA SearchFinds ==
  ASSUME TypeInv, TableInv, NEW g \in Conn, NEW i \in DOMAIN gMessageCallbacks[g]
  PROVE  Finds(g, gMessageCallbacks[g][i].message_id, i)
<1>1. DOMAIN gMessageCallbacks[g] = 1..Len(gMessageCallbacks[g])
  BY LenProperties DEF TypeInv, MessageTypeOK
<1>2. Len(gMessageCallbacks[g]) \in Nat
  BY LenProperties DEF TypeInv, MessageTypeOK
<1>3. ASSUME NEW j \in 1..(i - 1)
      PROVE  gMessageCallbacks[g][j].message_id # gMessageCallbacks[g][i].message_id
  <2>1. j \in DOMAIN gMessageCallbacks[g] /\ j # i
    BY <1>1, <1>2
  <2> QED
    BY <2>1 DEF TableInv
<1> QED
  BY <1>3 DEF Finds

LEMMA TableIsRight == TypeInv /\ TableInv => LatestHandlerIsCalled
<1> SUFFICES ASSUME TypeInv, TableInv, NEW g \in Conn, NEW id \in MessageId
             PROVE  IF latest[g][id] = None THEN ~Registered(g, id)
                    ELSE \E i \in DOMAIN gMessageCallbacks[g] :
                           Finds(g, id, i) /\ gMessageCallbacks[g][i].callback = latest[g][id]
  BY DEF LatestHandlerIsCalled
<1>1. CASE latest[g][id] = None
  <2>1. ASSUME NEW i \in DOMAIN gMessageCallbacks[g], Finds(g, id, i) PROVE FALSE
    <3>1. gMessageCallbacks[g] \in Seq(Entry)
      BY DEF TypeInv, MessageTypeOK
    <3>2. gMessageCallbacks[g][i].callback \in Callback
      <4>1. gMessageCallbacks[g][i] \in Entry
        BY <3>1, ElementOfSeq
      <4> QED
        BY <4>1 DEF Entry
    <3>3. gMessageCallbacks[g][i].callback = latest[g][id]
      BY <2>1 DEF Finds, TableInv
    <3> QED
      BY <1>1, <3>2, <3>3, MessageAssumption
  <2> QED
    BY <1>1, <2>1 DEF Registered
<1>2. CASE latest[g][id] # None
  <2>1. PICK i \in DOMAIN gMessageCallbacks[g] : gMessageCallbacks[g][i].message_id = id
    BY <1>2 DEF TableInv
  <2> QED
    BY <1>2, <2>1, SearchFinds DEF TableInv
<1> QED
  BY <1>1, <1>2

\* A registration replaces the row of its name, or adds one for a new name.
LEMMA RegisterTable ==
  ASSUME TypeInv, TableInv, NEW g \in Conn, NEW r \in Registrations[g],
         MessageSystemRegisterHandler(g, r)
  PROVE  TableInv'
<1> DEFINE table == gMessageCallbacks[g]
           changed == gMessageCallbacks'[g]
<1>1. /\ gMessageCallbacks \in [Conn -> Seq(Entry)] /\ table \in Seq(Entry)
      /\ latest \in [Conn -> [MessageId -> Callback \cup {None}]]
  BY DEF TypeInv, MessageTypeOK
<1>2. r \in Entry /\ r.message_id \in MessageId
  <2>1. r \in Registration /\ r.callback # None
    BY MessageAssumption DEF MessageSystemRegisterHandler
  <2> QED
    BY <2>1 DEF Registration, Entry
<1>3. /\ latest' = [latest EXCEPT ![g][r.message_id] = r.callback]
      /\ \A id \in MessageId :
           latest'[g][id] = IF id = r.message_id THEN r.callback ELSE latest[g][id]
      /\ \A h \in Conn \ {g} : latest'[h] = latest[h]
  BY <1>1, <1>2 DEF MessageSystemRegisterHandler
<1>4. DOMAIN table = 1..Len(table) /\ Len(table) \in Nat
  BY <1>1, LenProperties
<1>5. \A i \in DOMAIN table : table[i] \in Entry /\ table[i].message_id \in MessageId
  <2>1. \A i \in DOMAIN table : table[i] \in Entry
    BY <1>1, <1>4, ElementOfSeq
  <2> QED
    BY <2>1 DEF Entry
<1>6. \A h \in Conn \ {g} : gMessageCallbacks'[h] = gMessageCallbacks[h]
  BY <1>1 DEF MessageSystemRegisterHandler
<1>7. CASE \E i \in DOMAIN table :
             Finds(g, r.message_id, i) /\ gMessageCallbacks' = [gMessageCallbacks EXCEPT ![g][i] = r]
  <2>1. PICK i \in DOMAIN table :
          /\ table[i].message_id = r.message_id
          /\ changed = [table EXCEPT ![i] = r]
    BY <1>1, <1>7 DEF Finds
  <2>2. /\ DOMAIN changed = DOMAIN table
        /\ \A j \in DOMAIN table : changed[j] = IF j = i THEN r ELSE table[j]
    BY <2>1
  <2>3. \A j \in DOMAIN table : changed[j].message_id = table[j].message_id
    BY <2>1, <2>2
  <2>4. \A j, k \in DOMAIN changed : changed[j].message_id = changed[k].message_id => j = k
    BY <2>2, <2>3 DEF TableInv
  <2>5. \A j \in DOMAIN changed : changed[j].callback = latest'[g][changed[j].message_id]
    BY <1>3, <1>5, <2>1, <2>2, <2>3 DEF TableInv
  <2>6. \A id \in MessageId : latest'[g][id] # None =>
          \E j \in DOMAIN changed : changed[j].message_id = id
    BY <1>3, <2>1, <2>2, <2>3 DEF TableInv
  <2> QED
    BY <1>3, <1>6, <2>4, <2>5, <2>6 DEF TableInv
<1>8. CASE /\ ~Registered(g, r.message_id)
           /\ gMessageCallbacks' = [gMessageCallbacks EXCEPT ![g] = Append(@, r)]
  <2>1. changed = Append(table, r)
    BY <1>1, <1>8
  <2>2. /\ DOMAIN changed = 1..(Len(table) + 1)
        /\ \A j \in DOMAIN table : changed[j] = table[j]
        /\ changed[Len(table) + 1] = r
    BY <1>1, <1>2, <1>4, <2>1, AppendProperties, LenProperties
  <2>3. \A j \in DOMAIN table : table[j].message_id # r.message_id
    BY <1>8, SearchFinds DEF Registered
  <2>4. \A j \in DOMAIN changed : j \in DOMAIN table \/ j = Len(table) + 1
    BY <1>4, <2>2
  <2>5. \A j, k \in DOMAIN changed : changed[j].message_id = changed[k].message_id => j = k
    BY <2>2, <2>3, <2>4 DEF TableInv
  <2>6. \A j \in DOMAIN changed : changed[j].callback = latest'[g][changed[j].message_id]
    BY <1>2, <1>3, <1>5, <2>2, <2>3, <2>4 DEF TableInv
  <2>7. \A id \in MessageId : latest'[g][id] # None =>
          \E j \in DOMAIN changed : changed[j].message_id = id
    <3>1. Len(table) + 1 \in DOMAIN changed /\ DOMAIN table \subseteq DOMAIN changed
      BY <1>4, <2>2
    <3> QED
      BY <1>3, <2>2, <3>1 DEF TableInv
  <2> QED
    BY <1>3, <1>6, <2>5, <2>6, <2>7 DEF TableInv
<1> QED
  BY <1>7, <1>8 DEF MessageSystemRegisterHandler

\* Everything else leaves the table alone.
LEMMA TableStep == TypeInv /\ TableInv /\ [MessageNext]_messageVars => TableInv'
<1> SUFFICES ASSUME TypeInv, TableInv, [MessageNext]_messageVars PROVE TableInv'
  OBVIOUS
<1>1. ASSUME NEW g \in Conn, GameCalls(g) PROVE TableInv'
  <2>1. ASSUME Join(g) PROVE TableInv'
    BY <2>1 DEF Join, mailVars, TableInv
  <2>2. ASSUME NEW id \in MessageId, MessageSystemEmit(g, id) PROVE TableInv'
    BY <2>2 DEF MessageSystemEmit, mailVars, TableInv
  <2> QED
    BY <1>1, <2>1, <2>2, RegisterTable DEF GameCalls
<1>2. ASSUME NEW g \in Conn, Loop(g) PROVE TableInv'
  <2>1. UNCHANGED <<gMessageCallbacks, latest>>
    BY <1>2 DEF Loop, CheckPending, TakeMessage, CallHandler, DropMessage
  <2> QED
    BY <2>1 DEF TableInv
<1>3. ASSUME NEW g \in Conn, NEW s \in Conn, Hear(g, s) PROVE TableInv'
  BY <1>3 DEF Hear, TableInv
<1>4. ASSUME NEW g \in Conn, Welcomed(g) PROVE TableInv'
  BY <1>4 DEF Welcomed, mailVars, TableInv
<1>5. CASE UNCHANGED messageVars
  BY <1>5 DEF messageVars, mailVars, TableInv
<1> QED
  BY <1>1, <1>2, <1>3, <1>4, <1>5 DEF MessageNext

\* A message goes to the handler its name was last registered with, for any
\* sequence of registrations, handlers that register included.
THEOREM LatestHandler == MessageSpec => []LatestHandlerIsCalled
<1> QED
  BY InitTypes, InitTable, TypeStep, TableStep, TableIsRight, PTL DEF MessageSpec
---------------------------------------------------------------------------
(* The size the loop was told.  AnnouncedSizeHolds is inductive by itself:  *)
(* only the loop takes from the queue, and the runtime's thread adds at its *)
(* end.                                                                     *)

LEMMA HearKeepsSize ==
  ASSUME TypeInv, AnnouncedSizeHolds, NEW g \in Conn, NEW s \in Conn, Hear(g, s)
  PROVE  AnnouncedSizeHolds'
<1>1. UNCHANGED <<where, messageSize, taken>>
  BY HearEffect
<1>2. /\ message_queue \in [Conn -> Seq(Letter)]
      /\ \/ \E m \in Letter : message_queue' = [message_queue EXCEPT ![g] = Append(@, m)]
         \/ message_queue' = message_queue
  BY HearEffect DEF TypeInv, MessageTypeOK
<1>3. ASSUME NEW h \in Conn, message_queue[h] # <<>>
      PROVE  message_queue'[h] # <<>> /\ Head(message_queue'[h]) = Head(message_queue[h])
  BY <1>2, <1>3
<1> QED
  BY <1>1, <1>3 DEF AnnouncedSizeHolds

LEMMA LoopKeepsSize ==
  ASSUME TypeInv, AnnouncedSizeHolds, NEW g \in Conn, Loop(g)
  PROVE  AnnouncedSizeHolds'
<1> USE DEF AnnouncedSizeHolds
<1>1. /\ where \in [Conn -> {"game", "handler", "sized", "taken", "dropped"}]
      /\ messageSize \in [Conn -> Nat]
      /\ taken \in [Conn -> Letter \cup {None}]
      /\ message_queue \in [Conn -> Seq(Letter)]
  BY DEF TypeInv, MessageTypeOK
<1>2. CASE CheckPending(g)
  BY <1>1, <1>2 DEF CheckPending, get_pending_message_size
<1>3. CASE TakeMessage(g)
  <2>1. /\ Head(message_queue[g]).size = messageSize[g]
        /\ Head(message_queue[g]) \in Letter
    BY <1>1, <1>3, HeadTailProperties DEF TakeMessage
  <2>2. taken'[g] # None
    BY <1>1, <1>3, <2>1, MessageAssumption DEF TakeMessage
  <2> QED
    BY <1>1, <1>3, <2>2 DEF TakeMessage, get_message
<1>4. CASE CallHandler(g)
  BY <1>1, <1>4 DEF CallHandler
<1>5. CASE DropMessage(g)
  BY <1>1, <1>5 DEF DropMessage
<1> QED
  BY <1>2, <1>3, <1>4, <1>5 DEF Loop

LEMMA SizeStep ==
  TypeInv /\ AnnouncedSizeHolds /\ [MessageNext]_messageVars => AnnouncedSizeHolds'
<1> SUFFICES ASSUME TypeInv, AnnouncedSizeHolds, [MessageNext]_messageVars
             PROVE  AnnouncedSizeHolds'
  OBVIOUS
<1>1. CASE UNCHANGED <<message_queue, where, messageSize, taken>>
  BY <1>1 DEF AnnouncedSizeHolds
<1>2. ASSUME NEW g \in Conn, GameCalls(g)
      PROVE  UNCHANGED <<message_queue, where, messageSize, taken>>
  BY <1>2 DEF GameCalls, Join, join_session, MessageSystemEmit, send_registered_message,
              MessageSystemRegisterHandler, mailVars
<1>3. ASSUME NEW g \in Conn, Welcomed(g)
      PROVE  UNCHANGED <<message_queue, where, messageSize, taken>>
  BY <1>3 DEF Welcomed, process_welcome, mailVars
<1>4. CASE UNCHANGED messageVars
  BY <1>1, <1>4 DEF messageVars, mailVars
<1> QED
  BY <1>1, <1>2, <1>3, <1>4, HearKeepsSize, LoopKeepsSize DEF MessageNext

\* The loop's two calls agree on the message, whatever arrives in between and
\* for any sizes: no message is lost to a buffer that is too small.
THEOREM AnnouncedSize == MessageSpec => []AnnouncedSizeHolds
<1>1. MessageInit => AnnouncedSizeHolds
  BY DEF MessageInit, AnnouncedSizeHolds
<1> QED
  BY <1>1, InitTypes, TypeStep, SizeStep, PTL DEF MessageSpec

---------------------------------------------------------------------------
(* The order of messages.  HandledInOrder says nothing of the messages that *)
(* are still in the queue; MailInv follows a message from the log through   *)
(* the queue and the loop to its handler.                                   *)

\* A message of another game that has reached g, as it was sent
Genuine(g, m) ==
  /\ m.from \in Conn \ {g}
  /\ m.n \in 1..heard[g][m.from]
  /\ up[m.from][m.n] = TextRequest(m)

Before(m, k) == m.from = k.from => m.n < k.n

\* A text in a log has its sender and its place, and no log is read beyond
\* its end.
LogInv ==
  \A s \in Conn :
    /\ \A i \in 1..Len(up[s]) :
         up[s][i].kind = "text" => up[s][i].message.from = s /\ up[s][i].message.n = i
    /\ \A g \in Conn : heard[g][s] <= Len(up[s])

QueueInv(g) ==
  \A i \in 1..Len(message_queue[g]) :
    /\ Genuine(g, message_queue[g][i])
    /\ \A j \in 1..Len(message_queue[g]) :
         i < j => Before(message_queue[g][i], message_queue[g][j])

TakenInv(g) ==
  taken[g] # None =>
    /\ Genuine(g, taken[g])
    /\ \A i \in 1..Len(message_queue[g]) : Before(taken[g], message_queue[g][i])

HandledInv(g) ==
  \A i \in 1..Len(handled[g]) :
    /\ Genuine(g, handled[g][i].mail)
    /\ \A j \in 1..Len(handled[g]) :
         i < j => Before(handled[g][i].mail, handled[g][j].mail)
    /\ taken[g] # None => Before(handled[g][i].mail, taken[g])
    /\ \A j \in 1..Len(message_queue[g]) : Before(handled[g][i].mail, message_queue[g][j])

MailInv ==
  /\ LogInv
  /\ \A g \in Conn : QueueInv(g) /\ TakenInv(g) /\ HandledInv(g)

LEMMA InitMail == MessageInit => MailInv
  BY DEF MessageInit, Init, MailInv, LogInv, QueueInv, TakenInv, HandledInv

LEMMA MailIsOrdered == TypeInv /\ MailInv => HandledInOrder
<1> SUFFICES ASSUME TypeInv, MailInv, NEW g \in Conn, NEW i \in DOMAIN handled[g]
             PROVE  LET m == handled[g][i].mail IN
                      /\ m.from # g
                      /\ m.n \in DOMAIN up[m.from] /\ up[m.from][m.n] = TextRequest(m)
                      /\ \A j \in (i + 1)..Len(handled[g]) :
                           handled[g][j].mail.from = m.from => m.n < handled[g][j].mail.n
  BY DEF HandledInOrder
<1> DEFINE m == handled[g][i].mail
<1>1. DOMAIN handled[g] = 1..Len(handled[g]) /\ Len(handled[g]) \in Nat
  BY LenProperties DEF TypeInv, MessageTypeOK
<1>2. Genuine(g, m)
  BY <1>1 DEF MailInv, HandledInv
<1>3. m.n \in DOMAIN up[m.from]
  <2>1. /\ up[m.from] \in Seq(Sent) /\ heard[g][m.from] \in Nat
        /\ heard[g][m.from] <= Len(up[m.from])
    BY <1>2 DEF Genuine, MailInv, LogInv, TypeInv, MessageTypeOK
  <2>2. DOMAIN up[m.from] = 1..Len(up[m.from]) /\ Len(up[m.from]) \in Nat
    BY <2>1, LenProperties
  <2> QED
    BY <1>2, <2>1, <2>2 DEF Genuine
<1>4. ASSUME NEW j \in (i + 1)..Len(handled[g])
      PROVE  handled[g][j].mail.from = m.from => m.n < handled[g][j].mail.n
  <2>1. i \in 1..Len(handled[g]) /\ j \in 1..Len(handled[g]) /\ i < j
    BY <1>1
  <2> QED
    BY <2>1 DEF MailInv, HandledInv, Before
<1> QED
  BY <1>2, <1>3, <1>4 DEF Genuine

\* A game's request is one more entry of its own log and changes nothing that
\* was heard.
LEMMA SentKeepsMail ==
  ASSUME TypeInv, MailInv, NEW g \in Conn, NEW req \in Sent,
         req.kind = "text" => req.message.from = g /\ req.message.n = Len(up[g]) + 1,
         up' = [up EXCEPT ![g] = up[g] \o <<req>>],
         UNCHANGED <<heard, message_queue, taken, handled>>
  PROVE  MailInv'
<1>1. /\ up \in [Conn -> Seq(Sent)]
      /\ \A s \in Conn : Len(up[s]) \in Nat
      /\ \A h, s \in Conn : heard[h][s] \in Nat
  BY LenProperties DEF TypeInv, MessageTypeOK
<1>2. /\ \A s \in Conn : Len(up[s]) <= Len(up'[s])
      /\ \A s \in Conn : \A i \in 1..Len(up[s]) : up'[s][i] = up[s][i]
      /\ \A s \in Conn \ {g} : up'[s] = up[s]
      /\ Len(up'[g]) = Len(up[g]) + 1
      /\ up'[g][Len(up[g]) + 1] = req
  BY <1>1, SendTypes
<1>3. LogInv'
  <2>1. ASSUME NEW s \in Conn, NEW i \in 1..Len(up'[s]), up'[s][i].kind = "text"
        PROVE  up'[s][i].message.from = s /\ up'[s][i].message.n = i
    <3>1. CASE i \in 1..Len(up[s])
      BY <1>2, <2>1, <3>1 DEF MailInv, LogInv
    <3>2. CASE i \notin 1..Len(up[s])
      <4>1. s = g /\ i = Len(up[g]) + 1
        BY <1>1, <1>2, <3>2
      <4> QED
        BY <1>2, <2>1, <4>1
    <3> QED
      BY <3>1, <3>2
  <2>2. \A h, s \in Conn : heard'[h][s] <= Len(up'[s])
    <3>1. \A h, s \in Conn : heard[h][s] <= Len(up[s])
      BY DEF MailInv, LogInv
    <3>2. \A s \in Conn : Len(up'[s]) \in Nat
      BY <1>1, <1>2
    <3> QED
      BY <1>1, <1>2, <3>1, <3>2
  <2> QED
    BY <2>1, <2>2 DEF LogInv
<1>4. ASSUME NEW h \in Conn, NEW m, Genuine(h, m) PROVE Genuine(h, m)'
  <2>1. heard[h][m.from] <= Len(up[m.from]) /\ m.from \in Conn
    BY <1>4 DEF Genuine, MailInv, LogInv
  <2>2. m.n \in 1..Len(up[m.from])
    BY <1>1, <1>4, <2>1 DEF Genuine
  <2> QED
    BY <1>2, <1>4, <2>1, <2>2 DEF Genuine
<1>5. ASSUME NEW h \in Conn PROVE (QueueInv(h) /\ TakenInv(h) /\ HandledInv(h))'
  <2>1. QueueInv(h) /\ TakenInv(h) /\ HandledInv(h)
    BY DEF MailInv
  <2>2. QueueInv(h)'
    BY <1>4, <2>1 DEF QueueInv
  <2>3. TakenInv(h)'
    BY <1>4, <2>1 DEF TakenInv
  <2>4. HandledInv(h)'
    BY <1>4, <2>1 DEF HandledInv
  <2> QED
    BY <2>2, <2>3, <2>4
<1> QED
  BY <1>3, <1>5 DEF MailInv

LEMMA CallsKeepMail ==
  ASSUME TypeInv, MailInv, NEW g \in Conn, GameCalls(g)
  PROVE  MailInv'
<1>1. CASE Join(g)
  <2>1. PICK s \in SessionId : join_session(g, s)
    BY <1>1 DEF Join
  <2>2. JoinRequest(s) \in Sent /\ JoinRequest(s).kind # "text"
    BY DEF JoinRequest, Sent
  <2> QED
    BY <1>1, <2>1, <2>2, SentKeepsMail DEF Join, join_session, Send, mailVars
<1>2. ASSUME NEW id \in MessageId, MessageSystemEmit(g, id) PROVE MailInv'
  <2>1. PICK m \in Letter :
          /\ m.from = g /\ m.n = Len(up[g]) + 1
          /\ TextRequest(m) \in Sent
          /\ up' = [up EXCEPT ![g] = up[g] \o <<TextRequest(m)>>]
    BY <1>2, EmitSends
  <2>2. TextRequest(m).message = m
    BY DEF TextRequest
  <2>3. UNCHANGED <<heard, message_queue, taken, handled>>
    BY <1>2 DEF MessageSystemEmit, send_registered_message, mailVars
  <2> QED
    BY <2>1, <2>2, <2>3, SentKeepsMail
<1>3. ASSUME NEW r \in Registrations[g], MessageSystemRegisterHandler(g, r) PROVE MailInv'
  <2>1. UNCHANGED <<up, heard, message_queue, taken, handled>>
    BY <1>3 DEF MessageSystemRegisterHandler
  <2> QED
    BY <2>1 DEF MailInv, LogInv, QueueInv, TakenInv, HandledInv, Genuine
<1> QED
  BY <1>1, <1>2, <1>3 DEF GameCalls

\* What is heard next is later than anything heard before from the same game.
LEMMA HearKeepsMail ==
  ASSUME TypeInv, MailInv, NEW g \in Conn, NEW s \in Conn, Hear(g, s)
  PROVE  MailInv'
<1> DEFINE k == heard[g][s] + 1
<1>1. /\ up \in [Conn -> Seq(Sent)] /\ message_queue \in [Conn -> Seq(Letter)]
      /\ heard \in [Conn -> [Conn -> Nat]]
  BY DEF TypeInv, MessageTypeOK
<1>2. /\ heard' = [heard EXCEPT ![g] = [heard[g] EXCEPT ![s] = k]]
      /\ k \in 1..Len(up[s]) /\ s # g
      /\ UNCHANGED <<up, taken, handled>>
  BY HearEffect DEF Hear
<1>3. /\ heard'[g][s] = k
      /\ \A h, t \in Conn : ~(h = g /\ t = s) => heard'[h][t] = heard[h][t]
      /\ \A h, t \in Conn : heard[h][t] \in Nat /\ heard'[h][t] \in Nat
      /\ \A h, t \in Conn : heard[h][t] <= heard'[h][t]
  <2>1. heard'[g][s] = k /\ heard[g][s] \in Nat
    BY <1>1, <1>2
  <2>2. \A h, t \in Conn : ~(h = g /\ t = s) => heard'[h][t] = heard[h][t] /\ heard[h][t] \in Nat
    BY <1>1, <1>2
  <2> QED
    BY <2>1, <2>2
<1>4. LogInv'
  <2>1. \A h, t \in Conn : heard[h][t] <= Len(up[t])
    BY DEF MailInv, LogInv
  <2>2. \A h, t \in Conn : heard'[h][t] <= Len(up[t])
    BY <1>2, <1>3, <2>1
  <2> QED
    BY <1>2, <2>2 DEF MailInv, LogInv
<1> DEFINE NowGenuine(h, x) == /\ x.from \in Conn \ {h}
                               /\ x.n \in 1..heard'[h][x.from]
                               /\ up[x.from][x.n] = TextRequest(x)
<1>5. ASSUME NEW h \in Conn, NEW x, Genuine(h, x) PROVE NowGenuine(h, x)
  <2>1. x.from \in Conn /\ x.n \in 1..heard[h][x.from]
    BY <1>5 DEF Genuine
  <2>2. x.n \in 1..heard'[h][x.from]
    BY <1>3, <2>1
  <2> QED
    BY <1>5, <2>2 DEF Genuine
<1>6. ASSUME NEW h \in Conn, message_queue'[h] = message_queue[h]
      PROVE  (QueueInv(h) /\ TakenInv(h) /\ HandledInv(h))'
  <2>1. QueueInv(h) /\ TakenInv(h) /\ HandledInv(h)
    BY DEF MailInv
  <2>2. QueueInv(h)'
    BY <1>2, <1>5, <1>6, <2>1 DEF QueueInv, Genuine
  <2>3. TakenInv(h)'
    BY <1>2, <1>5, <1>6, <2>1 DEF TakenInv, Genuine
  <2>4. HandledInv(h)'
    BY <1>2, <1>5, <1>6, <2>1 DEF HandledInv, Genuine
  <2> QED
    BY <2>2, <2>3, <2>4
<1>7. ASSUME NEW m \in Letter, up[s][k] = TextRequest(m),
             message_queue' = [message_queue EXCEPT ![g] = Append(@, m)]
      PROVE  MailInv'
  <2> DEFINE before == message_queue[g]
             after  == message_queue'[g]
  <2>1. /\ Len(before) \in Nat
        /\ Len(after) = Len(before) + 1
        /\ after[Len(before) + 1] = m
        /\ \A i \in 1..Len(before) : after[i] = before[i]
        /\ \A h \in Conn \ {g} : message_queue'[h] = message_queue[h]
    BY <1>1, <1>7, AppendProperties, LenProperties
  <2>2. m.from = s /\ m.n = k
    BY <1>2, <1>7 DEF TextRequest, MailInv, LogInv
  <2>3. NowGenuine(g, m)
    BY <1>1, <1>2, <1>3, <1>7, <2>2
  <2>4. ASSUME NEW x, Genuine(g, x) PROVE Before(x, m)
    BY <1>1, <2>2, <2>4 DEF Genuine, Before
  <2>5. QueueInv(g) /\ TakenInv(g) /\ HandledInv(g)
    BY DEF MailInv
  <2>6. QueueInv(g)'
    <3> SUFFICES ASSUME NEW i \in 1..Len(after)
                 PROVE  /\ NowGenuine(g, after[i])
                        /\ \A j \in 1..Len(after) : i < j => Before(after[i], after[j])
      BY <1>2 DEF QueueInv, Genuine, Before
    <3> HIDE DEF NowGenuine, after, before
    <3>1. CASE i \in 1..Len(before)
      <4>1. Genuine(g, before[i]) /\ \A j \in 1..Len(before) : i < j => Before(before[i], before[j])
        BY <2>5, <3>1 DEF QueueInv, before
      <4>2. NowGenuine(g, before[i]) /\ Before(before[i], m)
        BY <1>5, <2>4, <4>1
      <4> QED
        BY <2>1, <3>1, <4>1, <4>2
    <3>2. CASE i = Len(before) + 1
      BY <2>1, <2>3, <3>2
    <3> QED
      BY <2>1, <3>1, <3>2
  <2>7. TakenInv(g)'
    <3> SUFFICES ASSUME taken[g] # None
                 PROVE  /\ NowGenuine(g, taken[g])
                        /\ \A j \in 1..Len(after) : Before(taken[g], after[j])
      BY <1>2 DEF TakenInv, Genuine, Before
    <3>1. Genuine(g, taken[g]) /\ \A j \in 1..Len(before) : Before(taken[g], before[j])
      BY <2>5 DEF TakenInv
    <3>2. NowGenuine(g, taken[g]) /\ Before(taken[g], m)
      BY <1>5, <2>4, <3>1
    <3> HIDE DEF NowGenuine, after, before
    <3> QED
      BY <2>1, <3>1, <3>2
  <2>8. HandledInv(g)'
    <3> SUFFICES ASSUME NEW i \in 1..Len(handled[g])
                 PROVE  /\ NowGenuine(g, handled[g][i].mail)
                        /\ \A j \in 1..Len(handled[g]) :
                             i < j => Before(handled[g][i].mail, handled[g][j].mail)
                        /\ taken[g] # None => Before(handled[g][i].mail, taken[g])
                        /\ \A j \in 1..Len(after) : Before(handled[g][i].mail, after[j])
      BY <1>2 DEF HandledInv, Genuine, Before
    <3>1. /\ Genuine(g, handled[g][i].mail)
          /\ \A j \in 1..Len(handled[g]) :
               i < j => Before(handled[g][i].mail, handled[g][j].mail)
          /\ taken[g] # None => Before(handled[g][i].mail, taken[g])
          /\ \A j \in 1..Len(before) : Before(handled[g][i].mail, before[j])
      BY <2>5 DEF HandledInv
    <3>2. NowGenuine(g, handled[g][i].mail) /\ Before(handled[g][i].mail, m)
      BY <1>5, <2>4, <3>1
    <3> HIDE DEF NowGenuine, after, before
    <3> QED
      BY <2>1, <3>1, <3>2
  <2> QED
    BY <1>4, <1>6, <2>1, <2>6, <2>7, <2>8 DEF MailInv
<1>8. CASE message_queue' = message_queue
  BY <1>4, <1>6, <1>8 DEF MailInv
<1> QED
  BY <1>7, <1>8, HearEffect

\* The loop moves a message from the front of the queue to the end of what
\* was handled, or drops it.
LEMMA LoopKeepsMail ==
  ASSUME TypeInv, MailInv, NEW g \in Conn, Loop(g)
  PROVE  MailInv'
<1>1. /\ message_queue \in [Conn -> Seq(Letter)]
      /\ taken \in [Conn -> Letter \cup {None}]
      /\ handled \in [Conn -> Seq([mail : Letter, callback : Callback])]
  BY DEF TypeInv, MessageTypeOK
<1>2. UNCHANGED <<up, heard>>
  BY DEF Loop, CheckPending, TakeMessage, get_message, CallHandler, DropMessage
<1>3. LogInv' /\ \A h \in Conn : QueueInv(h) /\ TakenInv(h) /\ HandledInv(h)
  BY <1>2 DEF MailInv, LogInv
<1>4. ASSUME NEW h \in Conn, message_queue'[h] = message_queue[h], taken'[h] = taken[h],
             handled'[h] = handled[h]
      PROVE  (QueueInv(h) /\ TakenInv(h) /\ HandledInv(h))'
  BY <1>2, <1>3, <1>4 DEF QueueInv, TakenInv, HandledInv, Genuine
<1>5. CASE CheckPending(g)
  BY <1>3, <1>4, <1>5 DEF CheckPending, MailInv
<1>6. CASE TakeMessage(g)
  <2>1. /\ message_queue' = [message_queue EXCEPT ![g] = Tail(@)] /\ message_queue[g] # <<>>
        /\ taken'[g] = None \/ taken'[g] = Head(message_queue[g])
        /\ \A h \in Conn \ {g} : taken'[h] = taken[h]
        /\ handled' = handled
    BY <1>1, <1>6 DEF TakeMessage, get_message
  <2>2. /\ Len(message_queue[g]) \in Nat /\ Len(message_queue[g]) # 0
        /\ Len(message_queue'[g]) = Len(message_queue[g]) - 1
        /\ Head(message_queue[g]) = message_queue[g][1]
        /\ \A i \in 1..Len(message_queue'[g]) : message_queue'[g][i] = message_queue[g][i + 1]
    BY <1>1, <2>1, HeadTailProperties, EmptySeq, LenProperties
  <2>3. /\ 1 \in 1..Len(message_queue[g])
        /\ \A i \in 1..Len(message_queue'[g]) : i + 1 \in 1..Len(message_queue[g]) /\ 1 < i + 1
    BY <2>2
  <2>4. QueueInv(g)'
    <3> SUFFICES ASSUME NEW i \in 1..Len(message_queue'[g])
                 PROVE  /\ Genuine(g, message_queue[g][i + 1])
                        /\ \A j \in 1..Len(message_queue'[g]) :
                             i < j => Before(message_queue[g][i + 1], message_queue[g][j + 1])
      BY <1>2, <2>2 DEF QueueInv, Genuine, Before
    <3> QED
      BY <1>3, <2>3 DEF QueueInv
  <2>5. TakenInv(g)'
    <3>1. Genuine(g, message_queue[g][1])
      BY <1>3, <2>3 DEF QueueInv
    <3>2. \A i \in 1..Len(message_queue'[g]) :
            Before(message_queue[g][1], message_queue'[g][i])
      BY <1>3, <2>2, <2>3 DEF QueueInv
    <3> QED
      BY <1>2, <2>1, <2>2, <3>1, <3>2 DEF TakenInv, Genuine
  <2>6. HandledInv(g)'
    <3> SUFFICES ASSUME NEW i \in 1..Len(handled[g])
                 PROVE  /\ Genuine(g, handled[g][i].mail)
                        /\ \A j \in 1..Len(handled[g]) :
                             i < j => Before(handled[g][i].mail, handled[g][j].mail)
                        /\ taken'[g] # None => Before(handled[g][i].mail, taken'[g])
                        /\ \A j \in 1..Len(message_queue'[g]) :
                             Before(handled[g][i].mail, message_queue'[g][j])
      BY <1>2, <2>1 DEF HandledInv, Genuine, Before
    <3>1. \A j \in 1..Len(message_queue[g]) : Before(handled[g][i].mail, message_queue[g][j])
      BY <1>3 DEF HandledInv
    <3> QED
      BY <1>3, <2>1, <2>2, <2>3, <3>1 DEF HandledInv
  <2>7. \A h \in Conn \ {g} : message_queue'[h] = message_queue[h] /\ handled'[h] = handled[h]
    BY <1>1, <2>1
  <2> QED
    BY <1>3, <1>4, <2>1, <2>4, <2>5, <2>6, <2>7 DEF MailInv
<1>7. ASSUME message_queue' = message_queue, handled' = handled,
             taken' = [taken EXCEPT ![g] = None]
      PROVE  MailInv'
  <2>1. (QueueInv(g) /\ TakenInv(g) /\ HandledInv(g))'
    BY <1>1, <1>2, <1>3, <1>7 DEF QueueInv, TakenInv, HandledInv, Genuine
  <2> QED
    BY <1>1, <1>3, <1>4, <1>7, <2>1 DEF MailInv
<1>8. CASE DropMessage(g)
  BY <1>7, <1>8 DEF DropMessage
<1>9. CASE CallHandler(g)
  <2>1. PICK x \in [mail : Letter, callback : Callback] :
          /\ x.mail = taken[g]
          /\ handled' = [handled EXCEPT ![g] = Append(@, x)]
    <3>1. PICK i \in DOMAIN gMessageCallbacks[g] :
            handled' = [handled EXCEPT ![g] =
              Append(@, [mail |-> taken[g], callback |-> gMessageCallbacks[g][i].callback])]
      BY <1>9 DEF CallHandler
    <3>2. gMessageCallbacks[g] \in Seq(Entry)
      BY DEF TypeInv, MessageTypeOK
    <3>3. gMessageCallbacks[g][i] \in Entry
      BY <3>1, <3>2, ElementOfSeq
    <3>4. taken[g] \in Letter
      BY <1>1, <1>9 DEF CallHandler
    <3> QED
      BY <3>1, <3>3, <3>4 DEF Entry
  <2>2. /\ Len(handled[g]) \in Nat
        /\ Len(handled'[g]) = Len(handled[g]) + 1
        /\ handled'[g][Len(handled[g]) + 1] = x
        /\ \A i \in 1..Len(handled[g]) : handled'[g][i] = handled[g][i]
        /\ \A h \in Conn \ {g} : handled'[h] = handled[h]
    BY <1>1, <2>1, AppendProperties, LenProperties
  <2>3. /\ taken[g] # None /\ taken' = [taken EXCEPT ![g] = None]
        /\ message_queue' = message_queue
    BY <1>9 DEF CallHandler
  <2>4. QueueInv(g)' /\ TakenInv(g)'
    BY <1>1, <1>2, <1>3, <2>3 DEF QueueInv, TakenInv, Genuine
  <2>5. HandledInv(g)'
    <3> SUFFICES ASSUME NEW i \in 1..Len(handled'[g])
                 PROVE  /\ Genuine(g, handled'[g][i].mail)
                        /\ \A j \in 1..Len(handled'[g]) :
                             i < j => Before(handled'[g][i].mail, handled'[g][j].mail)
                        /\ \A j \in 1..Len(message_queue[g]) :
                             Before(handled'[g][i].mail, message_queue[g][j])
      BY <1>1, <1>2, <2>3 DEF HandledInv, Genuine, Before
    <3>1. CASE i \in 1..Len(handled[g])
      BY <1>3, <2>1, <2>2, <2>3, <3>1 DEF HandledInv
    <3>2. CASE i = Len(handled[g]) + 1
      BY <1>3, <2>1, <2>2, <2>3, <3>2 DEF TakenInv
    <3> QED
      BY <2>2, <3>1, <3>2
  <2> QED
    BY <1>1, <1>3, <1>4, <2>2, <2>3, <2>4, <2>5 DEF MailInv
<1> QED
  BY <1>5, <1>6, <1>8, <1>9 DEF Loop

LEMMA MailStep == TypeInv /\ MailInv /\ [MessageNext]_messageVars => MailInv'
<1> SUFFICES ASSUME TypeInv, MailInv, [MessageNext]_messageVars PROVE MailInv'
  OBVIOUS
<1>1. ASSUME UNCHANGED <<up, heard, message_queue, taken, handled>> PROVE MailInv'
  BY <1>1 DEF MailInv, LogInv, QueueInv, TakenInv, HandledInv, Genuine
<1>2. ASSUME NEW g \in Conn, Welcomed(g) PROVE MailInv'
  BY <1>1, <1>2 DEF Welcomed, process_welcome, mailVars
<1>3. CASE UNCHANGED messageVars
  BY <1>1, <1>3 DEF messageVars, mailVars
<1> QED
  BY <1>2, <1>3, CallsKeepMail, HearKeepsMail, LoopKeepsMail DEF MessageNext

\* From the emitting game's call to the handler in another game no message is
\* repeated, reordered, changed or brought back to its sender, for any number
\* of games and messages.
THEOREM MessagesInOrder == MessageSpec => []HandledInOrder
<1> QED
  BY InitTypes, InitMail, TypeStep, MailStep, MailIsOrdered, PTL DEF MessageSpec
=============================================================================
