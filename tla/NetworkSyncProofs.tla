-------------------------- MODULE NetworkSyncProofs --------------------------
(***************************************************************************)
(* The server with the runtimes of its clients, for any connections,       *)
(* sessions, actors, capacity and bound.  The runtimes send the server     *)
(* nothing it is not made for (NetUsesServer), so that all that is proved  *)
(* of SyncServer holds here; and what a runtime believes of itself follows *)
(* from what it has sent.                                                  *)
(***************************************************************************)
EXTENDS NetworkSync, WireProofs

\* Before a client is served, it has no session and has asked for nothing.
FreshInv ==
  \A c \in Conn : Unserved(c) =>
    /\ up[c] = <<>> /\ current_session_id[c] = None
    /\ c \in DOMAIN connections => connections[c] = None

\* A client registers and updates only actors it counts as its own.
AskedIsLocal ==
  \A c \in Conn : \A i \in 1..Len(up[c]) :
    up[c][i].kind \in {"register", "update"} => up[c][i].actor \in local_actors[c]

\* When the server gets to an update under way, it will have its client in a
\* session: the one the requests before it lead to.
UpdatesFollow ==
  \A c \in Conn : pc[c] = "serving" => \A i \in 1..Len(up[c]) : up[c][i].kind = "update" =>
    \E s \in SessionId : Follows(s, connections[c], SubSeq(up[c], 1, i - 1))

\* A connected runtime has its own id.
IdInv == \A c \in Conn : connected[c] => client_id[c] = c

\* The actors of a snapshot are local to their owners.
Known(m, local) ==
  m.kind = "sync" => \A a \in DOMAIN m.actors : a \in local[m.actors[a].owner_id]

\* So it is with all that is under way to a client.
KnownInv ==
  \A c \in Conn :
    /\ Known(outbox[c].msg, local_actors)
    /\ \A i \in 1..Len(posted[c]) : Known(posted[c][i], local_actors)

---------------------------------------------------------------------------
(* Requests *)

\* What the fields of a request hold.
LEMMA RequestFields ==
  ASSUME NEW r \in SentRequest
  PROVE  /\ r.kind \in {"join", "leave", "register", "update", "text"}
         /\ r.kind = "join" => r.session \in SessionId
         /\ r.kind \in {"register", "update"} => r.actor \in ActorId
         /\ r.kind = "update" => r.data \in Data
  BY DEF SentRequest, Client!LeaveRequest, Client!TextRequest, Client!JoinRequest,
     Client!RegisterRequest, Client!UpdateRequest

\* What the runtimes make for the games are requests.
LEMMA MadeRequests ==
  /\ Client!LeaveRequest \in SentRequest /\ Client!LeaveRequest.kind = "leave"
  /\ Client!TextRequest(None) \in SentRequest /\ Client!TextRequest(None).kind = "text"
  /\ \A s \in SessionId : /\ Client!JoinRequest(s) \in SentRequest
                          /\ Client!JoinRequest(s).kind = "join"
                          /\ Client!JoinRequest(s).session = s
  /\ \A a \in ActorId : /\ Client!RegisterRequest(a) \in SentRequest
                        /\ Client!RegisterRequest(a).kind = "register"
                        /\ Client!RegisterRequest(a).actor = a
  /\ \A a \in ActorId, d \in Data : /\ Client!UpdateRequest(a, d) \in SentRequest
                                    /\ Client!UpdateRequest(a, d).kind = "update"
                                    /\ Client!UpdateRequest(a, d).actor = a
<1>1. /\ Client!LeaveRequest \in SentRequest
      /\ Client!TextRequest(None) \in SentRequest
      /\ \A s \in SessionId : Client!JoinRequest(s) \in SentRequest
      /\ \A a \in ActorId : Client!RegisterRequest(a) \in SentRequest
      /\ \A a \in ActorId, d \in Data : Client!UpdateRequest(a, d) \in SentRequest
  BY DEF SentRequest
<1>2. /\ Client!LeaveRequest.kind = "leave"
      /\ Client!TextRequest(None).kind = "text"
      /\ \A s \in SessionId :
           Client!JoinRequest(s).kind = "join" /\ Client!JoinRequest(s).session = s
  BY DEF Client!LeaveRequest, Client!TextRequest, Client!JoinRequest
<1>3. /\ \A a \in ActorId :
           Client!RegisterRequest(a).kind = "register" /\ Client!RegisterRequest(a).actor = a
      /\ \A a \in ActorId, d \in Data :
           /\ Client!UpdateRequest(a, d).kind = "update"
           /\ Client!UpdateRequest(a, d).actor = a
  BY DEF Client!RegisterRequest, Client!UpdateRequest
<1> QED
  BY <1>1, <1>2, <1>3

\* The server handles the first request under way, as its kind says.
LEMMA DispatchEffect ==
  ASSUME NetTypeOK, NEW c \in Conn, Dispatch(c)
  PROVE  /\ Request(c)
         /\ up[c] # <<>> /\ Head(up[c]) = up[c][1] /\ up[c][1] \in SentRequest
         /\ Len(up[c]) \in Nat \ {0}
         /\ up' = [up EXCEPT ![c] = Tail(up[c])]
         /\ Tail(up[c]) \in Seq(SentRequest) /\ Len(Tail(up[c])) = Len(up[c]) - 1
         /\ \A i \in 1..(Len(up[c]) - 1) : Tail(up[c])[i] = up[c][i + 1]
         /\ \/ up[c][1].kind = "join"     /\ handle_join_session(c, up[c][1].session)
            \/ up[c][1].kind = "leave"    /\ handle_leave_session(c)
            \/ up[c][1].kind = "register" /\ handle_register_actor(c, up[c][1].actor)
            \/ /\ up[c][1].kind = "update"
               /\ handle_actor_update(c, up[c][1].actor, up[c][1].data)
            \/ up[c][1].kind = "text"     /\ handle_registered_message(c)
         /\ UNCHANGED <<connected, client_id, current_session_id, remote_actors, local_actors,
                        message_queue, read>>
<1>1. up[c] \in Seq(SentRequest) /\ up[c] # <<>>
  BY DEF NetTypeOK, Dispatch
<1>2. /\ Head(up[c]) = up[c][1] /\ Len(up[c]) \in Nat \ {0}
      /\ Tail(up[c]) \in Seq(SentRequest) /\ Len(Tail(up[c])) = Len(up[c]) - 1
      /\ \A i \in 1..(Len(up[c]) - 1) : Tail(up[c])[i] = up[c][i + 1]
  BY <1>1, HeadTailProperties, EmptySeq
<1>3. up[c][1] \in SentRequest
  BY <1>1, <1>2, ElementOfSeq
<1>4. \/ up[c][1].kind = "join"     /\ handle_join_session(c, up[c][1].session)
      \/ up[c][1].kind = "leave"    /\ handle_leave_session(c)
      \/ up[c][1].kind = "register" /\ handle_register_actor(c, up[c][1].actor)
      \/ /\ up[c][1].kind = "update"
         /\ handle_actor_update(c, up[c][1].actor, up[c][1].data)
      \/ up[c][1].kind = "text"     /\ handle_registered_message(c)
  BY <1>2 DEF Dispatch
<1>5. Request(c)
  BY <1>3, <1>4, RequestFields DEF Request
<1> QED
  BY <1>1, <1>2, <1>3, <1>4, <1>5 DEF Dispatch

\* What a call of the game sends: nothing that changes the session, or that one
\* request, with the session set; an update only when in a session; and what it
\* registers and updates is local.
GameSends(c, reqs, new) ==
  /\ reqs \in Seq(SentRequest)
  /\ up' = [up EXCEPT ![c] = up[c] \o reqs]
  /\ \/ /\ \A i \in 1..Len(reqs) : reqs[i].kind \notin {"join", "leave"}
        /\ UNCHANGED current_session_id
     \/ /\ Len(reqs) = 1 /\ reqs[1].kind \in {"join", "leave"}
        /\ current_session_id' = [current_session_id EXCEPT ![c] = MovesTo(reqs[1])]
  /\ \A i \in 1..Len(reqs) : reqs[i].kind = "update" => current_session_id[c] # None
  /\ new \in SUBSET ActorId
  /\ local_actors' = [local_actors EXCEPT ![c] = local_actors[c] \cup new]
  /\ \A i \in 1..Len(reqs) : reqs[i].kind \in {"register", "update"} => reqs[i].actor \in new

\* One request, and one after another.
LEMMA ShortSequences ==
  ASSUME NEW S, NEW r \in S, NEW u \in S
  PROVE  /\ <<>> \in Seq(S) /\ Len(<<>>) = 0
         /\ <<r>> \in Seq(S) /\ Len(<<r>>) = 1 /\ <<r>>[1] = r
         /\ \A p \in {<<>>, <<r>>}, q \in {<<>>, <<u>>} :
              /\ p \o q \in Seq(S)
              /\ \A i \in 1..Len(p \o q) : (p \o q)[i] \in {r, u}
<1>1. /\ <<>> \in Seq({r, u}) /\ <<r>> \in Seq({r, u}) /\ <<u>> \in Seq({r, u})
      /\ <<>> \in Seq(S) /\ <<r>> \in Seq(S) /\ <<u>> \in Seq(S)
      /\ Len(<<>>) = 0 /\ Len(<<r>>) = 1 /\ <<r>>[1] = r
  OBVIOUS
<1>2. ASSUME NEW p \in {<<>>, <<r>>}, NEW q \in {<<>>, <<u>>}
      PROVE  /\ p \o q \in Seq(S)
             /\ \A i \in 1..Len(p \o q) : (p \o q)[i] \in {r, u}
  <2>1. p \in Seq({r, u}) /\ q \in Seq({r, u}) /\ p \in Seq(S) /\ q \in Seq(S)
    BY <1>1
  <2>2. p \o q \in Seq(S) /\ p \o q \in Seq({r, u})
    BY <2>1, ConcatProperties
  <2> QED
    BY <2>2, ElementOfSeq
<1> QED
  BY <1>1, <1>2

\* An empty table is one of actors.
LEMMA EmptyActors == EmptyMap \in ActorMap /\ Client!EmptyMap = EmptyMap
<1>1. EmptyMap \in [{} -> Actor]
  BY DEF EmptyMap
<1>2. Client!EmptyMap = EmptyMap
  BY DEF EmptyMap, Client!EmptyMap
<1> QED
  BY <1>1, <1>2 DEF ActorMap

\* What every call of the game does to the runtime.
LEMMA GameEffect ==
  ASSUME NetTypeOK, NEW c \in Conn, GameStep(c)
  PROVE  /\ pc[c] = "serving"
         /\ UNCHANGED <<syncVars, read, connected, client_id>>
         /\ requests[c] + Len(up'[c]) <= MaxRequests
         /\ remote_actors' \in [Conn -> ActorMap] /\ message_queue' \in [Conn -> Seq(Message)]
         /\ \E reqs, new : GameSends(c, reqs, new)
<1>1. /\ remote_actors \in [Conn -> ActorMap] /\ message_queue \in [Conn -> Seq(Message)]
      /\ up \in [Conn -> Seq(SentRequest)] /\ local_actors \in [Conn -> SUBSET ActorId]
      /\ up[c] \in Seq(SentRequest) /\ up[c] \o <<>> = up[c]
  BY ConcatEmptySeq DEF NetTypeOK
<1>2. /\ pc[c] = "serving" /\ UNCHANGED <<syncVars, read>>
      /\ requests[c] + Len(up'[c]) <= MaxRequests
  BY DEF GameStep, Call
<1> DEFINE Goal == /\ UNCHANGED <<connected, client_id>>
                   /\ remote_actors' \in [Conn -> ActorMap]
                   /\ message_queue' \in [Conn -> Seq(Message)]
                   /\ \E reqs, new : GameSends(c, reqs, new)
<1>3. local_actors = [local_actors EXCEPT ![c] = local_actors[c] \cup {}] /\ {} \in SUBSET ActorId
  BY <1>1
<1>4. ASSUME NEW s \in SessionId, Client!join_session(c, s) PROVE Goal
  <2> DEFINE r == Client!JoinRequest(s)
             q == <<r>>
  <2>1. /\ r \in SentRequest /\ r.kind = "join" /\ MovesTo(r) = s
        /\ q \in Seq(SentRequest) /\ Len(q) = 1 /\ q[1] = r
    BY MadeRequests, ShortSequences DEF MovesTo
  <2>2. /\ up' = [up EXCEPT ![c] = up[c] \o q]
        /\ current_session_id' = [current_session_id EXCEPT ![c] = s]
        /\ local_actors' = local_actors
    BY <1>4 DEF Client!join_session, Client!Send
  <2> HIDE DEF r, q
  <2>3. GameSends(c, q, {})
    BY <1>3, <2>1, <2>2 DEF GameSends
  <2> QED
    BY <1>1, <1>4, <2>3 DEF Client!join_session
<1>5. ASSUME Client!leave_session(c) PROVE Goal
  <2> DEFINE r == Client!LeaveRequest
             q == <<r>>
  <2>1. /\ r \in SentRequest /\ r.kind = "leave" /\ MovesTo(r) = None
        /\ q \in Seq(SentRequest) /\ Len(q) = 1 /\ q[1] = r
    BY MadeRequests, ShortSequences DEF MovesTo
  <2>2. /\ up' = [up EXCEPT ![c] = up[c] \o q]
        /\ current_session_id' = [current_session_id EXCEPT ![c] = None]
        /\ local_actors' = local_actors
    BY <1>5 DEF Client!leave_session, Client!Send
  <2> HIDE DEF r, q
  <2>3. GameSends(c, q, {})
    BY <1>3, <2>1, <2>2 DEF GameSends
  <2> QED
    BY <1>1, <1>5, <2>3, EmptyActors DEF Client!leave_session
<1>6. ASSUME Client!send_registered_message(c, None) PROVE Goal
  <2> DEFINE r == Client!TextRequest(None)
             q == <<r>>
  <2>1. /\ r \in SentRequest /\ r.kind = "text"
        /\ q \in Seq(SentRequest) /\ Len(q) = 1 /\ q[1] = r
    BY MadeRequests, ShortSequences
  <2>2. up' = [up EXCEPT ![c] = up[c] \o q] /\ UNCHANGED <<current_session_id, local_actors>>
    BY <1>6 DEF Client!send_registered_message, Client!Send
  <2> HIDE DEF r, q
  <2>3. GameSends(c, q, {})
    BY <1>3, <2>1, <2>2 DEF GameSends
  <2> QED
    BY <1>1, <1>6, <2>3 DEF Client!send_registered_message
<1>7. ASSUME Client!get_message(c) PROVE Goal
  <2>1. UNCHANGED <<connected, client_id, current_session_id, remote_actors, local_actors, up>>
    BY <1>7 DEF Client!get_message
  <2>2. <<>> \in Seq(SentRequest) /\ Len(<<>>) = 0
    OBVIOUS
  <2>3. GameSends(c, <<>>, {})
    BY <1>1, <1>3, <2>1, <2>2 DEF GameSends
  <2>4. Tail(message_queue[c]) \in Seq(Message)
    BY <1>1, <1>7, HeadTailProperties DEF Client!get_message
  <2> QED
    BY <1>1, <1>7, <2>1, <2>3, <2>4 DEF Client!get_message
<1>8. ASSUME NEW a \in ActorId, Client!register_actor(c, a) PROVE Goal
  <2> DEFINE r == Client!RegisterRequest(a)
             q == <<r>>
  <2>1. /\ r \in SentRequest /\ r.kind = "register" /\ r.actor = a
        /\ q \in Seq(SentRequest) /\ Len(q) = 1 /\ q[1] = r
    BY MadeRequests, ShortSequences
  <2>2. /\ up' = [up EXCEPT ![c] = up[c] \o q]
        /\ UNCHANGED current_session_id
        /\ local_actors' = [local_actors EXCEPT ![c] = local_actors[c] \cup {a}]
    BY <1>8 DEF Client!register_actor, Client!Send
  <2> HIDE DEF r, q
  <2>3. GameSends(c, q, {a})
    BY <2>1, <2>2 DEF GameSends
  <2> QED
    BY <1>1, <1>8, <2>3 DEF Client!register_actor
<1>9. ASSUME NEW a \in ActorId, NEW d \in Data, Client!send_actor_update(c, a, d) PROVE Goal
  <2> DEFINE r == Client!RegisterRequest(a)
             u == Client!UpdateRequest(a, d)
  <2>1. /\ r \in SentRequest /\ r.kind = "register" /\ r.actor = a
        /\ u \in SentRequest /\ u.kind = "update" /\ u.actor = a
    BY MadeRequests
  <2> HIDE DEF r, u
  <2>2. \A p \in {<<>>, <<r>>}, q \in {<<>>, <<u>>} :
          p \o q \in Seq(SentRequest) /\ \A i \in 1..Len(p \o q) : (p \o q)[i] \in {r, u}
    BY <2>1, ShortSequences
  <2>3. PICK p \in {<<>>, <<r>>}, q \in {<<>>, <<u>>} :
          /\ up' = [up EXCEPT ![c] = up[c] \o (p \o q)]
          /\ current_session_id[c] = None => q = <<>>
    BY <1>9 DEF Client!send_actor_update, Client!Send, r, u
  <2>4. /\ UNCHANGED current_session_id
        /\ local_actors' = [local_actors EXCEPT ![c] = local_actors[c] \cup {a}]
    BY <1>9 DEF Client!send_actor_update
  <2>5. ASSUME NEW i \in 1..Len(p \o q), (p \o q)[i].kind = "update"
        PROVE  current_session_id[c] # None
    <3> SUFFICES ASSUME current_session_id[c] = None PROVE FALSE
      OBVIOUS
    <3>1. \A v \in {<<>>, <<r>>}, w \in {<<>>, <<r>>} :
            \A j \in 1..Len(v \o w) : (v \o w)[j] = r
      BY <2>1, ShortSequences
    <3> QED
      BY <2>1, <2>3, <2>5, <3>1
  <2>6. GameSends(c, p \o q, {a})
    BY <2>1, <2>2, <2>3, <2>4, <2>5 DEF GameSends
  <2> QED
    BY <1>1, <1>9, <2>6 DEF Client!send_actor_update
<1>10. Goal
  <2> HIDE DEF Goal
  <2> QED
    BY <1>4, <1>5, <1>6, <1>7, <1>8, <1>9 DEF GameStep
<1> QED
  BY <1>2, <1>10

\* What handling a message from the server does to the runtime.
LEMMA ReceiveEffect ==
  ASSUME SyncTypeOK, NetTypeOK, NEW c \in Conn, Receive(c)
  PROVE  /\ UNCHANGED <<syncVars, current_session_id, up>>
         /\ read' \in [Conn -> Nat]
         /\ connected' \in [Conn -> BOOLEAN] /\ client_id' \in [Conn -> Conn \cup {None}]
         /\ remote_actors' \in [Conn -> ActorMap]
         /\ local_actors' \in [Conn -> SUBSET ActorId]
         /\ message_queue' \in [Conn -> Seq(Message)]
         /\ \A x \in Conn : local_actors[x] \subseteq local_actors'[x]
<1> DEFINE m == wire[c][read[c] + 1]
<1>1. /\ connected \in [Conn -> BOOLEAN] /\ client_id \in [Conn -> Conn \cup {None}]
      /\ remote_actors \in [Conn -> ActorMap] /\ local_actors \in [Conn -> SUBSET ActorId]
      /\ message_queue \in [Conn -> Seq(Message)] /\ read \in [Conn -> Nat]
  BY DEF NetTypeOK
<1>2. m \in Message
  <2>1. wire[c] \in Seq(Message) /\ read[c] \in Nat /\ read[c] < Len(wire[c])
    BY <1>1 DEF SyncTypeOK, Receive
  <2>2. read[c] + 1 \in 1..Len(wire[c])
    BY <2>1, LenProperties
  <2> QED
    BY <2>1, <2>2, ElementOfSeq
<1>3. /\ UNCHANGED syncVars /\ read' \in [Conn -> Nat]
  BY <1>1 DEF Receive
<1> DEFINE Goal == /\ UNCHANGED <<current_session_id, up>>
                   /\ connected' \in [Conn -> BOOLEAN] /\ client_id' \in [Conn -> Conn \cup {None}]
                   /\ remote_actors' \in [Conn -> ActorMap]
                   /\ local_actors' \in [Conn -> SUBSET ActorId]
                   /\ message_queue' \in [Conn -> Seq(Message)]
                   /\ \A x \in Conn : local_actors[x] \subseteq local_actors'[x]
<1>4. ASSUME Client!process_welcome(c, c) PROVE Goal
  BY <1>1, <1>4 DEF Client!process_welcome
<1>5. ASSUME NEW as \in ActorMap, Client!process_sync(c, as) PROVE Goal
  <2>1. PICK own \in SUBSET DOMAIN as :
          /\ remote_actors' = [remote_actors EXCEPT ![c] = Client!Restrict(as, DOMAIN as \ own)]
          /\ local_actors' = [local_actors EXCEPT ![c] = local_actors[c] \cup own]
          /\ UNCHANGED <<connected, client_id, current_session_id, message_queue, up>>
    BY <1>5 DEF Client!process_sync
  <2>2. PICK D \in SUBSET ActorId : as \in [D -> Actor]
    BY DEF ActorMap
  <2>3. Client!Restrict(as, DOMAIN as \ own) \in ActorMap
    <3>1. Client!Restrict(as, DOMAIN as \ own) \in [D \ own -> Actor]
      BY <2>2 DEF Client!Restrict
    <3> QED
      BY <3>1 DEF ActorMap
  <2> QED
    BY <1>1, <2>1, <2>2, <2>3
<1>6. ASSUME Client!process_text(c, m) PROVE Goal
  <2>1. Append(message_queue[c], m) \in Seq(Message)
    BY <1>1, <1>2, AppendProperties
  <2> QED
    BY <1>1, <1>6, <2>1 DEF Client!process_text
<1>7. Goal
  <2> HIDE DEF Goal
  <2>1. m.kind = "sync" => m.actors \in ActorMap
    BY <1>2, MessageFields
  <2> QED
    BY <1>4, <1>5, <1>6, <2>1 DEF Receive
<1> QED
  BY <1>3, <1>7

\* What the server does by itself is not seen by the runtimes.
LEMMA ServerEffect ==
  ASSUME NEW c \in Conn, ServerStep(c)
  PROVE  /\ SyncNext
         /\ UNCHANGED <<clientVars, read, requests>>
<1>1. SyncNext /\ UNCHANGED <<clientVars, read>>
  BY DEF ServerStep, SyncNext
<1>2. UNCHANGED requests
  BY DEF ServerStep, Accept, Task, ForwardTask, HangUp, Handshake, HandshakeFails, SendOne,
     SendFails, EndOfStream, NotifyDisconnect, Cleanup, Forward, ForwardFails, ForwardAborted
<1> QED
  BY <1>1, <1>2

---------------------------------------------------------------------------
(* Types, and the server below *)

\* Each step of the whole is a step of the server or none.
LEMMA NetStepIsSyncStep ==
  ASSUME NetTypeOK, [NetNext]_netVars
  PROVE  [SyncNext]_syncVars
<1>1. ASSUME NEW c \in Conn, Dispatch(c) PROVE SyncNext
  BY <1>1, DispatchEffect DEF SyncNext
<1>2. ASSUME NEW c \in Conn, Receive(c) \/ GameStep(c) PROVE UNCHANGED syncVars
  BY <1>2, GameEffect DEF Receive
<1>3. CASE UNCHANGED netVars
  BY <1>3 DEF netVars
<1> QED
  BY <1>1, <1>2, <1>3, ServerEffect DEF NetNext

LEMMA InitNetTypes == NetInit => NetTypeOK
<1> SUFFICES ASSUME NetInit PROVE NetTypeOK
  OBVIOUS
<1>1. <<>> \in Seq(SentRequest) /\ <<>> \in Seq(Message) /\ Len(<<>>) = 0
  OBVIOUS
<1>2. \A c \in Conn : requests[c] = 0
  BY DEF NetInit, SyncInit
<1> QED
  BY <1>1, <1>2, EmptyActors, RequestsAssumption DEF NetInit, Client!Init, NetTypeOK

\* Every step keeps the types of the runtimes and the bound on requests.
LEMMA NetTypeStep ==
  ASSUME SyncTypeOK, AliveIsRegistered, NetTypeOK, [NetNext]_netVars
  PROVE  NetTypeOK'
<1>1. /\ up \in [Conn -> Seq(SentRequest)]
      /\ requests \in [Conn -> 0..MaxRequests]
      /\ \A c \in Conn : requests[c] \in Nat /\ requests[c] + Len(up[c]) <= MaxRequests
  BY RequestsAssumption DEF NetTypeOK, SyncTypeOK
<1>2. ASSUME NEW c \in Conn, ServerStep(c) PROVE NetTypeOK'
  BY <1>2, ServerEffect DEF NetTypeOK, clientVars
<1>3. ASSUME NEW c \in Conn, Receive(c) PROVE NetTypeOK'
  <2>1. UNCHANGED requests
    BY <1>3, ReceiveEffect DEF syncVars, taskVars
  <2> QED
    BY <1>3, <2>1, ReceiveEffect DEF NetTypeOK
<1>4. ASSUME NEW c \in Conn, Dispatch(c) PROVE NetTypeOK'
  <2>1. /\ Tail(up[c]) \in Seq(SentRequest) /\ Len(Tail(up[c])) = Len(up[c]) - 1
        /\ Len(up[c]) \in Nat
        /\ up' = [up EXCEPT ![c] = Tail(up[c])]
        /\ UNCHANGED <<connected, client_id, current_session_id, remote_actors, local_actors,
                        message_queue, read>>
    BY <1>4, DispatchEffect
  <2>2. requests' = [requests EXCEPT ![c] = requests[c] + 1]
    BY <1>4, DispatchEffect, RequestEffect
  <2>3. up' \in [Conn -> Seq(SentRequest)]
    BY <1>1, <2>1
  <2>4. ASSUME NEW x \in Conn PROVE requests'[x] + Len(up'[x]) <= MaxRequests
    <3>1. CASE x = c
      <4>1. requests'[c] = requests[c] + 1 /\ Len(up'[c]) = Len(up[c]) - 1
        BY <1>1, <2>1, <2>2
      <4> QED
        BY <1>1, <2>1, <3>1, <4>1, RequestsAssumption
    <3>2. CASE x # c
      BY <1>1, <2>1, <2>2, <3>2
    <3> QED
      BY <3>1, <3>2
  <2> QED
    BY <2>1, <2>3, <2>4 DEF NetTypeOK
<1>5. ASSUME NEW c \in Conn, GameStep(c) PROVE NetTypeOK'
  <2>1. /\ UNCHANGED <<syncVars, read, connected, client_id>>
        /\ requests[c] + Len(up'[c]) <= MaxRequests
        /\ remote_actors' \in [Conn -> ActorMap] /\ message_queue' \in [Conn -> Seq(Message)]
    BY <1>5, GameEffect
  <2>2. PICK reqs, new : GameSends(c, reqs, new)
    BY <1>5, GameEffect
  <2>3. up[c] \o reqs \in Seq(SentRequest) /\ up' = [up EXCEPT ![c] = up[c] \o reqs]
    BY <1>1, <2>2, ConcatProperties DEF GameSends
  <2>4. up' \in [Conn -> Seq(SentRequest)]
    BY <1>1, <2>3
  <2>5. \A x \in Conn : requests'[x] + Len(up'[x]) <= MaxRequests
    BY <1>1, <2>1, <2>3 DEF syncVars, taskVars
  <2>6. local_actors' \in [Conn -> SUBSET ActorId]
    BY <2>2 DEF GameSends, NetTypeOK
  <2>7. current_session_id' \in [Conn -> SessionId \cup {None}]
    <3>1. CASE UNCHANGED current_session_id
      BY <3>1 DEF NetTypeOK
    <3>2. CASE /\ Len(reqs) = 1
               /\ current_session_id' = [current_session_id EXCEPT ![c] = MovesTo(reqs[1])]
      <4>1. reqs[1] \in SentRequest
        BY <2>2, <3>2, ElementOfSeq DEF GameSends
      <4>2. MovesTo(reqs[1]) \in SessionId \cup {None}
        BY <4>1, RequestFields DEF MovesTo
      <4> QED
        BY <3>2, <4>2 DEF NetTypeOK
    <3> QED
      BY <2>2, <3>1, <3>2 DEF GameSends
  <2> QED
    BY <2>1, <2>4, <2>5, <2>6, <2>7 DEF NetTypeOK
<1>6. CASE UNCHANGED netVars
  BY <1>6 DEF netVars, clientVars, syncVars, taskVars, NetTypeOK
<1> QED
  BY <1>2, <1>3, <1>4, <1>5, <1>6 DEF NetNext

NetBase == ServerInv /\ NetTypeOK

LEMMA InitNetBase == NetInit => NetBase
<1>1. NetInit => SyncInit
  BY DEF NetInit
<1> QED
  BY <1>1, InitServerInv, InitNetTypes DEF NetBase

LEMMA NextNetBase == NetBase /\ [NetNext]_netVars => NetBase' /\ [SyncNext]_syncVars
<1> SUFFICES ASSUME NetBase, [NetNext]_netVars PROVE NetBase' /\ [SyncNext]_syncVars
  OBVIOUS
<1>1. [SyncNext]_syncVars
  BY NetStepIsSyncStep DEF NetBase
<1>2. ServerInv'
  BY <1>1, NextServerInv DEF NetBase
<1>3. NetTypeOK'
  BY NetTypeStep DEF NetBase, ServerInv
<1> QED
  BY <1>1, <1>2, <1>3 DEF NetBase

---------------------------------------------------------------------------
(* The session a runtime shows *)

\* A request that moves nobody changes nothing of what to believe.
LEMMA FollowsStays ==
  ASSUME NEW cur, NEW s, NEW p \in Seq(SentRequest), NEW q \in Seq(SentRequest),
         \A i \in 1..Len(q) : q[i].kind \notin {"join", "leave"},
         Follows(cur, s, p)
  PROVE  Follows(cur, s, p \o q)
<1>1. /\ Len(p) \in Nat /\ Len(q) \in Nat /\ DOMAIN p = 1..Len(p)
      /\ p \o q \in Seq(SentRequest) /\ Len(p \o q) = Len(p) + Len(q)
      /\ DOMAIN (p \o q) = 1..(Len(p) + Len(q))
      /\ \A i \in 1..(Len(p) + Len(q)) :
           (p \o q)[i] = IF i <= Len(p) THEN p[i] ELSE q[i - Len(p)]
  BY ConcatProperties, LenProperties
<1> DEFINE v == p \o q
<1> HIDE DEF v
<1>2. \A i \in 1..Len(p) : i \in DOMAIN v /\ v[i] = p[i]
  BY <1>1 DEF v
<1>3. \A i \in DOMAIN v : i \notin 1..Len(p) => v[i].kind \notin {"join", "leave"}
  <2> TAKE i \in DOMAIN v
  <2>1. i \notin 1..Len(p) => i - Len(p) \in 1..Len(q) /\ v[i] = q[i - Len(p)]
    BY <1>1 DEF v
  <2> QED
    BY <2>1
<1>4. Moves(v) = Moves(p)
  BY <1>1, <1>2, <1>3 DEF Moves
<1>5. \A i \in Moves(p) : v[i] = p[i]
  BY <1>1, <1>2 DEF Moves
<1> QED
  BY <1>4, <1>5 DEF Follows, v

\* The last request decides.
LEMMA FollowsLast ==
  ASSUME NEW s, NEW p \in Seq(SentRequest), NEW q \in Seq(SentRequest),
         Len(q) = 1, q[1].kind \in {"join", "leave"}
  PROVE  Follows(MovesTo(q[1]), s, p \o q)
<1>1. /\ Len(p) \in Nat
      /\ DOMAIN (p \o q) = 1..(Len(p) + 1)
      /\ (p \o q)[Len(p) + 1] = q[1]
  <2>1. /\ p \o q \in Seq(SentRequest) /\ Len(p \o q) = Len(p) + Len(q)
        /\ \A i \in 1..(Len(p) + Len(q)) :
             (p \o q)[i] = IF i <= Len(p) THEN p[i] ELSE q[i - Len(p)]
    BY ConcatProperties
  <2>2. Len(p) \in Nat /\ DOMAIN (p \o q) = 1..Len(p \o q)
    BY <2>1, LenProperties
  <2>3. /\ Len(p) + 1 \in 1..(Len(p) + Len(q))
        /\ ~(Len(p) + 1 <= Len(p)) /\ Len(p) + 1 - Len(p) = 1
    BY <2>2
  <2>4. (p \o q)[Len(p) + 1] = q[1]
    BY <2>1, <2>3
  <2> QED
    BY <2>1, <2>2, <2>4
<1>2. Len(p) + 1 \in Moves(p \o q)
  BY <1>1 DEF Moves
<1>3. ASSUME NEW i \in Moves(p \o q), \A j \in Moves(p \o q) : j <= i PROVE i = Len(p) + 1
  BY <1>1, <1>2, <1>3 DEF Moves
<1> QED
  BY <1>1, <1>2, <1>3 DEF Follows

\* Handling the first request makes the server follow.
LEMMA FollowsHandled ==
  ASSUME NEW cur, NEW s, NEW p \in Seq(SentRequest), NEW q \in Seq(SentRequest),
         Len(p) \in Nat \ {0}, Len(q) = Len(p) - 1, \A i \in 1..(Len(p) - 1) : q[i] = p[i + 1],
         Follows(cur, s, p)
  PROVE  Follows(cur, IF p[1].kind \in {"join", "leave"} THEN MovesTo(p[1]) ELSE s, q)
<1> DEFINE t == IF p[1].kind \in {"join", "leave"} THEN MovesTo(p[1]) ELSE s
<1>1. DOMAIN p = 1..Len(p) /\ DOMAIN q = 1..(Len(p) - 1)
  BY LenProperties
<1>2. \A i \in Moves(q) : i + 1 \in Moves(p) /\ q[i] = p[i + 1]
  BY <1>1 DEF Moves
<1>3. \A k \in Moves(p) : k = 1 \/ k - 1 \in Moves(q)
  <2> TAKE k \in Moves(p)
  <2>1. k \in 1..Len(p) /\ p[k].kind \in {"join", "leave"}
    BY <1>1 DEF Moves
  <2>2. CASE k # 1
    <3>1. k - 1 \in 1..(Len(p) - 1) /\ k - 1 + 1 = k
      BY <2>1, <2>2
    <3> QED
      BY <1>1, <2>1, <3>1 DEF Moves
  <2> QED
    BY <2>2
<1>4. ASSUME Moves(q) = {} PROVE cur = t
  <2>1. CASE p[1].kind \in {"join", "leave"}
    <3>1. 1 \in Moves(p) /\ \A j \in Moves(p) : j <= 1
      BY <1>1, <1>3, <1>4, <2>1 DEF Moves
    <3> QED
      BY <2>1, <3>1 DEF Follows
  <2>2. CASE p[1].kind \notin {"join", "leave"}
    <3>1. Moves(p) = {}
      BY <1>3, <1>4, <2>2 DEF Moves
    <3> QED
      BY <2>2, <3>1 DEF Follows
  <2> QED
    BY <2>1, <2>2
<1>5. ASSUME NEW i \in Moves(q), \A j \in Moves(q) : j <= i PROVE cur = MovesTo(q[i])
  <2>1. i \in 1..(Len(p) - 1) /\ i + 1 \in Moves(p) /\ q[i] = p[i + 1]
    BY <1>1, <1>2 DEF Moves
  <2>2. \A k \in Moves(p) : k <= i + 1
    <3> TAKE k \in Moves(p)
    <3>1. k \in Nat
      BY <1>1 DEF Moves
    <3> QED
      BY <1>3, <1>5, <2>1, <3>1
  <2> QED
    BY <2>1, <2>2 DEF Follows
<1> QED
  BY <1>4, <1>5 DEF Follows

\* What the server does by itself to the task of a connection and to the
\* session table: it enters a connection as in no session, it takes it off, or
\* it moves the task on.
LEMMA ServerMoves ==
  ASSUME AliveIsRegistered, NEW c \in Conn, ServerStep(c)
  PROVE  /\ \A x \in Conn : x # c => pc'[x] = pc[x]
         /\ \/ /\ pc[c] = "absent" /\ pc'[c] = "handshake"
               /\ connections' = Insert(connections, c, None)
            \/ pc'[c] = "done" /\ connections' = RemoveKey(connections, c)
            \/ /\ connections' = connections
               /\ \/ pc' = pc
                  \/ pc[c] = "handshake" /\ pc'[c] = "serving"
                  \/ pc'[c] \in {"closing", "notifying", "cleanup"}
<1> DEFINE Goal == /\ \A x \in Conn : x # c => pc'[x] = pc[x]
                   /\ \/ /\ pc[c] = "absent" /\ pc'[c] = "handshake"
                         /\ connections' = Insert(connections, c, None)
                      \/ pc'[c] = "done" /\ connections' = RemoveKey(connections, c)
                      \/ /\ connections' = connections
                         /\ \/ pc' = pc
                            \/ pc[c] = "handshake" /\ pc'[c] = "serving"
                            \/ pc'[c] \in {"closing", "notifying", "cleanup"}
<1>1. DOMAIN pc = Conn
  BY DEF AliveIsRegistered
<1>2. ASSUME Accept(c) PROVE Goal
  BY <1>1, <1>2 DEF Accept, Goto, register_connection
<1>3. ASSUME Cleanup(c) PROVE Goal
  BY <1>1, <1>3 DEF Cleanup, Goto, remove_connection
<1>4. ASSUME SendOne(c) \/ SendFails(c) \/ ForwardTask(c) \/ HangUp(c) PROVE Goal
  BY <1>4, SendingIsSilent DEF stateVars
<1>5. ASSUME Handshake(c) \/ HandshakeFails(c) \/ EndOfStream(c) \/ NotifyDisconnect(c) PROVE Goal
  <2>1. connections' = connections
    BY <1>5, MovesAreSilent DEF stateVars
  <2>2. \/ pc' = [pc EXCEPT ![c] = "serving"] /\ pc[c] = "handshake"
        \/ pc' = [pc EXCEPT ![c] = "cleanup"]
        \/ pc' = [pc EXCEPT ![c] = "closing"]
        \/ pc' = [pc EXCEPT ![c] = "notifying"]
    BY <1>5 DEF Handshake, HandshakeFails, EndOfStream, NotifyDisconnect, Goto
  <2> QED
    BY <1>1, <2>1, <2>2
<1> QED
  BY <1>2, <1>3, <1>4, <1>5 DEF ServerStep, Task

\* What the first request of a client does to the session table.
LEMMA DispatchMoves ==
  ASSUME SyncTypeOK, AliveIsRegistered, NetTypeOK, NEW c \in Conn, Dispatch(c)
  PROVE  /\ pc[c] = "serving" /\ pc' = pc
         /\ DOMAIN connections' = DOMAIN connections
         /\ \A x \in DOMAIN connections : x # c => connections'[x] = connections[x]
         /\ connections'[c] = IF up[c][1].kind \in {"join", "leave"} THEN MovesTo(up[c][1])
                              ELSE connections[c]
<1> DEFINE r == up[c][1]
           Goal == /\ DOMAIN connections' = DOMAIN connections
                   /\ \A x \in DOMAIN connections : x # c => connections'[x] = connections[x]
                   /\ connections'[c] = IF r.kind \in {"join", "leave"} THEN MovesTo(r)
                                        ELSE connections[c]
<1>1. pc[c] = "serving" /\ pc' = pc
  BY DispatchEffect, RequestEffect
<1>2. c \in DOMAIN connections /\ connections[c] \in SessionId \cup {None}
  BY <1>1, MapValue DEF AliveIsRegistered, Alive, SyncTypeOK, StateTypeOK
<1>3. r \in SentRequest
  BY DispatchEffect
<1>4. ASSUME r.kind = "join", handle_join_session(c, r.session) PROVE Goal
  <2>1. connections' = Insert(connections, c, r.session)
    BY <1>4 DEF handle_join_session, join_session
  <2> QED
    BY <1>2, <1>4, <2>1 DEF Insert, MovesTo
<1>5. ASSUME r.kind = "leave", handle_leave_session(c) PROVE Goal
  <2>1. MovesTo(r) = None
    BY <1>5 DEF MovesTo
  <2>2. CASE \E s \in SessionId : leave_session(c, s)
    <3>1. connections' = Insert(connections, c, None)
      BY <2>2 DEF leave_session
    <3> QED
      BY <1>2, <1>5, <2>1, <3>1 DEF Insert
  <2>3. CASE UNCHANGED stateVars /\ \A s \in SessionId : ~InSession(c, s)
    <3>1. connections' = connections /\ connections[c] = None
      BY <1>2, <2>3 DEF stateVars, InSession
    <3> QED
      BY <1>2, <1>5, <2>1, <3>1
  <2> QED
    BY <1>5, <2>2, <2>3 DEF handle_leave_session, stateVars
<1>6. ASSUME UNCHANGED connections, r.kind \notin {"join", "leave"} PROVE Goal
  BY <1>6
<1>7. ASSUME handle_register_actor(c, r.actor) PROVE UNCHANGED connections
  BY <1>7 DEF handle_register_actor, register_actor, stateVars
<1>8. ASSUME handle_actor_update(c, r.actor, r.data) PROVE UNCHANGED connections
  BY <1>8 DEF handle_actor_update, update_actor, create_actor, stateVars
<1>9. ASSUME handle_registered_message(c) PROVE UNCHANGED connections
  BY <1>9 DEF handle_registered_message, stateVars
<1>10. Goal
  <2> HIDE DEF Goal
  <2> QED
    BY <1>4, <1>5, <1>6, <1>7, <1>8, <1>9, DispatchEffect
<1> QED
  BY <1>1, <1>10

\* Requests are made and handled only for a connection that is served.
LEMMA FreshStep ==
  ASSUME SyncTypeOK, AliveIsRegistered, NetTypeOK, FreshInv, [NetNext]_netVars
  PROVE  FreshInv'
<1>1. ASSUME NEW c \in Conn, ServerStep(c) PROVE FreshInv'
  <2>1. UNCHANGED <<up, current_session_id>>
    BY <1>1, ServerEffect DEF clientVars
  <2> SUFFICES ASSUME NEW x \in Conn, Unserved(x)'
               PROVE  Unserved(x) /\ (x \in DOMAIN connections' => connections'[x] = None)
    BY <2>1 DEF FreshInv
  <2>2. CASE x = c
    BY <1>1, <2>2, ServerMoves DEF FreshInv, Unserved, Insert
  <2>3. CASE x # c
    <3>1. Unserved(x)
      BY <1>1, <2>3, ServerMoves DEF Unserved
    <3>2. \/ connections' = Insert(connections, c, None)
          \/ connections' = RemoveKey(connections, c)
          \/ connections' = connections
      BY <1>1, ServerMoves
    <3>3. x \in DOMAIN connections' => x \in DOMAIN connections /\ connections'[x] = connections[x]
      BY <2>3, <3>2 DEF Insert, RemoveKey, Restrict
    <3> QED
      BY <3>1, <3>3 DEF FreshInv
  <2> QED
    BY <2>2, <2>3
<1>2. ASSUME NEW c \in Conn, Dispatch(c) PROVE FreshInv'
  <2>1. /\ pc[c] = "serving" /\ pc' = pc
        /\ DOMAIN connections' = DOMAIN connections
        /\ \A x \in DOMAIN connections : x # c => connections'[x] = connections[x]
        /\ up' = [up EXCEPT ![c] = Tail(up[c])] /\ UNCHANGED current_session_id
    BY <1>2, DispatchMoves, DispatchEffect
  <2> SUFFICES ASSUME NEW x \in Conn, Unserved(x)'
               PROVE  /\ up'[x] = <<>> /\ current_session_id'[x] = None
                      /\ x \in DOMAIN connections' => connections'[x] = None
    BY DEF FreshInv
  <2>2. Unserved(x) /\ x # c
    BY <2>1 DEF Unserved
  <2> QED
    BY <2>1, <2>2 DEF FreshInv, NetTypeOK
<1>3. ASSUME NEW c \in Conn, Receive(c) PROVE FreshInv'
  BY <1>3, ReceiveEffect DEF FreshInv, Unserved, syncVars, stateVars, taskVars
<1>4. ASSUME NEW c \in Conn, GameStep(c) PROVE FreshInv'
  <2>1. /\ pc[c] = "serving" /\ UNCHANGED <<pc, connections>>
    BY <1>4, GameEffect DEF syncVars, stateVars, taskVars
  <2>2. PICK reqs, new : GameSends(c, reqs, new)
    BY <1>4, GameEffect
  <2>3. \A x \in Conn : x # c => up'[x] = up[x] /\ current_session_id'[x] = current_session_id[x]
    BY <2>2 DEF GameSends, NetTypeOK
  <2> QED
    BY <2>1, <2>3 DEF FreshInv, Unserved
<1>5. CASE UNCHANGED netVars
  BY <1>5 DEF FreshInv, Unserved, netVars, clientVars, syncVars, stateVars, taskVars
<1> QED
  BY <1>1, <1>2, <1>3, <1>4, <1>5 DEF NetNext

\* A request that is handled or made leaves the rest as it was believed.
LEMMA FollowsStep ==
  ASSUME SyncTypeOK, AliveIsRegistered, NetTypeOK, FreshInv, SessionFollowsRequests,
         [NetNext]_netVars
  PROVE  SessionFollowsRequests'
<1>1. ASSUME NEW c \in Conn, ServerStep(c) PROVE SessionFollowsRequests'
  <2>1. UNCHANGED <<up, current_session_id>>
    BY <1>1, ServerEffect DEF clientVars
  <2> SUFFICES ASSUME NEW x \in Conn, pc'[x] = "serving"
               PROVE  Follows(current_session_id[x], connections'[x], up[x])
    BY <2>1 DEF SessionFollowsRequests
  <2>2. CASE pc[x] = "serving"
    <3>1. x \in DOMAIN connections
      BY <2>2 DEF AliveIsRegistered, Alive
    <3>2. \/ x # c /\ connections' = Insert(connections, c, None)
          \/ x # c /\ connections' = RemoveKey(connections, c)
          \/ connections' = connections
      BY <1>1, <2>2, ServerMoves
    <3>3. connections'[x] = connections[x]
      BY <3>1, <3>2 DEF Insert, RemoveKey, Restrict
    <3> QED
      BY <2>2, <3>3 DEF SessionFollowsRequests
  <2>3. CASE pc[x] # "serving"
    <3>1. x = c /\ pc[x] = "handshake" /\ connections' = connections
      BY <1>1, <2>3, ServerMoves
    <3>2. /\ up[x] = <<>> /\ current_session_id[x] = None
          /\ connections'[x] = None
      BY <3>1 DEF FreshInv, Unserved, AliveIsRegistered, Alive
    <3> QED
      BY <3>2 DEF Follows, Moves
  <2> QED
    BY <2>2, <2>3
<1>2. ASSUME NEW c \in Conn, Dispatch(c) PROVE SessionFollowsRequests'
  <2>1. /\ pc[c] = "serving" /\ pc' = pc
        /\ \A x \in DOMAIN connections : x # c => connections'[x] = connections[x]
        /\ connections'[c] = IF up[c][1].kind \in {"join", "leave"} THEN MovesTo(up[c][1])
                             ELSE connections[c]
    BY <1>2, DispatchMoves
  <2>2. /\ Len(up[c]) \in Nat \ {0} /\ up' = [up EXCEPT ![c] = Tail(up[c])]
        /\ Tail(up[c]) \in Seq(SentRequest) /\ Len(Tail(up[c])) = Len(up[c]) - 1
        /\ \A i \in 1..(Len(up[c]) - 1) : Tail(up[c])[i] = up[c][i + 1]
        /\ UNCHANGED current_session_id
    BY <1>2, DispatchEffect
  <2>3. up[c] \in Seq(SentRequest) /\ DOMAIN up = Conn
    BY DEF NetTypeOK
  <2>4. Follows(current_session_id[c], connections[c], up[c])
    BY <2>1 DEF SessionFollowsRequests
  <2>5. Follows(current_session_id[c], connections'[c], Tail(up[c]))
    <3>1. Follows(current_session_id[c],
                  IF up[c][1].kind \in {"join", "leave"} THEN MovesTo(up[c][1]) ELSE connections[c],
                  Tail(up[c]))
      BY <2>2, <2>3, <2>4, FollowsHandled
    <3> QED
      BY <2>1, <3>1
  <2>6. ASSUME NEW x \in Conn, x # c, pc[x] = "serving"
        PROVE  Follows(current_session_id[x], connections'[x], up'[x])
    <3>1. x \in DOMAIN connections
      BY <2>6 DEF AliveIsRegistered, Alive
    <3> QED
      BY <2>1, <2>2, <2>3, <2>6, <3>1 DEF SessionFollowsRequests
  <2> QED
    BY <2>1, <2>2, <2>3, <2>5, <2>6 DEF SessionFollowsRequests
<1>3. ASSUME NEW c \in Conn, Receive(c) PROVE SessionFollowsRequests'
  BY <1>3, ReceiveEffect DEF SessionFollowsRequests, syncVars, stateVars, taskVars
<1>4. ASSUME NEW c \in Conn, GameStep(c) PROVE SessionFollowsRequests'
  <2>1. pc[c] = "serving" /\ UNCHANGED <<pc, connections>>
    BY <1>4, GameEffect DEF syncVars, stateVars, taskVars
  <2>2. PICK reqs, new : GameSends(c, reqs, new)
    BY <1>4, GameEffect
  <2>3. /\ up[c] \in Seq(SentRequest) /\ reqs \in Seq(SentRequest)
        /\ up'[c] = up[c] \o reqs
        /\ \A x \in Conn : x # c => up'[x] = up[x] /\ current_session_id'[x] = current_session_id[x]
    BY <2>2 DEF GameSends, NetTypeOK
  <2>4. Follows(current_session_id'[c], connections[c], up'[c])
    <3>1. CASE /\ \A i \in 1..Len(reqs) : reqs[i].kind \notin {"join", "leave"}
               /\ UNCHANGED current_session_id
      <4>1. Follows(current_session_id[c], connections[c], up[c])
        BY <2>1 DEF SessionFollowsRequests
      <4> QED
        BY <2>3, <3>1, <4>1, FollowsStays
    <3>2. CASE /\ Len(reqs) = 1 /\ reqs[1].kind \in {"join", "leave"}
               /\ current_session_id' = [current_session_id EXCEPT ![c] = MovesTo(reqs[1])]
      <4>1. current_session_id'[c] = MovesTo(reqs[1])
        BY <3>2 DEF NetTypeOK
      <4> QED
        BY <2>3, <3>2, <4>1, FollowsLast
    <3> QED
      BY <2>2, <3>1, <3>2 DEF GameSends
  <2> QED
    BY <2>1, <2>3, <2>4 DEF SessionFollowsRequests
<1>5. CASE UNCHANGED netVars
  BY <1>5 DEF SessionFollowsRequests, netVars, clientVars, syncVars, stateVars, taskVars
<1> QED
  BY <1>1, <1>2, <1>3, <1>4, <1>5 DEF NetNext

\* A request under way finds the session its runtime was in when it was made.
LEMMA UpdatesFollowStep ==
  ASSUME SyncTypeOK, AliveIsRegistered, NetTypeOK, FreshInv, SessionFollowsRequests,
         UpdatesFollow, [NetNext]_netVars
  PROVE  UpdatesFollow'
<1>0. \A x \in Conn : up[x] \in Seq(SentRequest) /\ Len(up[x]) \in Nat
  BY LenProperties DEF NetTypeOK
<1>1. ASSUME NEW c \in Conn, ServerStep(c) PROVE UpdatesFollow'
  <2>1. UNCHANGED up
    BY <1>1, ServerEffect DEF clientVars
  <2>2. ASSUME NEW x \in Conn, pc[x] = "serving", pc'[x] = "serving"
        PROVE  connections'[x] = connections[x]
    <3>1. x \in DOMAIN connections
      BY <2>2 DEF AliveIsRegistered, Alive
    <3>2. \/ x # c /\ connections' = Insert(connections, c, None)
          \/ x # c /\ connections' = RemoveKey(connections, c)
          \/ connections' = connections
      BY <1>1, <2>2, ServerMoves
    <3> QED
      BY <3>1, <3>2 DEF Insert, RemoveKey, Restrict
  <2>3. ASSUME NEW x \in Conn, pc[x] # "serving", pc'[x] = "serving" PROVE Len(up[x]) = 0
    <3>1. x = c /\ pc[x] = "handshake"
      BY <1>1, <2>3, ServerMoves
    <3> QED
      BY <3>1 DEF FreshInv, Unserved
  <2> QED
    BY <2>1, <2>2, <2>3 DEF UpdatesFollow
<1>2. ASSUME NEW c \in Conn, Dispatch(c) PROVE UpdatesFollow'
  <2>1. /\ pc[c] = "serving" /\ pc' = pc
        /\ \A x \in DOMAIN connections : x # c => connections'[x] = connections[x]
        /\ connections'[c] = IF up[c][1].kind \in {"join", "leave"} THEN MovesTo(up[c][1])
                             ELSE connections[c]
    BY <1>2, DispatchMoves
  <2>2. /\ Len(up[c]) \in Nat \ {0} /\ up' = [up EXCEPT ![c] = Tail(up[c])]
        /\ Tail(up[c]) \in Seq(SentRequest) /\ Len(Tail(up[c])) = Len(up[c]) - 1
        /\ \A i \in 1..(Len(up[c]) - 1) : Tail(up[c])[i] = up[c][i + 1]
    BY <1>2, DispatchEffect
  <2>3. /\ up'[c] = Tail(up[c]) /\ \A x \in Conn : x # c => up'[x] = up[x]
    BY <2>2 DEF NetTypeOK
  <2>4. ASSUME NEW i \in 1..Len(up'[c]), up'[c][i].kind = "update"
        PROVE  \E s \in SessionId : Follows(s, connections'[c], SubSeq(up'[c], 1, i - 1))
    <3> DEFINE p == SubSeq(up[c], 1, i)
               q == SubSeq(Tail(up[c]), 1, i - 1)
    <3>0. Len(up'[c]) = Len(up[c]) - 1
      BY <2>2, <2>3
    <3>1. i \in 1..(Len(up[c]) - 1) /\ i + 1 \in 1..Len(up[c]) /\ i + 1 - 1 = i
      BY <2>2, <2>4, <3>0
    <3>2. PICK s \in SessionId : Follows(s, connections[c], p)
      <4>1. up[c][i + 1].kind = "update"
        BY <2>2, <2>3, <2>4, <3>1
      <4>2. \E s \in SessionId : Follows(s, connections[c], SubSeq(up[c], 1, i + 1 - 1))
        BY <2>1, <3>1, <4>1 DEF UpdatesFollow
      <4> QED
        BY <3>1, <4>2
    <3>3. /\ p \in Seq(SentRequest) /\ Len(p) = i
          /\ \A j \in 1..i : p[j] = up[c][j]
      <4>1. \A j \in 1..i : up[c][j] \in SentRequest
        BY <1>0, <3>1, ElementOfSeq
      <4> QED
        BY <3>1, <4>1, SubSeqProperties
    <3>4. /\ q \in Seq(SentRequest) /\ Len(q) = i - 1
          /\ \A j \in 1..(i - 1) : q[j] = up[c][j + 1]
      <4>1. \A j \in 1..(i - 1) : Tail(up[c])[j] \in SentRequest
        BY <2>2, <3>1, ElementOfSeq
      <4>2. q \in Seq(SentRequest)
        BY <3>1, <4>1, SubSeqProperties
      <4>3. Len(q) = IF 1 <= i - 1 THEN i - 1 - 1 + 1 ELSE 0
        BY <3>1, <4>1, SubSeqProperties
      <4>4. \A j \in 1..(i - 1) : q[j] = Tail(up[c])[j]
        BY <3>1, <4>1, SubSeqProperties
      <4> QED
        BY <2>2, <3>1, <4>2, <4>3, <4>4
    <3> HIDE DEF p, q
    <3>5. p[1] = up[c][1]
      BY <3>1, <3>3
    <3>6. Follows(s, IF p[1].kind \in {"join", "leave"} THEN MovesTo(p[1]) ELSE connections[c], q)
      <4>1. /\ Len(p) \in Nat \ {0} /\ Len(q) = Len(p) - 1
            /\ \A j \in 1..(Len(p) - 1) : q[j] = p[j + 1]
        BY <3>1, <3>3, <3>4
      <4> QED
        BY <3>2, <3>3, <3>4, <4>1, FollowsHandled
    <3> QED
      BY <2>1, <2>3, <3>5, <3>6 DEF q
  <2>5. ASSUME NEW x \in Conn, x # c, pc[x] = "serving" PROVE connections'[x] = connections[x]
    BY <2>1, <2>5 DEF AliveIsRegistered, Alive
  <2> QED
    BY <2>1, <2>3, <2>4, <2>5 DEF UpdatesFollow
<1>3. ASSUME NEW c \in Conn, Receive(c) PROVE UpdatesFollow'
  BY <1>3, ReceiveEffect DEF UpdatesFollow, syncVars, stateVars, taskVars
<1>4. ASSUME NEW c \in Conn, GameStep(c) PROVE UpdatesFollow'
  <2>1. pc[c] = "serving" /\ UNCHANGED <<pc, connections>>
    BY <1>4, GameEffect DEF syncVars, stateVars, taskVars
  <2>2. PICK reqs, new : GameSends(c, reqs, new)
    BY <1>4, GameEffect
  <2>3. /\ reqs \in Seq(SentRequest)
        /\ up'[c] = up[c] \o reqs
        /\ \A x \in Conn : x # c => up'[x] = up[x]
    BY <2>2 DEF GameSends, NetTypeOK
  <2>4. /\ Len(reqs) \in Nat
        /\ up'[c] \in Seq(SentRequest) /\ Len(up'[c]) = Len(up[c]) + Len(reqs)
        /\ \A j \in 1..(Len(up[c]) + Len(reqs)) :
             up'[c][j] = IF j <= Len(up[c]) THEN up[c][j] ELSE reqs[j - Len(up[c])]
    BY <1>0, <2>3, ConcatProperties, LenProperties
  <2>5. ASSUME NEW i \in 1..Len(up'[c]), up'[c][i].kind = "update"
        PROVE  \E s \in SessionId : Follows(s, connections[c], SubSeq(up'[c], 1, i - 1))
    <3> DEFINE before == SubSeq(up'[c], 1, i - 1)
    <3>1. /\ before \in Seq(SentRequest) /\ Len(before) = i - 1
          /\ \A j \in 1..(i - 1) : before[j] = up'[c][j]
      <4>1. \A j \in 1..(i - 1) : up'[c][j] \in SentRequest
        BY <2>4, <2>5, ElementOfSeq
      <4>2. before \in Seq(SentRequest) /\ \A j \in 1..(i - 1) : before[j] = up'[c][j]
        BY <2>5, <4>1, SubSeqProperties
      <4>3. Len(before) = IF 1 <= i - 1 THEN i - 1 - 1 + 1 ELSE 0
        BY <2>5, <4>1, SubSeqProperties
      <4> QED
        BY <2>4, <2>5, <4>2, <4>3
    <3> HIDE DEF before
    <3>2. CASE i <= Len(up[c])
      <4> DEFINE old == SubSeq(up[c], 1, i - 1)
      <4>1. i \in 1..Len(up[c]) /\ up[c][i].kind = "update"
        BY <1>0, <2>4, <2>5, <3>2
      <4>2. PICK s \in SessionId : Follows(s, connections[c], old)
        BY <2>1, <4>1 DEF UpdatesFollow
      <4>3. \A j \in 1..(i - 1) : up[c][j] \in SentRequest /\ up'[c][j] = up[c][j]
        BY <1>0, <2>4, <4>1, ElementOfSeq
      <4>4. old \in Seq(SentRequest) /\ \A j \in 1..(i - 1) : old[j] = up[c][j]
        BY <4>1, <4>3, SubSeqProperties
      <4>5. Len(old) = IF 1 <= i - 1 THEN i - 1 - 1 + 1 ELSE 0
        BY <4>1, <4>3, SubSeqProperties
      <4> HIDE DEF old
      <4>6. Len(old) = i - 1
        BY <4>1, <4>5
      <4>7. old = before
        BY <3>1, <4>1, <4>3, <4>4, <4>6, SeqEqual
      <4> QED
        BY <4>2, <4>7 DEF before
    <3>3. CASE ~(i <= Len(up[c]))
      <4> DEFINE k == i - 1 - Len(up[c])
                 made == SubSeq(reqs, 1, k)
      <4>1. /\ k \in Nat /\ k + 1 \in 1..Len(reqs) /\ i = Len(up[c]) + k + 1
            /\ reqs[k + 1].kind = "update"
        BY <1>0, <2>4, <2>5, <3>3
      <4> HIDE DEF k
      <4>2. /\ \A j \in 1..Len(reqs) : reqs[j].kind \notin {"join", "leave"}
            /\ current_session_id[c] # None
        BY <2>2, <4>1 DEF GameSends
      <4>3. \A j \in 1..k : j \in 1..Len(reqs) /\ reqs[j] \in SentRequest
        BY <2>3, <2>4, <4>1, ElementOfSeq
      <4>4. made \in Seq(SentRequest) /\ \A j \in 1..k : made[j] = reqs[j]
        BY <4>1, <4>3, SubSeqProperties
      <4>5. Len(made) = IF 1 <= k THEN k - 1 + 1 ELSE 0
        BY <4>1, <4>3, SubSeqProperties
      <4> HIDE DEF made
      <4>6. Len(made) = k
        BY <4>1, <4>5
      <4>7. Follows(current_session_id[c], connections[c], up[c])
        BY <2>1 DEF SessionFollowsRequests
      <4>8. Follows(current_session_id[c], connections[c], up[c] \o made)
        BY <1>0, <4>2, <4>3, <4>4, <4>6, <4>7, FollowsStays
      <4>9. /\ up[c] \o made \in Seq(SentRequest) /\ Len(up[c] \o made) = i - 1
            /\ \A j \in 1..(i - 1) :
                 (up[c] \o made)[j] = IF j <= Len(up[c]) THEN up[c][j] ELSE made[j - Len(up[c])]
        <5>1. Len(up[c]) + Len(made) = i - 1
          BY <1>0, <4>1, <4>6
        <5> QED
          BY <1>0, <4>4, <5>1, ConcatProperties
      <4>10. \A j \in 1..(i - 1) : (up[c] \o made)[j] = before[j]
        <5> TAKE j \in 1..(i - 1)
        <5>1. j \in 1..(Len(up[c]) + Len(reqs)) /\ before[j] = up'[c][j]
          BY <1>0, <2>4, <3>1, <4>1
        <5>2. ~(j <= Len(up[c])) => j - Len(up[c]) \in 1..k
          BY <1>0, <4>1
        <5> QED
          BY <2>4, <4>4, <4>9, <5>1, <5>2
      <4>11. up[c] \o made = before
        BY <3>1, <4>9, <4>10, SeqEqual
      <4>12. current_session_id[c] \in SessionId
        BY <4>2 DEF NetTypeOK
      <4> QED
        BY <4>8, <4>11, <4>12 DEF before
    <3> QED
      BY <3>2, <3>3
  <2> QED
    BY <2>1, <2>3, <2>5 DEF UpdatesFollow
<1>5. CASE UNCHANGED netVars
  BY <1>5 DEF UpdatesFollow, netVars, clientVars, syncVars, stateVars, taskVars
<1> QED
  BY <1>1, <1>2, <1>3, <1>4, <1>5 DEF NetNext

---------------------------------------------------------------------------
(* The actors a client counts as its own *)

\* Requests name local actors, and no actor ceases to be local.
LEMMA AskedStep ==
  ASSUME SyncTypeOK, NetTypeOK, AskedIsLocal, [NetNext]_netVars
  PROVE  AskedIsLocal' /\ \A x \in Conn : local_actors[x] \subseteq local_actors'[x]
<1> DEFINE Goal == AskedIsLocal' /\ \A x \in Conn : local_actors[x] \subseteq local_actors'[x]
<1>1. ASSUME UNCHANGED up, \A x \in Conn : local_actors[x] \subseteq local_actors'[x]
      PROVE  Goal
  BY <1>1 DEF AskedIsLocal
<1>2. ASSUME NEW c \in Conn, ServerStep(c) PROVE Goal
  BY <1>1, <1>2, ServerEffect DEF clientVars
<1>3. ASSUME NEW c \in Conn, Receive(c) PROVE Goal
  BY <1>1, <1>3, ReceiveEffect
<1>4. ASSUME NEW c \in Conn, Dispatch(c) PROVE Goal
  <2>1. /\ Len(up[c]) \in Nat \ {0} /\ up' = [up EXCEPT ![c] = Tail(up[c])]
        /\ Len(Tail(up[c])) = Len(up[c]) - 1
        /\ \A i \in 1..(Len(up[c]) - 1) : Tail(up[c])[i] = up[c][i + 1]
        /\ UNCHANGED local_actors
    BY <1>4, DispatchEffect
  <2>2. ASSUME NEW i \in 1..Len(up'[c])
        PROVE  up'[c][i].kind \in {"register", "update"} => up'[c][i].actor \in local_actors[c]
    <3>1. /\ i \in 1..(Len(up[c]) - 1) /\ i + 1 \in 1..Len(up[c])
          /\ up'[c][i] = up[c][i + 1]
      BY <2>1, <2>2 DEF NetTypeOK
    <3> QED
      BY <3>1 DEF AskedIsLocal
  <2>3. \A x \in Conn : x # c => up'[x] = up[x]
    BY <2>1 DEF NetTypeOK
  <2> QED
    BY <2>1, <2>2, <2>3 DEF AskedIsLocal
<1>5. ASSUME NEW c \in Conn, GameStep(c) PROVE Goal
  <2>1. PICK reqs, new : GameSends(c, reqs, new)
    BY <1>5, GameEffect
  <2>2. /\ up[c] \in Seq(SentRequest) /\ reqs \in Seq(SentRequest)
        /\ up'[c] = up[c] \o reqs
        /\ local_actors'[c] = local_actors[c] \cup new
        /\ \A x \in Conn : x # c => up'[x] = up[x] /\ local_actors'[x] = local_actors[x]
    BY <2>1 DEF GameSends, NetTypeOK
  <2>3. ASSUME NEW i \in 1..Len(up'[c])
        PROVE  up'[c][i].kind \in {"register", "update"} => up'[c][i].actor \in local_actors'[c]
    <3>1. /\ Len(up[c]) \in Nat /\ Len(reqs) \in Nat
          /\ Len(up'[c]) = Len(up[c]) + Len(reqs)
          /\ up'[c][i] = IF i <= Len(up[c]) THEN up[c][i] ELSE reqs[i - Len(up[c])]
      BY <2>2, <2>3, ConcatProperties, LenProperties
    <3>2. CASE i <= Len(up[c])
      <4>1. i \in 1..Len(up[c])
        BY <3>1, <3>2
      <4> QED
        BY <2>2, <3>1, <3>2, <4>1 DEF AskedIsLocal
    <3>3. CASE ~(i <= Len(up[c]))
      <4>1. i - Len(up[c]) \in 1..Len(reqs)
        BY <3>1, <3>3
      <4> QED
        BY <2>1, <2>2, <3>1, <3>3, <4>1 DEF GameSends
    <3> QED
      BY <3>2, <3>3
  <2> QED
    BY <2>2, <2>3 DEF AskedIsLocal
<1>6. CASE UNCHANGED netVars
  BY <1>1, <1>6 DEF netVars, clientVars
<1> QED
  BY <1>2, <1>3, <1>4, <1>5, <1>6 DEF NetNext

\* An actor of a table after a step that was there before, with the same owner
Kept(s, a) ==
  /\ s \in DOMAIN session_actors /\ a \in DOMAIN session_actors[s]
  /\ session_actors'[s][a].owner_id = session_actors[s][a].owner_id

\* No critical section but those that set an actor adds one or changes an owner.
LEMMA OwnersStay ==
  ASSUME StateTypeOK, NEW c \in Conn,
         \/ UNCHANGED session_actors
         \/ remove_connection(c)
         \/ \E s \in SessionId : join_session(c, s) \/ leave_session(c, s)
  PROVE  \A s \in DOMAIN session_actors' : \A a \in DOMAIN session_actors'[s] : Kept(s, a)
<1> DEFINE Goal == \A s \in DOMAIN session_actors' : \A a \in DOMAIN session_actors'[s] : Kept(s, a)
<1>1. ASSUME UNCHANGED session_actors PROVE Goal
  BY <1>1 DEF Kept
<1>2. ASSUME NEW s \in SessionId, DropFromSession(c, s) PROVE Goal
  <2>1. /\ DOMAIN session_actors' = DOMAIN session_actors
        /\ \A t \in SessionId : t # s => get_session_actors(t)' = get_session_actors(t)
        /\ s \in DOMAIN session_actors => session_actors'[s] = RetainOthers(session_actors[s], c)
    BY <1>2, DropEffect
  <2>2. \A t \in DOMAIN session_actors : t # s => session_actors'[t] = session_actors[t]
    BY <2>1 DEF get_session_actors, GetOr, StateTypeOK, IsMap
  <2>3. s \in DOMAIN session_actors => \A a \in DOMAIN session_actors'[s] : Kept(s, a)
    BY <2>1 DEF RetainOthers, Restrict, Kept
  <2> QED
    BY <2>1, <2>2, <2>3 DEF Kept
<1>3. ASSUME NEW s \in SessionId, join_session(c, s) PROVE Goal
  <2>1. /\ DOMAIN session_actors' = DOMAIN session_actors \cup {s}
        /\ \A t \in SessionId : get_session_actors(t)' = get_session_actors(t)
        /\ DOMAIN session_actors' \subseteq SessionId
    BY <1>3, JoinEffect DEF StateTypeOK, IsMap
  <2> SUFFICES ASSUME NEW t \in DOMAIN session_actors', NEW a \in DOMAIN session_actors'[t]
               PROVE  Kept(t, a)
    OBVIOUS
  <2>2. session_actors'[t] = get_session_actors(t)
    BY <2>1 DEF get_session_actors, GetOr
  <2>3. t \in DOMAIN session_actors
    BY <2>2 DEF get_session_actors, GetOr, EmptyMap
  <2> QED
    BY <2>2, <2>3 DEF get_session_actors, GetOr, Kept
<1>4. ASSUME NEW s \in SessionId, leave_session(c, s) PROVE Goal
  BY <1>2, <1>4 DEF leave_session
<1>5. ASSUME remove_connection(c) PROVE Goal
  BY <1>1, <1>2, <1>5 DEF remove_connection
<1> QED
  BY <1>1, <1>3, <1>4, <1>5

\* Setting an actor keeps all others.
LEMMA OthersKept ==
  ASSUME StateTypeOK, NEW c \in Conn, NEW s \in SessionId, NEW a \in ActorId,
         NEW d \in Data \cup {None}, SetActor(c, s, a, d)
  PROVE  \A t \in DOMAIN session_actors' : \A b \in DOMAIN session_actors'[t] :
           Kept(t, b) \/ (b = a /\ session_actors'[t][b].owner_id = c)
<1>1. /\ DOMAIN session_actors' = DOMAIN session_actors
      /\ session_actors'[s] = Insert(session_actors[s], a, NewActor(c, d))
      /\ \A t \in DOMAIN session_actors : t # s => session_actors'[t] = session_actors[t]
  BY SetActorEffect
<1>2. NewActor(c, d).owner_id = c
  BY NewActorFields
<1>3. s \in DOMAIN session_actors
  BY DEF SetActor
<1>4. \A b \in DOMAIN session_actors'[s] :
         Kept(s, b) \/ (b = a /\ session_actors'[s][b].owner_id = c)
  BY <1>1, <1>2, <1>3 DEF Insert, Kept
<1> QED
  BY <1>1, <1>3, <1>4 DEF Kept

\* The first request of a client adds at most the actor it names.
LEMMA DispatchOwners ==
  ASSUME SyncTypeOK, NetTypeOK, NEW c \in Conn, Dispatch(c)
  PROVE  \A s \in DOMAIN session_actors' : \A a \in DOMAIN session_actors'[s] :
           \/ Kept(s, a)
           \/ /\ up[c][1].kind \in {"register", "update"} /\ a = up[c][1].actor
              /\ session_actors'[s][a].owner_id = c
<1> DEFINE r == up[c][1]
           Goal == \A s \in DOMAIN session_actors' : \A a \in DOMAIN session_actors'[s] :
                     \/ Kept(s, a)
                     \/ /\ r.kind \in {"register", "update"} /\ a = r.actor
                        /\ session_actors'[s][a].owner_id = c
<1>1. r \in SentRequest /\ StateTypeOK
  BY DispatchEffect DEF SyncTypeOK
<1>2. ASSUME \/ UNCHANGED session_actors
             \/ \E s \in SessionId : join_session(c, s) \/ leave_session(c, s)
      PROVE  Goal
  BY <1>1, <1>2, OwnersStay
<1>3. ASSUME r.kind \in {"register", "update"}, NEW s \in SessionId, NEW d \in Data \cup {None},
             SetActor(c, s, r.actor, d)
      PROVE  Goal
  <2>1. r.actor \in ActorId
    BY <1>1, <1>3, RequestFields
  <2>2. \A t \in DOMAIN session_actors' : \A b \in DOMAIN session_actors'[t] :
           Kept(t, b) \/ (b = r.actor /\ session_actors'[t][b].owner_id = c)
    BY <1>1, <1>3, <2>1, OthersKept
  <2> QED
    BY <1>3, <2>2
<1> HIDE DEF Goal
<1>4. ASSUME r.kind = "join", handle_join_session(c, r.session) PROVE Goal
  BY <1>1, <1>2, <1>4, RequestFields DEF handle_join_session
<1>5. ASSUME handle_leave_session(c) PROVE Goal
  BY <1>2, <1>5 DEF handle_leave_session, stateVars
<1>6. ASSUME r.kind = "register", handle_register_actor(c, r.actor) PROVE Goal
  <2>1. r.actor \in ActorId
    BY <1>1, <1>6, RequestFields
  <2>2. UNCHANGED session_actors \/ \E s \in SessionId : SetActor(c, s, r.actor, None)
    BY <1>6, <2>1, ActorHandlersSetActor DEF handle_register_actor, stateVars
  <2> QED
    BY <1>2, <1>3, <1>6, <2>2
<1>7. ASSUME r.kind = "update", handle_actor_update(c, r.actor, r.data) PROVE Goal
  <2>1. r.actor \in ActorId /\ r.data \in Data
    BY <1>1, <1>7, RequestFields
  <2>2. UNCHANGED session_actors \/ \E s \in SessionId : SetActor(c, s, r.actor, r.data)
    BY <1>7, <2>1, ActorHandlersSetActor DEF handle_actor_update, stateVars
  <2> QED
    BY <1>2, <1>3, <1>7, <2>1, <2>2
<1>8. ASSUME handle_registered_message(c) PROVE Goal
  BY <1>2, <1>8 DEF handle_registered_message, stateVars
<1>9. Goal
  BY <1>4, <1>5, <1>6, <1>7, <1>8, DispatchEffect
<1> QED
  BY <1>9 DEF Goal

\* An actor the server adds is one its client asked for, and stays local.
LEMMA OwnedStep ==
  ASSUME SyncTypeOK, AliveIsRegistered, NetTypeOK, AskedIsLocal, OwnedIsLocal, [NetNext]_netVars
  PROVE  OwnedIsLocal'
<1>1. \A x \in Conn : local_actors[x] \subseteq local_actors'[x]
  BY AskedStep
<1>2. \A s \in DOMAIN session_actors : \A a \in DOMAIN session_actors[s] :
         session_actors[s][a].owner_id \in Conn
  <2> TAKE s \in DOMAIN session_actors
  <2>1. session_actors[s] \in ActorMap
    BY MapValue DEF SyncTypeOK, StateTypeOK
  <2> QED
    BY <2>1, ActorTables DEF Actor
<1>3. ASSUME NEW s, NEW a, Kept(s, a)
      PROVE  a \in local_actors'[session_actors'[s][a].owner_id]
  BY <1>1, <1>2, <1>3 DEF OwnedIsLocal, Kept
<1>4. ASSUME \A s \in DOMAIN session_actors' : \A a \in DOMAIN session_actors'[s] : Kept(s, a)
      PROVE  OwnedIsLocal'
  BY <1>3, <1>4 DEF OwnedIsLocal
<1>5. ASSUME UNCHANGED session_actors PROVE OwnedIsLocal'
  BY <1>4, <1>5, OwnersStay DEF Kept
<1>6. ASSUME NEW c \in Conn, ServerStep(c) PROVE OwnedIsLocal'
  <2>1. CASE Accept(c)
    BY <1>5, <2>1 DEF Accept, register_connection
  <2>2. CASE Cleanup(c)
    BY <1>4, <2>2, OwnersStay DEF Cleanup, SyncTypeOK
  <2>3. CASE SendOne(c) \/ SendFails(c) \/ ForwardTask(c) \/ HangUp(c)
    BY <1>5, <2>3, SendingIsSilent DEF stateVars
  <2>4. CASE Handshake(c) \/ HandshakeFails(c) \/ EndOfStream(c) \/ NotifyDisconnect(c)
    BY <1>5, <2>4, MovesAreSilent DEF stateVars
  <2> QED
    BY <1>6, <2>1, <2>2, <2>3, <2>4 DEF ServerStep, Task
<1>7. ASSUME NEW c \in Conn, Dispatch(c) PROVE OwnedIsLocal'
  <2>1. /\ Len(up[c]) \in Nat \ {0}
        /\ UNCHANGED local_actors
    BY <1>7, DispatchEffect
  <2>2. up[c][1].kind \in {"register", "update"} => up[c][1].actor \in local_actors'[c]
    BY <2>1 DEF AskedIsLocal
  <2> QED
    BY <1>3, <1>7, <2>2, DispatchOwners DEF OwnedIsLocal
<1>8. ASSUME NEW c \in Conn, Receive(c) \/ GameStep(c) PROVE OwnedIsLocal'
  BY <1>5, <1>8, ReceiveEffect, GameEffect DEF syncVars, stateVars
<1>9. CASE UNCHANGED netVars
  BY <1>5, <1>9 DEF netVars, syncVars, stateVars
<1> QED
  BY <1>6, <1>7, <1>8, <1>9 DEF NetNext

---------------------------------------------------------------------------
(* Snapshots name local actors only *)

LEMMA IdStep ==
  ASSUME NetTypeOK, IdInv, [NetNext]_netVars
  PROVE  IdInv'
<1>1. CASE UNCHANGED <<connected, client_id>>
  BY <1>1 DEF IdInv
<1>2. ASSUME NEW c \in Conn, Receive(c) PROVE IdInv'
  <2>1. ASSUME Client!process_welcome(c, c) PROVE IdInv'
    BY <2>1 DEF Client!process_welcome, IdInv, NetTypeOK
  <2>2. ASSUME NEW as, Client!process_sync(c, as) PROVE IdInv'
    BY <1>1, <2>2 DEF Client!process_sync
  <2>3. ASSUME NEW m, Client!process_text(c, m) PROVE IdInv'
    BY <1>1, <2>3 DEF Client!process_text
  <2> QED
    BY <1>2, <2>1, <2>2, <2>3 DEF Receive
<1>3. ASSUME NEW c \in Conn, ServerStep(c) \/ Dispatch(c) \/ GameStep(c) PROVE IdInv'
  BY <1>1, <1>3, ServerEffect, DispatchEffect, GameEffect DEF clientVars
<1>4. CASE UNCHANGED netVars
  BY <1>1, <1>4 DEF netVars, clientVars
<1> QED
  BY <1>2, <1>3, <1>4 DEF NetNext

\* What is local stays local.
LEMMA KnownLasts ==
  ASSUME NEW m \in Message, NEW local, NEW later, Known(m, local),
         \A x \in Conn : local[x] \subseteq later[x]
  PROVE  Known(m, later)
<1> SUFFICES ASSUME m.kind = "sync", NEW a \in DOMAIN m.actors
             PROVE  a \in later[m.actors[a].owner_id]
  BY DEF Known
<1>1. m.actors \in ActorMap
  BY MessageFields
<1>2. m.actors[a].owner_id \in Conn
  BY <1>1, ActorTables DEF Actor
<1> QED
  BY <1>2 DEF Known

\* A copy of a session's actors, now or after the step
LEMMA CopyKnown ==
  OwnedIsLocal => \A s \in SessionId : \A ms : Known(Sync(ms, get_session_actors(s)), local_actors)
<1> SUFFICES ASSUME OwnedIsLocal, NEW s \in SessionId, NEW ms,
                    NEW a \in DOMAIN get_session_actors(s)
             PROVE  a \in local_actors[get_session_actors(s)[a].owner_id]
  BY DEF Known, Sync
<1>1. CASE s \in DOMAIN session_actors
  BY <1>1 DEF OwnedIsLocal, get_session_actors, GetOr
<1>2. CASE s \notin DOMAIN session_actors
  BY <1>2 DEF get_session_actors, GetOr, EmptyMap
<1> QED
  BY <1>1, <1>2

LEMMA CopyKnownNext ==
  OwnedIsLocal' =>
    \A s \in SessionId : \A ms : Known(Sync(ms, get_session_actors(s)'), local_actors')
<1> SUFFICES ASSUME OwnedIsLocal', NEW s \in SessionId, NEW ms,
                    NEW a \in DOMAIN get_session_actors(s)'
             PROVE  a \in local_actors'[get_session_actors(s)'[a].owner_id]
  BY DEF Known, Sync
<1>1. CASE s \in DOMAIN session_actors'
  BY <1>1 DEF OwnedIsLocal, get_session_actors, GetOr
<1>2. CASE s \notin DOMAIN session_actors'
  BY <1>2 DEF get_session_actors, GetOr, EmptyMap
<1> QED
  BY <1>1, <1>2

\* A snapshot is taken from the tables, and what is posted was in an outbox.
LEMMA KnownStep ==
  ASSUME ServerInv, SyncTypeOK', NetTypeOK, AskedIsLocal, OwnedIsLocal, OwnedIsLocal', KnownInv,
         [NetNext]_netVars
  PROVE  KnownInv'
<1>1. /\ \A x \in Conn : local_actors[x] \subseteq local_actors'[x]
      /\ SyncTypeOK /\ AliveIsRegistered
  BY AskedStep DEF ServerInv
<1>2. /\ posted \in [Conn -> Seq(Message)]
      /\ outbox \in [Conn -> [to : SUBSET Conn, msg : Message]]
      /\ outbox' \in [Conn -> [to : SUBSET Conn, msg : Message]]
  BY <1>1 DEF SyncTypeOK
<1>3. \A x \in Conn : Known(outbox[x].msg, local_actors')
  BY <1>1, <1>2, KnownLasts DEF KnownInv
<1>4. \A x \in Conn : \A i \in 1..Len(posted[x]) : Known(posted[x][i], local_actors')
  BY <1>1, <1>2, ElementOfSeq, KnownLasts DEF KnownInv
<1> DEFINE Old(x) == outbox'[x] = outbox[x] \/ Known(outbox'[x].msg, local_actors')
<1>5. ASSUME posted' = posted, \A x \in Conn : Old(x) PROVE KnownInv'
  BY <1>3, <1>4, <1>5 DEF KnownInv
<1>6. ASSUME NEW c \in Conn, posted' = posted, NEW ms, NEW m,
             outbox' = [outbox EXCEPT ![c] = [to |-> ms, msg |-> m]], Known(m, local_actors')
      PROVE  KnownInv'
  BY <1>2, <1>5, <1>6
<1>7. Known(Welcome, local_actors') /\ \A c, n : Known(Text(c, n), local_actors')
  BY DEF Known, Welcome, Text
<1> HIDE DEF Old
<1>8. ASSUME NEW c \in Conn, Request(c) PROVE KnownInv'
  <2>1. posted' = posted /\ RequestSends(c)
    BY <1>1, <1>8, RequestEffect
  <2>2. ASSUME NEW s \in SessionId, outbox' = [outbox EXCEPT ![c] =
                 Snapshot(get_session_members(s)', get_session_actors(s)')]
        PROVE  KnownInv'
    BY <1>6, <2>1, <2>2, CopyKnownNext DEF Snapshot
  <2>3. ASSUME NEW ms, NEW n, outbox' = [outbox EXCEPT ![c] = [to |-> ms, msg |-> Text(c, n)]]
        PROVE  KnownInv'
    BY <1>6, <1>7, <2>1, <2>3
  <2>4. CASE outbox' = outbox
    BY <1>5, <2>1, <2>4 DEF Old
  <2>5. CASE outbox' = [outbox EXCEPT ![c] = Nothing]
    BY <1>6, <1>7, <2>1, <2>5 DEF Nothing
  <2> QED
    BY <2>1, <2>2, <2>3, <2>4, <2>5 DEF RequestSends
<1>9. ASSUME NEW c \in Conn, NotifyDisconnect(c) PROVE KnownInv'
  <2>1. posted' = posted /\ NotifySends(c)
    BY <1>9, NotifyEffect
  <2>2. ASSUME NEW s \in SessionId, NEW ms,
               outbox' = [outbox EXCEPT ![c] = Snapshot(ms, get_session_actors(s))],
               Sync(ms, get_session_actors(s)) \in Message
        PROVE  KnownInv'
    <3>1. Known(Sync(ms, get_session_actors(s)), local_actors')
      BY <1>1, <2>2, CopyKnown, KnownLasts
    <3> QED
      BY <1>6, <2>1, <2>2, <3>1 DEF Snapshot
  <2>3. ASSUME NEW s \in SessionId
        PROVE  Sync(get_session_members(s) \ {c}, get_session_actors(s)) \in Message
    <3>1. get_session_members(s) \ {c} \in SUBSET Conn /\ get_session_actors(s) \in ActorMap
      BY <1>1, LookupTypes DEF SyncTypeOK
    <3> QED
      BY <3>1, MessageTypes
  <2>4. CASE outbox' = outbox
    BY <1>5, <2>1, <2>4 DEF Old
  <2>5. CASE outbox' = [outbox EXCEPT ![c] = Nothing]
    BY <1>6, <1>7, <2>1, <2>5 DEF Nothing
  <2> QED
    BY <2>1, <2>2, <2>3, <2>4, <2>5 DEF NotifySends
<1>10. ASSUME NEW c \in Conn, SendOne(c) PROVE KnownInv'
  <2>1. PICK t \in Conn : SendTo(c, t)
    BY <1>1, <1>10, SendEffect
  <2> DEFINE m == outbox[c].msg
  <2>2. /\ posted' = [posted EXCEPT ![t] = Append(posted[t], m)]
        /\ m \in Message /\ Known(m, local_actors')
    BY <1>2, <1>3, <2>1 DEF SendTo
  <2> HIDE DEF m
  <2>3. \A x \in Conn : Known(outbox'[x].msg, local_actors')
    <3>1. \A x \in Conn : outbox'[x] = outbox[x] \/ outbox'[x].msg \in {m, Welcome}
      BY <1>2, <1>10 DEF SendOne, Nothing, m
    <3> QED
      BY <1>3, <1>7, <2>2, <3>1
  <2>4. \A x \in Conn : \A i \in 1..Len(posted'[x]) : Known(posted'[x][i], local_actors')
    <3> TAKE x \in Conn
    <3>1. CASE x # t
      BY <1>2, <1>4, <2>2, <3>1
    <3>2. CASE x = t
      <4>1. /\ posted'[x] = Append(posted[x], m)
            /\ Len(posted[x]) \in Nat
            /\ Len(posted'[x]) = Len(posted[x]) + 1
            /\ \A i \in 1..Len(posted[x]) : posted'[x][i] = posted[x][i]
            /\ posted'[x][Len(posted[x]) + 1] = m
        BY <1>2, <2>2, <3>2, AppendProperties, LenProperties
      <4> TAKE i \in 1..Len(posted'[x])
      <4>2. CASE i = Len(posted[x]) + 1
        BY <2>2, <4>1, <4>2
      <4>3. CASE i # Len(posted[x]) + 1
        <5>1. i \in 1..Len(posted[x])
          BY <4>1, <4>3
        <5> QED
          BY <1>4, <4>1, <5>1
      <4> QED
        BY <4>2, <4>3
    <3> QED
      BY <3>1, <3>2
  <2> QED
    BY <2>3, <2>4 DEF KnownInv
<1>11. ASSUME NEW c \in Conn, SendFails(c) PROVE KnownInv'
  BY <1>1, <1>3, <1>5, <1>7, <1>11, SendFailsEffect DEF Old
<1>12. ASSUME NEW c \in Conn,
              \/ Accept(c) \/ Handshake(c) \/ HandshakeFails(c) \/ EndOfStream(c)
              \/ Cleanup(c) \/ HangUp(c) \/ ForwardTask(c)
       PROVE  KnownInv'
  <2>1. outbox' = outbox /\ posted' = posted
    BY <1>12 DEF Accept, Handshake, HandshakeFails, EndOfStream, Cleanup, HangUp,
       ForwardTask, Forward, ForwardFails, ForwardAborted
  <2> QED
    BY <1>5, <2>1 DEF Old
<1>13. CASE UNCHANGED syncVars
  BY <1>5, <1>13 DEF syncVars, taskVars, Old
<1>14. [SyncNext]_syncVars
  BY NetStepIsSyncStep
<1> QED
  BY <1>8, <1>9, <1>10, <1>11, <1>12, <1>13, <1>14 DEF SyncNext, Task

---------------------------------------------------------------------------
(* The theorems *)

NetInv ==
  /\ NetBase
  /\ FreshInv
  /\ SessionFollowsRequests
  /\ UpdatesFollow
  /\ AskedIsLocal
  /\ OwnedIsLocal
  /\ IdInv
  /\ KnownInv

LEMMA InitNetInv == NetInit => NetInv
<1> SUFFICES ASSUME NetInit PROVE NetInv
  OBVIOUS
<1>1. NetBase
  BY InitNetBase
<1>2. /\ DOMAIN connections = {} /\ DOMAIN session_actors = {}
      /\ \A c \in Conn : up[c] = <<>> /\ current_session_id[c] = None /\ pc[c] = "absent"
  BY DEF NetInit, SyncInit, StateInit, EmptyMap, Client!Init
<1>3. \A c \in Conn : Len(up[c]) = 0
  BY <1>2
<1>4. IdInv /\ KnownInv
  BY DEF NetInit, SyncInit, Client!Init, IdInv, KnownInv, Known, Nothing, Welcome
<1> QED
  BY <1>1, <1>2, <1>3, <1>4
     DEF NetInv, FreshInv, SessionFollowsRequests, UpdatesFollow, AskedIsLocal, OwnedIsLocal

LEMMA NextNetInv == NetInv /\ [NetNext]_netVars => NetInv' /\ [SyncNext]_syncVars
<1> SUFFICES ASSUME NetInv, [NetNext]_netVars PROVE NetInv' /\ [SyncNext]_syncVars
  OBVIOUS
<1>1. /\ NetBase /\ FreshInv /\ SessionFollowsRequests /\ UpdatesFollow
      /\ AskedIsLocal /\ OwnedIsLocal
      /\ IdInv /\ KnownInv /\ ServerInv /\ SyncTypeOK /\ AliveIsRegistered /\ NetTypeOK
  BY DEF NetInv, NetBase, ServerInv
<1>2. NetBase' /\ [SyncNext]_syncVars
  BY <1>1, NextNetBase
<1>3. FreshInv' /\ SessionFollowsRequests' /\ UpdatesFollow' /\ AskedIsLocal' /\ OwnedIsLocal'
  BY <1>1, FreshStep, FollowsStep, UpdatesFollowStep, AskedStep, OwnedStep
<1>4. IdInv' /\ KnownInv'
  BY <1>1, <1>2, <1>3, IdStep, KnownStep DEF NetBase, ServerInv
<1> QED
  BY <1>2, <1>3, <1>4 DEF NetInv

THEOREM NetInvHolds == NetSpec => []NetInv
<1> QED
  BY InitNetInv, NextNetInv, PTL DEF NetSpec

\* The runtimes ask nothing of the server that SyncServer does not cover:
\* whatever is proved of the server under any requests holds with them.
THEOREM NetUsesServer == NetSpec => SyncSpec
<1>1. NetInit => SyncInit
  BY DEF NetInit
<1> QED
  BY <1>1, InitNetInv, NextNetInv, PTL DEF NetSpec, SyncSpec

\* The runtimes keep tables of actors and queues of messages, and send the
\* server only requests it reads.
THEOREM NetTypeCorrect == NetSpec => []NetTypeOK
<1>1. NetInv => NetTypeOK
  BY DEF NetInv, NetBase
<1> QED
  BY <1>1, NetInvHolds, PTL

\* The session a runtime shows is the one its last request under way asks for,
\* or the one the server has it in (network.rs:93 and 114).
THEOREM SessionFollows == NetSpec => []SessionFollowsRequests
<1>1. NetInv => SessionFollowsRequests
  BY DEF NetInv
<1> QED
  BY <1>1, NetInvHolds, PTL

\* The server gives no client an actor it has not registered itself.
THEOREM OwnedAreLocal == NetSpec => []OwnedIsLocal
<1>1. NetInv => OwnedIsLocal
  BY DEF NetInv
<1> QED
  BY <1>1, NetInvHolds, PTL

\* However old the snapshot a runtime handles, it adds no actor to those the
\* runtime counts as its own (network.rs:319 to 328).
THEOREM NoSurprises == NetSpec => SnapshotsAddNothing
<1>1. ASSUME NetInv, NEW c \in Conn, Receive(c) PROVE local_actors' = local_actors
  <2> DEFINE i == read[c] + 1
             m == wire[c][i]
  <2>1. local_actors \in [Conn -> SUBSET ActorId]
    BY <1>1 DEF NetInv, NetBase, NetTypeOK
  <2>2. ASSUME m.kind = "sync", Client!process_sync(c, m.actors)
        PROVE  local_actors' = local_actors
    <3>1. i \in DOMAIN wire[c]
      <4>1. wire[c] \in Seq(Message) /\ read[c] \in Nat /\ read[c] < Len(wire[c])
        BY <1>1 DEF NetInv, NetBase, NetTypeOK, ServerInv, SyncTypeOK, Receive
      <4>2. DOMAIN wire[c] = 1..Len(wire[c]) /\ Len(wire[c]) \in Nat
        BY <4>1, LenProperties
      <4> QED
        BY <4>1, <4>2
    <3>2. i - 1 \in 1..Len(posted[c]) /\ m = posted[c][i - 1]
      BY <1>1, <2>2, <3>1, WireIsPosted DEF NetInv, NetBase
    <3>3. Known(m, local_actors)
      BY <1>1, <3>2 DEF NetInv, KnownInv
    <3>4. /\ client_id[c] = c
          /\ local_actors' = [local_actors EXCEPT ![c] = local_actors[c] \cup
                {a \in DOMAIN m.actors : m.actors[a].owner_id = client_id[c]}]
      BY <1>1, <2>2 DEF Client!process_sync, NetInv, IdInv
    <3> HIDE DEF m
    <3>5. {a \in DOMAIN m.actors : m.actors[a].owner_id = c} \subseteq local_actors[c]
      BY <2>2, <3>3 DEF Known
    <3> QED
      BY <2>1, <3>4, <3>5
  <2> QED
    BY <1>1, <2>2 DEF Receive, Client!process_welcome, Client!process_text
<1>2. NetInv => [\A c \in Conn : Receive(c) => UNCHANGED local_actors]_netVars
  BY <1>1
<1> QED
  BY <1>2, NetInvHolds, PTL DEF SnapshotsAddNothing

\* No update a runtime sends is dropped for want of a session (main.rs:460) or of
\* a registration (main.rs:347): the session it was made in has the actor once
\* it is handled.
THEOREM UpdatesArrive == NetSpec => UpdatesTakeEffect
<1>1. ASSUME NetInv, NetInv', NEW c \in Conn, NEW a \in ActorId,
             Dispatch(c), Head(up[c]).kind = "update", Head(up[c]).actor = a
      PROVE  \E s \in SessionId : InSession(c, s)' /\ HasActor(s, a)'
  <2>1. /\ NetTypeOK /\ SyncTypeOK /\ AliveIsRegistered /\ UpdatesFollow
        /\ CurrentSessionListsIt
    BY <1>1 DEF NetInv, NetBase, ServerInv, IndInv
  <2>2. /\ Len(up[c]) \in Nat \ {0} /\ up[c][1].kind = "update" /\ up[c][1].actor = a
        /\ handle_actor_update(c, a, up[c][1].data)
    BY <1>1, <2>1, DispatchEffect
  <2>3. /\ pc[c] = "serving" /\ DOMAIN connections' = DOMAIN connections
        /\ connections'[c] = connections[c]
    BY <1>1, <2>1, <2>2, DispatchMoves
  <2>4. PICK s \in SessionId : Follows(s, connections[c], SubSeq(up[c], 1, 0))
    BY <2>1, <2>2, <2>3 DEF UpdatesFollow
  <2>5. connections[c] = s
    <3>1. SubSeq(up[c], 1, 0) = <<>> /\ DOMAIN <<>> = {}
      BY SubSeqEmpty
    <3>2. Moves(SubSeq(up[c], 1, 0)) = {}
      BY <3>1 DEF Moves
    <3> QED
      BY <2>4, <3>2 DEF Follows
  <2>6. InSession(c, s) /\ InSession(c, s)'
    BY <2>1, <2>3, <2>5 DEF InSession, AliveIsRegistered, Alive
  <2>7. s \in DOMAIN session_actors
    BY <2>1, <2>5, <2>6, NoneAssumption DEF InSession, CurrentSessionListsIt
  <2>8. ASSUME NEW r \in SessionId, NEW d,
               update_actor(c, r, a, d) \/ create_actor(c, r, a, d)
        PROVE  HasActor(s, a)'
    <3>1. r = s
      BY <2>6, <2>8 DEF update_actor, create_actor, InSession
    <3>2. session_actors' = [session_actors EXCEPT ![s] =
                               Insert(session_actors[s], a, NewActor(c, d))]
      BY <2>8, <3>1 DEF update_actor, create_actor
    <3> QED
      BY <2>7, <3>2 DEF HasActor, Insert
  <2>9. ASSUME UNCHANGED stateVars, HasActor(s, a) PROVE HasActor(s, a)'
    BY <2>9 DEF stateVars, HasActor
  <2> QED
    BY <2>2, <2>6, <2>8, <2>9 DEF handle_actor_update
<1>2. NetInv /\ NetInv' /\ [NetNext]_netVars =>
        [\A c \in Conn, a \in ActorId :
           Dispatch(c) /\ Head(up[c]).kind = "update" /\ Head(up[c]).actor = a =>
             \E s \in SessionId : InSession(c, s)' /\ HasActor(s, a)']_netVars
  BY <1>1
<1> QED
  BY <1>2, NetInvHolds, PTL DEF UpdatesTakeEffect, NetSpec

\* With the runtimes above it, the server still sends a client the snapshots
\* that name it, with actors of the members named (or of clients that broke off),
\* and its texts in order, and skips nothing.
THEOREM NetSnapshots ==
  NetSpec => [](SnapshotsAreConsistent /\ SnapshotsNameTheirReceiver /\ TextsInOrder /\ NoHoles)
<1> QED
  BY NetUsesServer, SnapshotOwnersAreNamed, SnapshotsReachMembers, TextsStayInOrder,
     NothingIsSkipped, PTL
=============================================================================
