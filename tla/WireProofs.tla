----------------------------- MODULE WireProofs -----------------------------
(***************************************************************************)
(* What reaches the clients of SyncServer, for any connections, sessions,  *)
(* capacity and bound on requests.  A message goes from the handler that   *)
(* made it (outbox) into the channel (posted, and rx of every receiver)    *)
(* and from there to a socket (wire).  WireInv says that a socket has a    *)
(* prefix of what was posted for it, so that the rest is about posted.     *)
(***************************************************************************)
EXTENDS SyncServerProofs, SequenceTheorems

\* A message in the channel
Slot == [target : Conn, msg : Message]

\* Until its handshake is done, nothing is sent for a connection and no
\* session lists it.
Unserved(c) == pc[c] \in {"absent", "handshake"}

Untouched(c) ==
  /\ posted[c] = <<>> /\ wire[c] = <<>> /\ rx[c] = <<>> /\ ~listening[c]
  /\ \A x \in Conn : c \notin outbox[x].to
  /\ \A s \in SessionId : c \notin get_session_members(s)

ReadyInv == \A c \in Conn : Unserved(c) => Untouched(c)

\* The task of a connection leaves its loop because the connection is lost.
ClosingInv == \A c \in Conn : pc[c] = "closing" => lost[c]

\* What was written to a socket (w), but for the welcome, is the beginning of
\* what was posted for it (p).
Written(p, w) ==
  w # <<>> => /\ w[1] = Welcome
              /\ Len(w) <= Len(p) + 1
              /\ \A i \in 1..(Len(w) - 1) : w[i + 1] = p[i]

\* What is posted for c and not written yet is, in this order, in the slots
\* f[1], f[2], .., f[n] of its slice r of the ring, which are all those for c.
Waits(c, p, w, r, n, f) ==
  /\ n \in Nat /\ Len(p) + 1 = Len(w) + n
  /\ f \in [1..n -> 1..Len(r)]
  /\ \A i, j \in 1..n : i < j => f[i] < f[j]
  /\ \A i \in 1..n : r[f[i]].target = c /\ r[f[i]].msg = p[Len(w) - 1 + i]
  /\ \A k \in 1..Len(r) : r[k].target = c => \E i \in 1..n : f[i] = k

\* A connection that is listening has all that is posted behind or before it.
Receives(c, p, w, r) == w # <<>> /\ \E n, f : Waits(c, p, w, r, n, f)

WireInv ==
  \A c \in Conn :
    /\ Written(posted[c], wire[c])
    /\ listening[c] => Receives(c, posted[c], wire[c], rx[c])

\* A message that may be sent for t: a snapshot names t and, but for owners
\* that are lost, the owners of its actors; a text is not t's own, and one of
\* the requests its sender made.
Fit(m, t, broken, made) ==
  /\ m.kind = "sync" =>
       /\ t \in m.members
       /\ \A a \in DOMAIN m.actors :
            m.actors[a].owner_id \in m.members \/ broken[m.actors[a].owner_id]
  /\ m.kind = "text" => m.from # t /\ m.n <= made[m.from]

\* Text m is later than text q, when they have one sender.
Precedes(q, m) ==
  q.kind = "text" /\ m.kind = "text" /\ q.from = m.from => q.n < m.n

PostedInv ==
  \A t \in Conn : \A i \in 1..Len(posted[t]) :
    /\ Fit(posted[t][i], t, lost, requests)
    /\ \A j \in 1..Len(posted[t]) : i < j => Precedes(posted[t][i], posted[t][j])

\* A message that x is sending to t, when p was posted for t before
Sendable(x, t, m, p, broken, made) ==
  /\ Fit(m, t, broken, made)
  /\ m.kind = "text" => m.from = x
  /\ \A i \in 1..Len(p) : Precedes(p[i], m)

OutboxInv ==
  \A x \in Conn : \A t \in outbox[x].to :
    Sendable(x, t, outbox[x].msg, posted[t], lost, requests)

---------------------------------------------------------------------------
(* What the steps do to the messages *)

\* The tables hold connections and actor tables.
LEMMA LookupTypes ==
  StateTypeOK => \A s \in SessionId : /\ get_session_members(s) \in SUBSET Conn
                                     /\ get_session_actors(s) \in ActorMap
<1>1. EmptyMap \in ActorMap
  <2>1. EmptyMap \in [{} -> Actor]
    BY DEF EmptyMap
  <2> QED
    BY <2>1 DEF ActorMap
<1> QED
  BY <1>1, GetOrValue DEF StateTypeOK, get_session_members, get_session_actors

\* So they do after a step.
LEMMA LookupTypesNext ==
  StateTypeOK' => \A s \in SessionId : /\ get_session_members(s)' \in SUBSET Conn
                                      /\ get_session_actors(s)' \in ActorMap
<1>1. EmptyMap \in ActorMap
  <2>1. EmptyMap \in [{} -> Actor]
    BY DEF EmptyMap
  <2> QED
    BY <2>1 DEF ActorMap
<1> QED
  BY <1>1, GetOrValue DEF StateTypeOK, get_session_members, get_session_actors

\* The messages of the server are messages.
LEMMA MessageTypes ==
  /\ Welcome \in Message
  /\ \A ms \in SUBSET Conn, as \in ActorMap :
       /\ Sync(ms, as) \in Message /\ Sync(ms, as).kind = "sync"
       /\ Sync(ms, as).members = ms /\ Sync(ms, as).actors = as
  /\ \A c \in Conn, n \in 1..MaxRequests :
       /\ Text(c, n) \in Message /\ Text(c, n).kind = "text"
       /\ Text(c, n).from = c /\ Text(c, n).n = n
  /\ Nothing \in [to : SUBSET Conn, msg : Message] /\ Nothing.to = {}
  BY DEF Message, Welcome, Sync, Text, Nothing

\* What of a message matters for its types.
LEMMA MessageFields ==
  ASSUME NEW m \in Message
  PROVE  /\ m.kind = "sync" => m.members \in SUBSET Conn /\ m.actors \in ActorMap
         /\ m.kind = "text" => m.from \in Conn /\ m.n \in 1..MaxRequests
  BY DEF Message, Welcome

\* No handler of a connection makes another a member of a session.
LEMMA MembersOnlyJoin ==
  ASSUME StateTypeOK, NEW c \in Conn, Section(c) \/ UNCHANGED stateVars
  PROVE  \A s \in SessionId : get_session_members(s)' \subseteq get_session_members(s) \cup {c}
<1> DEFINE Goal == \A s \in SessionId :
                     get_session_members(s)' \subseteq get_session_members(s) \cup {c}
<1>1. ASSUME UNCHANGED sessions PROVE Goal
  BY <1>1 DEF get_session_members
<1>2. ASSUME NEW s \in SessionId, DropFromSession(c, s) PROVE Goal
  BY <1>2, DropEffect
<1>3. ASSUME NEW s \in SessionId, join_session(c, s) PROVE Goal
  BY <1>3 DEF join_session, get_session_members, GetOr, Insert
<1>4. ASSUME remove_connection(c) PROVE Goal
  BY <1>1, <1>2, <1>4 DEF remove_connection
<1>5. ASSUME NEW s \in SessionId, leave_session(c, s) PROVE Goal
  BY <1>2, <1>5 DEF leave_session
<1>6. ASSUME NEW s \in SessionId, NEW a \in ActorId, NEW d \in Data,
             register_actor(c, s, a) \/ update_actor(c, s, a, d) \/ create_actor(c, s, a, d)
      PROVE  Goal
  BY <1>1, <1>6 DEF register_actor, update_actor, create_actor
<1>7. ASSUME NEW s \in SessionId, NEW a \in ActorId, register_actor(c, s, a) PROVE Goal
  BY <1>1, <1>7 DEF register_actor
<1>8. ASSUME NEW scene \in Scene, handle_update_state(c, scene) PROVE Goal
  BY <1>1, <1>8 DEF handle_update_state
<1>9. CASE UNCHANGED stateVars
  BY <1>1, <1>9 DEF stateVars
<1> QED
  BY <1>3, <1>4, <1>5, <1>6, <1>7, <1>8, <1>9 DEF Section

\* A snapshot handed over with the members it is to go to.
Snapshot(ms, as) == [to |-> ms, msg |-> Sync(ms, as)]

\* What a request leaves in the outbox: what was there, nothing, the session's
\* snapshot after the change, or a text for members of a session but the sender.
RequestSends(c) ==
  \/ outbox' = outbox
  \/ outbox' = [outbox EXCEPT ![c] = Nothing]
  \/ \E s \in SessionId : outbox' = [outbox EXCEPT ![c] =
       Snapshot(get_session_members(s)', get_session_actors(s)')]
  \/ \E ms \in SUBSET Conn :
       /\ \A t \in ms : t # c /\ \E s \in SessionId : t \in get_session_members(s)
       /\ outbox' = [outbox EXCEPT ![c] = [to |-> ms, msg |-> Text(c, requests[c] + 1)]]

\* A request counts, sends no more than that, and makes no other connection a
\* member.
LEMMA RequestEffect ==
  ASSUME SyncTypeOK, AliveIsRegistered, NEW c \in Conn, Request(c)
  PROVE  /\ pc[c] = "serving" /\ outbox[c].to = {}
         /\ requests[c] + 1 \in 1..MaxRequests
         /\ requests' = [requests EXCEPT ![c] = requests[c] + 1]
         /\ UNCHANGED <<pc, listening, rx, wire, posted, lost>>
         /\ \A s \in SessionId :
              get_session_members(s)' \subseteq get_session_members(s) \cup {c}
         /\ RequestSends(c)
<1>1. \A s \in SessionId : get_session_members(s)' \subseteq get_session_members(s) \cup {c}
  BY RequestIsSection, MembersOnlyJoin DEF SyncTypeOK
<1>2. PICK kind : Handles(c, kind)
  BY DEF Request, handle_join_session, handle_leave_session, handle_register_actor,
         handle_actor_update, handle_state, handle_registered_message
<1>3. /\ pc[c] = "serving" /\ outbox[c].to = {}
      /\ requests[c] + 1 \in 1..MaxRequests
      /\ requests' = [requests EXCEPT ![c] = requests[c] + 1]
      /\ UNCHANGED <<pc, listening, rx, wire, posted, lost>>
  <2>1. requests[c] \in 0..MaxRequests /\ MaxRequests \in Nat
    BY RequestsAssumption DEF SyncTypeOK
  <2>2. requests[c] < MaxRequests /\ requests' = [requests EXCEPT ![c] = requests[c] + 1]
    BY <1>2 DEF Handles
  <2> QED
    BY <1>2, <2>1, <2>2 DEF Handles
<1>4. ASSUME NEW s \in SessionId, Broadcast(c, s) PROVE RequestSends(c)
  BY <1>4 DEF Broadcast, Snapshot, RequestSends
<1>5. ASSUME handle_registered_message(c) PROVE RequestSends(c)
  <2> DEFINE others == UNION {get_session_members(s) \ {c} : s \in {s \in SessionId : InSession(c, s)}}
  <2>1. others \in SUBSET Conn
    BY LookupTypes DEF SyncTypeOK
  <2>2. \A t \in others : t # c /\ \E s \in SessionId : t \in get_session_members(s)
    OBVIOUS
  <2>3. requests'[c] = requests[c] + 1
    BY <1>3 DEF SyncTypeOK
  <2>4. \/ outbox' = [outbox EXCEPT ![c] = Nothing]
        \/ outbox' = [outbox EXCEPT ![c] = [to |-> others, msg |-> Text(c, requests[c] + 1)]]
    BY <1>5, <2>3 DEF handle_registered_message
  <2> QED
    BY <2>1, <2>2, <2>4 DEF RequestSends
<1>6. RequestSends(c)
  <2>1. ASSUME UNCHANGED outbox PROVE RequestSends(c)
    BY <2>1 DEF RequestSends
  <2>2. ASSUME NEW s \in SessionId, handle_join_session(c, s) PROVE RequestSends(c)
    BY <1>4, <2>2 DEF handle_join_session
  <2>3. ASSUME handle_leave_session(c) PROVE RequestSends(c)
    BY <1>4, <2>1, <2>3 DEF handle_leave_session
  <2>4. ASSUME NEW a \in ActorId, handle_register_actor(c, a) PROVE RequestSends(c)
    BY <2>1, <2>4 DEF handle_register_actor
  <2>5. ASSUME NEW a \in ActorId, NEW d \in Data, handle_actor_update(c, a, d) PROVE RequestSends(c)
    BY <1>4, <2>1, <2>5 DEF handle_actor_update
  <2>6. ASSUME NEW scene \in Scene, handle_state(c, scene) PROVE RequestSends(c)
    BY <2>1, <2>6 DEF handle_state
  <2> QED
    BY <1>5, <2>2, <2>3, <2>4, <2>5, <2>6 DEF Request
<1> QED
  BY <1>1, <1>3, <1>6

\* What the send of c's message to t does, once t is chosen.
SendTo(c, t) ==
  /\ t \in outbox[c].to
  /\ posted' = [posted EXCEPT ![t] = Append(posted[t], outbox[c].msg)]
  /\ listening' = [x \in Conn |-> listening[x] /\ Len(rx[x]) < Cap]
  /\ rx' = [x \in Conn |-> IF listening'[x]
              THEN Append(rx[x], [target |-> t, msg |-> outbox[c].msg]) ELSE <<>>]
  /\ outbox' \in [Conn -> [to : SUBSET Conn, msg : Message]]
  /\ outbox'[c].to = outbox[c].to \ {t}
  /\ outbox'[c].to # {} => outbox'[c].msg = outbox[c].msg
  /\ \A x \in Conn : x # c => outbox'[x] = outbox[x]
  /\ UNCHANGED <<stateVars, pc, wire, requests, lost>>

\* One send: the message goes to one member of the list, which is then off it.
LEMMA SendEffect ==
  ASSUME SyncTypeOK, NEW c \in Conn, SendOne(c)
  PROVE  \E t \in Conn : SendTo(c, t)
<1>1. PICK t \in outbox[c].to :
        /\ Publish(t, outbox[c].msg)
        /\ outbox' = [outbox EXCEPT ![c] =
             IF outbox[c].to = {t} THEN Nothing
             ELSE [to |-> outbox[c].to \ {t}, msg |-> outbox[c].msg]]
        /\ UNCHANGED <<stateVars, pc, wire, requests, lost>>
  BY DEF SendOne
<1>2. /\ outbox \in [Conn -> [to : SUBSET Conn, msg : Message]]
      /\ outbox[c] \in [to : SUBSET Conn, msg : Message]
  BY DEF SyncTypeOK
<1>3. /\ Nothing \in [to : SUBSET Conn, msg : Message] /\ Nothing.to = {}
      /\ [to |-> outbox[c].to \ {t}, msg |-> outbox[c].msg] \in [to : SUBSET Conn, msg : Message]
  BY <1>2, MessageTypes
<1>4. /\ outbox' \in [Conn -> [to : SUBSET Conn, msg : Message]]
      /\ \A x \in Conn : x # c => outbox'[x] = outbox[x]
  BY <1>1, <1>2, <1>3
<1>5. /\ outbox'[c].to = outbox[c].to \ {t}
      /\ outbox'[c].to # {} => outbox'[c].msg = outbox[c].msg
  BY <1>1, <1>2, <1>3
<1>6. t \in Conn
  BY <1>2
<1> QED
  BY <1>1, <1>4, <1>5, <1>6 DEF Publish, SendTo

\* A send that fails takes members off a list, and sends nothing.
LEMMA SendFailsEffect ==
  ASSUME SyncTypeOK, NEW c \in Conn, SendFails(c)
  PROVE  /\ UNCHANGED <<stateVars, pc, listening, rx, wire, posted, requests, lost>>
         /\ outbox' \in [Conn -> [to : SUBSET Conn, msg : Message]]
         /\ \A x \in Conn : /\ outbox'[x].to \subseteq outbox[x].to
                            /\ outbox'[x].to # {} => outbox'[x].msg = outbox[x].msg
                            /\ outbox'[x].msg \in {outbox[x].msg, Welcome}
<1>1. PICK t \in outbox[c].to :
        outbox' = [outbox EXCEPT ![c] =
          IF pc[c] # "notifying" \/ outbox[c].to = {t} THEN Nothing
          ELSE [to |-> outbox[c].to \ {t}, msg |-> outbox[c].msg]]
  BY DEF SendFails
<1>2. /\ outbox \in [Conn -> [to : SUBSET Conn, msg : Message]]
      /\ outbox[c] \in [to : SUBSET Conn, msg : Message]
  BY DEF SyncTypeOK
<1> DEFINE rest == [to |-> outbox[c].to \ {t}, msg |-> outbox[c].msg]
<1>3. /\ Nothing \in [to : SUBSET Conn, msg : Message] /\ Nothing.to = {}
      /\ Nothing.msg = Welcome
      /\ rest \in [to : SUBSET Conn, msg : Message]
      /\ rest.to = outbox[c].to \ {t} /\ rest.msg = outbox[c].msg
  BY <1>2, MessageTypes DEF Nothing
<1> HIDE DEF rest
<1>4. /\ outbox' \in [Conn -> [to : SUBSET Conn, msg : Message]]
      /\ \A x \in Conn : x # c => outbox'[x] = outbox[x]
      /\ outbox'[c] \in {Nothing, rest}
  BY <1>1, <1>2, <1>3 DEF rest
<1> QED
  BY <1>3, <1>4 DEF SendFails

\* Taking the first message off a receiver's slice of the ring.
LEMMA ForwardEffect ==
  ASSUME SyncTypeOK, NEW c \in Conn, Forward(c)
  PROVE  /\ rx[c] # <<>> /\ Head(rx[c]) = rx[c][1] /\ rx[c][1] \in Slot
         /\ Len(rx[c]) \in Nat \ {0}
         /\ rx' = [rx EXCEPT ![c] = Tail(rx[c])]
         /\ Tail(rx[c]) \in Seq(Slot) /\ Len(Tail(rx[c])) = Len(rx[c]) - 1
         /\ \A i \in 1..(Len(rx[c]) - 1) : Tail(rx[c])[i] = rx[c][i + 1]
         /\ wire' = IF rx[c][1].target = c
                    THEN [wire EXCEPT ![c] = Append(wire[c], rx[c][1].msg)] ELSE wire
         /\ UNCHANGED <<stateVars, pc, outbox, listening, posted, requests, lost>>
<1>1. rx[c] \in Seq(Slot)
  BY DEF SyncTypeOK, Slot
<1>2. rx[c] # <<>>
  BY DEF Forward
<1>3. /\ Head(rx[c]) = rx[c][1] /\ Len(rx[c]) \in Nat \ {0}
      /\ Tail(rx[c]) \in Seq(Slot) /\ Len(Tail(rx[c])) = Len(rx[c]) - 1
      /\ \A i \in 1..(Len(rx[c]) - 1) : Tail(rx[c])[i] = rx[c][i + 1]
  BY <1>1, <1>2, HeadTailProperties, EmptySeq
<1>4. rx[c][1] \in Slot
  BY <1>1, <1>3, ElementOfSeq
<1> QED
  BY <1>2, <1>3, <1>4 DEF Forward

\* A notification, if any: the others, with the actors before the cleanup.
NotifySends(c) ==
  \/ outbox' = outbox
  \/ outbox' = [outbox EXCEPT ![c] = Nothing]
  \/ \E s \in SessionId : outbox' = [outbox EXCEPT ![c] =
       Snapshot(get_session_members(s) \ {c}, get_session_actors(s))]

\* The step of a task that notifies does no more than that.
LEMMA NotifyEffect ==
  ASSUME NEW c \in Conn, NotifyDisconnect(c)
  PROVE  /\ pc[c] = "closing" /\ pc' = [pc EXCEPT ![c] = "notifying"]
         /\ UNCHANGED <<stateVars, listening, rx, wire, posted, requests, lost>>
         /\ NotifySends(c)
  BY DEF NotifyDisconnect, Goto, Snapshot, NotifySends

---------------------------------------------------------------------------
(* Types *)

LEMMA InitTypes == SyncInit => SyncTypeOK
<1> SUFFICES ASSUME SyncInit PROVE SyncTypeOK
  OBVIOUS
<1>1. StateTypeOK
  BY InitIndInv DEF SyncInit, IndInv
<1>2. <<>> \in Seq(Slot) /\ <<>> \in Seq(Message) /\ Len(<<>>) = 0
  OBVIOUS
<1> QED
  BY <1>1, <1>2, MessageTypes, CapAssumption, RequestsAssumption DEF SyncInit, SyncTypeOK, Slot

LEMMA SendTypes ==
  ASSUME SyncTypeOK, NEW c \in Conn, SendOne(c)
  PROVE  SyncTypeOK'
<1>1. PICK t \in Conn : SendTo(c, t)
  BY SendEffect
<1>2. /\ outbox[c].msg \in Message /\ [target |-> t, msg |-> outbox[c].msg] \in Slot
      /\ rx \in [Conn -> Seq(Slot)] /\ posted \in [Conn -> Seq(Message)]
      /\ listening \in [Conn -> BOOLEAN]
  BY DEF SyncTypeOK, Slot
<1>3. posted' \in [Conn -> Seq(Message)]
  BY <1>1, <1>2, AppendProperties DEF SendTo
<1>4. ASSUME NEW x \in Conn PROVE rx'[x] \in Seq(Slot) /\ Len(rx'[x]) <= Cap
  <2>1. CASE listening'[x]
    <3>1. rx'[x] = Append(rx[x], [target |-> t, msg |-> outbox[c].msg]) /\ Len(rx[x]) < Cap
      BY <1>1, <2>1 DEF SendTo
    <3>2. /\ Append(rx[x], [target |-> t, msg |-> outbox[c].msg]) \in Seq(Slot)
          /\ Len(Append(rx[x], [target |-> t, msg |-> outbox[c].msg])) = Len(rx[x]) + 1
      BY <1>2, AppendProperties
    <3> QED
      BY <1>2, <3>1, <3>2, CapAssumption, LenProperties
  <2>2. CASE ~listening'[x]
    <3>1. rx'[x] = <<>>
      BY <1>1, <2>2 DEF SendTo
    <3> QED
      BY <3>1, CapAssumption
  <2> QED
    BY <2>1, <2>2
<1>5. listening' \in [Conn -> BOOLEAN]
  BY <1>1, <1>2 DEF SendTo
<1>6. rx' \in [Conn -> Seq(Slot)]
  BY <1>1, <1>4 DEF SendTo
<1>7. StateTypeOK'
  BY <1>1 DEF SendTo, SyncTypeOK, StateTypeOK, stateVars
<1>8. wire' \in [Conn -> Seq(Message)] /\ requests' \in [Conn -> 0..MaxRequests]
      /\ lost' \in [Conn -> BOOLEAN]
      /\ pc' \in [Conn -> {"absent", "handshake", "serving", "closing", "notifying", "cleanup", "done"}]
  BY <1>1 DEF SyncTypeOK, SendTo
<1> QED
  BY <1>1, <1>3, <1>4, <1>5, <1>6, <1>7, <1>8 DEF SendTo, SyncTypeOK, Slot

OutboxTypeOK == outbox \in [Conn -> [to : SUBSET Conn, msg : Message]]

\* Handlers and notifications put messages into the outbox.
LEMMA OutboxTypes ==
  ASSUME SyncTypeOK, AliveIsRegistered, StateTypeOK', NEW c \in Conn,
         Request(c) \/ NotifyDisconnect(c)
  PROVE  OutboxTypeOK'
<1>1. outbox \in [Conn -> [to : SUBSET Conn, msg : Message]]
  BY DEF SyncTypeOK
<1>2. ASSUME NEW x \in [to : SUBSET Conn, msg : Message], outbox' = [outbox EXCEPT ![c] = x]
      PROVE  OutboxTypeOK'
  BY <1>1, <1>2 DEF OutboxTypeOK
<1>3. ASSUME NEW ms \in SUBSET Conn, NEW as \in ActorMap,
             outbox' = [outbox EXCEPT ![c] = Snapshot(ms, as)]
      PROVE  OutboxTypeOK'
  <2>1. Snapshot(ms, as) \in [to : SUBSET Conn, msg : Message]
    BY MessageTypes DEF Snapshot
  <2> QED
    BY <1>2, <1>3, <2>1
<1>4. /\ outbox' = outbox => OutboxTypeOK'
      /\ outbox' = [outbox EXCEPT ![c] = Nothing] => OutboxTypeOK'
  BY <1>1, <1>2, MessageTypes DEF OutboxTypeOK
<1>5. CASE Request(c)
  <2>1. ASSUME NEW s \in SessionId, outbox' = [outbox EXCEPT ![c] =
                 Snapshot(get_session_members(s)', get_session_actors(s)')]
        PROVE  OutboxTypeOK'
    <3>1. get_session_members(s)' \in SUBSET Conn /\ get_session_actors(s)' \in ActorMap
      BY LookupTypesNext
    <3> QED
      BY <1>3, <2>1, <3>1
  <2>2. ASSUME NEW ms \in SUBSET Conn,
               outbox' = [outbox EXCEPT ![c] = [to |-> ms, msg |-> Text(c, requests[c] + 1)]]
        PROVE  OutboxTypeOK'
    <3>1. requests[c] + 1 \in 1..MaxRequests
      BY <1>5, RequestEffect
    <3>2. [to |-> ms, msg |-> Text(c, requests[c] + 1)] \in [to : SUBSET Conn, msg : Message]
      BY <3>1, MessageTypes
    <3> QED
      BY <1>2, <2>2, <3>2
  <2> QED
    BY <1>4, <1>5, <2>1, <2>2, RequestEffect DEF RequestSends
<1>6. CASE NotifyDisconnect(c)
  <2>1. ASSUME NEW s \in SessionId, outbox' = [outbox EXCEPT ![c] =
                 Snapshot(get_session_members(s) \ {c}, get_session_actors(s))]
        PROVE  OutboxTypeOK'
    <3>1. get_session_members(s) \in SUBSET Conn /\ get_session_actors(s) \in ActorMap
      BY LookupTypes DEF SyncTypeOK
    <3> QED
      BY <1>3, <2>1, <3>1
  <2> QED
    BY <1>4, <1>6, <2>1, NotifyEffect DEF NotifySends
<1> QED
  BY <1>5, <1>6

PcTypeOK ==
  pc \in [Conn -> {"absent", "handshake", "serving", "closing", "notifying", "cleanup", "done"}]

\* Every step keeps the types.
LEMMA TypeStep ==
  ASSUME SyncTypeOK, AliveIsRegistered, StateTypeOK', [SyncNext]_syncVars
  PROVE  SyncTypeOK'
<1> USE DEF Slot
<1>1. /\ PcTypeOK /\ OutboxTypeOK
      /\ listening \in [Conn -> BOOLEAN] /\ lost \in [Conn -> BOOLEAN]
      /\ rx \in [Conn -> Seq(Slot)] /\ \A x \in Conn : Len(rx[x]) <= Cap
      /\ wire \in [Conn -> Seq(Message)] /\ posted \in [Conn -> Seq(Message)]
      /\ requests \in [Conn -> 0..MaxRequests]
  BY DEF SyncTypeOK, PcTypeOK, OutboxTypeOK
<1>2. <<>> \in Seq(Slot) /\ Len(<<>>) = 0 /\ 0 <= Cap
  BY CapAssumption
<1>3. \A c \in Conn, label \in {"absent", "handshake", "serving", "closing", "notifying",
                                "cleanup", "done"} : Goto(c, label) => PcTypeOK'
  BY <1>1 DEF Goto, PcTypeOK
<1>4. ASSUME NEW c \in Conn,
             Accept(c) \/ HandshakeFails(c) \/ EndOfStream(c) \/ Cleanup(c)
      PROVE  SyncTypeOK'
  <2>1. PcTypeOK'
    BY <1>3, <1>4 DEF Accept, HandshakeFails, EndOfStream, Cleanup
  <2>2. UNCHANGED <<outbox, listening, rx, wire, posted, requests, lost>>
    BY <1>4 DEF Accept, HandshakeFails, EndOfStream, Cleanup
  <2> QED
    BY <1>1, <2>1, <2>2 DEF SyncTypeOK, PcTypeOK, OutboxTypeOK
<1>5. ASSUME NEW c \in Conn, Handshake(c) PROVE SyncTypeOK'
  <2>1. PcTypeOK'
    BY <1>3, <1>5 DEF Handshake
  <2>2. Append(wire[c], Welcome) \in Seq(Message)
    BY <1>1, MessageTypes, AppendProperties
  <2>3. wire' \in [Conn -> Seq(Message)] /\ listening' \in [Conn -> BOOLEAN]
    BY <1>1, <1>5, <2>2 DEF Handshake
  <2> QED
    BY <1>1, <1>5, <2>1, <2>3 DEF Handshake, SyncTypeOK, PcTypeOK, OutboxTypeOK
<1>6. ASSUME NEW c \in Conn, ForwardAborted(c) \/ ForwardFails(c) PROVE SyncTypeOK'
  <2>1. rx' \in [Conn -> Seq(Slot)] /\ \A x \in Conn : Len(rx'[x]) <= Cap
    BY <1>1, <1>2, <1>6 DEF ForwardAborted, ForwardFails
  <2>2. listening' \in [Conn -> BOOLEAN]
    BY <1>1, <1>6 DEF ForwardAborted, ForwardFails
  <2>3. UNCHANGED <<pc, outbox, wire, posted, requests, lost>>
    BY <1>6 DEF ForwardAborted, ForwardFails
  <2> QED
    BY <1>1, <2>1, <2>2, <2>3 DEF SyncTypeOK, PcTypeOK, OutboxTypeOK
<1>7. ASSUME NEW c \in Conn, NotifyDisconnect(c) PROVE SyncTypeOK'
  <2>1. OutboxTypeOK'
    BY <1>7, OutboxTypes
  <2>2. PcTypeOK'
    BY <1>3, <1>7 DEF NotifyDisconnect
  <2> QED
    BY <1>1, <1>7, <2>1, <2>2, NotifyEffect DEF SyncTypeOK, PcTypeOK, OutboxTypeOK
<1>8. ASSUME NEW c \in Conn, HangUp(c) PROVE SyncTypeOK'
  <2>1. lost' \in [Conn -> BOOLEAN]
    BY <1>1, <1>8 DEF HangUp
  <2> QED
    BY <1>1, <1>8, <2>1 DEF HangUp, SyncTypeOK, PcTypeOK, OutboxTypeOK
<1>9. ASSUME NEW c \in Conn, SendFails(c) PROVE SyncTypeOK'
  <2>1. OutboxTypeOK'
    BY <1>9, SendFailsEffect DEF OutboxTypeOK
  <2> QED
    BY <1>1, <1>9, <2>1 DEF SendFails, SyncTypeOK, PcTypeOK, OutboxTypeOK
<1>10. ASSUME NEW c \in Conn, Forward(c) PROVE SyncTypeOK'
  <2>1. /\ rx' = [rx EXCEPT ![c] = Tail(rx[c])]
        /\ Tail(rx[c]) \in Seq(Slot) /\ Len(Tail(rx[c])) = Len(rx[c]) - 1
        /\ Len(rx[c]) \in Nat \ {0} /\ rx[c][1] \in Slot
        /\ wire' = IF rx[c][1].target = c
                   THEN [wire EXCEPT ![c] = Append(wire[c], rx[c][1].msg)] ELSE wire
        /\ UNCHANGED <<pc, outbox, listening, posted, requests, lost>>
    BY <1>10, ForwardEffect
  <2>2. rx' \in [Conn -> Seq(Slot)]
    BY <1>1, <2>1
  <2>3. \A x \in Conn : Len(rx'[x]) <= Cap
    BY <1>1, <2>1, CapAssumption
  <2>4. Append(wire[c], rx[c][1].msg) \in Seq(Message)
    BY <1>1, <2>1, AppendProperties
  <2>5. wire' \in [Conn -> Seq(Message)]
    BY <1>1, <2>1, <2>4
  <2> QED
    BY <1>1, <2>1, <2>2, <2>3, <2>5 DEF SyncTypeOK, PcTypeOK, OutboxTypeOK
<1>11. ASSUME NEW c \in Conn, Request(c) PROVE SyncTypeOK'
  <2>1. OutboxTypeOK'
    BY <1>11, OutboxTypes
  <2>2. /\ requests[c] + 1 \in 1..MaxRequests
        /\ requests' = [requests EXCEPT ![c] = requests[c] + 1]
        /\ UNCHANGED <<pc, listening, rx, wire, posted, lost>>
    BY <1>11, RequestEffect
  <2>3. requests' \in [Conn -> 0..MaxRequests]
    BY <1>1, <2>2
  <2> QED
    BY <1>1, <2>1, <2>2, <2>3 DEF SyncTypeOK, PcTypeOK, OutboxTypeOK
<1>12. CASE UNCHANGED syncVars
  BY <1>1, <1>12 DEF syncVars, taskVars, SyncTypeOK, PcTypeOK, OutboxTypeOK
<1> QED
  BY <1>4, <1>5, <1>6, <1>7, <1>8, <1>9, <1>10, <1>11, <1>12, SendTypes
     DEF SyncNext, Task, ForwardTask

---------------------------------------------------------------------------
(* Before the handshake and after the connection is lost *)

LEMMA InitReady == SyncInit => ReadyInv /\ ClosingInv
  BY GetOrValue DEF SyncInit, StateInit, ReadyInv, ClosingInv, Untouched, Nothing,
     get_session_members, GetOr, EmptyMap

\* What an action leaves alone of a connection that is not served yet.
LEMMA StillUntouched ==
  ASSUME NEW d \in Conn, Untouched(d),
         UNCHANGED <<posted[d], wire[d]>>,
         UNCHANGED <<rx[d], listening[d]>> \/ (rx'[d] = <<>> /\ ~listening'[d]),
         \A x \in Conn : outbox'[x].to \subseteq outbox[x].to,
         \A s \in SessionId : get_session_members(s)' = get_session_members(s)
  PROVE  Untouched(d)'
  BY DEF Untouched

\* A connection is not served, sent to or listed before its handshake.
LEMMA ReadyStep ==
  ASSUME SyncTypeOK, AliveIsRegistered, ReadyInv, [SyncNext]_syncVars
  PROVE  ReadyInv'
<1> SUFFICES ASSUME NEW d \in Conn, Unserved(d)' PROVE Untouched(d)'
  BY DEF ReadyInv
<1>1. /\ PcTypeOK
      /\ outbox \in [Conn -> [to : SUBSET Conn, msg : Message]]
      /\ listening \in [Conn -> BOOLEAN] /\ lost \in [Conn -> BOOLEAN]
      /\ rx \in [Conn -> Seq(Slot)]
      /\ wire \in [Conn -> Seq(Message)] /\ posted \in [Conn -> Seq(Message)]
  BY DEF SyncTypeOK, Slot, PcTypeOK
<1>2. ASSUME UNCHANGED sessions
      PROVE  \A s \in SessionId : get_session_members(s)' = get_session_members(s)
  BY <1>2 DEF get_session_members
<1>3. ASSUME UNCHANGED stateVars PROVE UNCHANGED sessions
  BY <1>3 DEF stateVars
<1>4. ASSUME pc' = pc PROVE Untouched(d)
  BY <1>4 DEF ReadyInv, Unserved, PcTypeOK
<1>5. ASSUME NEW c \in Conn, NEW label, label \notin {"absent", "handshake"},
             pc' = [pc EXCEPT ![c] = label]
      PROVE  d # c /\ Untouched(d)
  BY <1>1, <1>5 DEF ReadyInv, Unserved, PcTypeOK
<1>0a. ASSUME NEW c \in Conn, Untouched(d), NEW v, d \notin v.to,
              outbox' = outbox \/ outbox' = [outbox EXCEPT ![c] = v]
       PROVE  \A x \in Conn : d \notin outbox'[x].to
  BY <1>1, <1>0a DEF Untouched
<1>6. ASSUME NEW c \in Conn, Accept(c) PROVE Untouched(d)'
  <2>1. Untouched(d)
    BY <1>1, <1>6 DEF Accept, Goto, ReadyInv, Unserved
  <2>2. UNCHANGED sessions
    BY <1>6 DEF Accept, register_connection
  <2> QED
    BY <1>2, <1>6, <2>1, <2>2, StillUntouched DEF Accept
<1>7. ASSUME NEW c \in Conn, Handshake(c) PROVE Untouched(d)'
  <2>1. d # c /\ Untouched(d)
    BY <1>5, <1>7 DEF Handshake, Goto
  <2> QED
    BY <1>1, <1>2, <1>3, <1>7, <2>1, StillUntouched DEF Handshake
<1>8. ASSUME NEW c \in Conn, HandshakeFails(c) \/ EndOfStream(c) PROVE Untouched(d)'
  <2>1. d # c /\ Untouched(d)
    BY <1>5, <1>8 DEF HandshakeFails, EndOfStream, Goto
  <2> QED
    BY <1>2, <1>3, <1>8, <2>1, StillUntouched DEF HandshakeFails, EndOfStream
<1>9. ASSUME NEW c \in Conn, ForwardAborted(c) \/ ForwardFails(c) PROVE Untouched(d)'
  <2>1. Untouched(d)
    BY <1>4, <1>9 DEF ForwardAborted, ForwardFails
  <2> QED
    BY <1>1, <1>2, <1>3, <1>9, <2>1, StillUntouched DEF ForwardAborted, ForwardFails
<1>10. ASSUME NEW c \in Conn, NotifyDisconnect(c) PROVE Untouched(d)'
  <2>1. /\ d # c /\ Untouched(d)
        /\ UNCHANGED <<stateVars, listening, rx, wire, posted, requests, lost>>
        /\ NotifySends(c)
    BY <1>5, <1>10, NotifyEffect
  <2>2. \A s \in SessionId : d \notin get_session_members(s) \ {c}
    BY <2>1 DEF Untouched
  <2>3. \A x \in Conn : d \notin outbox'[x].to
    <3>1. CASE outbox' = outbox
      BY <2>1, <3>1 DEF Untouched
    <3>2. CASE outbox' = [outbox EXCEPT ![c] = Nothing]
      BY <1>0a, <2>1, <3>2, MessageTypes
    <3>3. ASSUME NEW s \in SessionId, outbox' = [outbox EXCEPT ![c] =
                   Snapshot(get_session_members(s) \ {c}, get_session_actors(s))]
          PROVE  \A x \in Conn : d \notin outbox'[x].to
      <4>1. d \notin Snapshot(get_session_members(s) \ {c}, get_session_actors(s)).to
        BY <2>2 DEF Snapshot
      <4> QED
        BY <1>0a, <2>1, <3>3, <4>1
    <3> QED
      BY <2>1, <3>1, <3>2, <3>3 DEF NotifySends
  <2> QED
    BY <1>2, <1>3, <2>1, <2>3 DEF Untouched
<1>11. ASSUME NEW c \in Conn, Cleanup(c) PROVE Untouched(d)'
  <2>1. /\ d # c /\ Untouched(d)
        /\ remove_connection(c)
        /\ UNCHANGED <<outbox, listening, rx, wire, posted, requests, lost>>
    BY <1>5, <1>11 DEF Cleanup, Goto
  <2>2. c \in DOMAIN connections
    BY <1>11 DEF Cleanup, AliveIsRegistered, Alive
  <2>3. \A s \in SessionId : d \notin get_session_members(s)'
    BY <2>1, <2>2, MembersOnlyJoin DEF Section, Untouched, SyncTypeOK
  <2> QED
    BY <2>1, <2>3 DEF Untouched
<1>12. ASSUME NEW c \in Conn, HangUp(c) PROVE Untouched(d)'
  BY <1>2, <1>3, <1>4, <1>12, StillUntouched DEF HangUp
<1>13. ASSUME NEW c \in Conn, SendOne(c) PROVE Untouched(d)'
  <2>1. PICK t \in Conn : SendTo(c, t)
    BY <1>13, SendEffect
  <2>2. Untouched(d) /\ d # t
    BY <1>4, <2>1 DEF SendTo, Untouched
  <2>3. /\ UNCHANGED <<posted[d], wire[d]>>
        /\ rx'[d] = <<>> /\ ~listening'[d]
    BY <1>1, <2>1, <2>2 DEF SendTo, Untouched
  <2>4. \A x \in Conn : outbox'[x].to \subseteq outbox[x].to
    BY <1>1, <2>1 DEF SendTo
  <2>5. UNCHANGED sessions
    BY <1>3, <2>1 DEF SendTo
  <2> QED
    BY <1>2, <2>2, <2>3, <2>4, <2>5, StillUntouched
<1>14. ASSUME NEW c \in Conn, SendFails(c) PROVE Untouched(d)'
  <2>1. Untouched(d)
    BY <1>4, <1>14 DEF SendFails
  <2> QED
    BY <1>2, <1>3, <1>14, <2>1, SendFailsEffect, StillUntouched
<1>15. ASSUME NEW c \in Conn, Forward(c) PROVE Untouched(d)'
  <2>1. Untouched(d) /\ d # c
    BY <1>4, <1>15 DEF Forward, Untouched
  <2> QED
    BY <1>1, <1>2, <1>3, <1>15, <2>1, StillUntouched DEF Forward
<1>16. ASSUME NEW c \in Conn, Request(c) PROVE Untouched(d)'
  <2>1. /\ pc[c] = "serving"
        /\ UNCHANGED <<pc, listening, rx, wire, posted, lost>>
        /\ \A s \in SessionId :
             get_session_members(s)' \subseteq get_session_members(s) \cup {c}
        /\ RequestSends(c)
    BY <1>16, RequestEffect
  <2>2. Untouched(d) /\ d # c
    BY <1>4, <2>1 DEF Unserved
  <2>3. \A s \in SessionId : d \notin get_session_members(s) /\ d \notin get_session_members(s)'
    BY <2>1, <2>2 DEF Untouched
  <2>4. \A x \in Conn : d \notin outbox'[x].to
    BY <1>0a, <2>1, <2>2, <2>3, MessageTypes DEF RequestSends, Snapshot
  <2> QED
    BY <2>1, <2>2, <2>3, <2>4 DEF Untouched
<1>17. CASE UNCHANGED syncVars
  BY <1>2, <1>3, <1>4, <1>17, StillUntouched DEF syncVars, taskVars
<1> QED
  BY <1>6, <1>7, <1>8, <1>9, <1>10, <1>11, <1>12, <1>13, <1>14, <1>15, <1>16, <1>17
     DEF SyncNext, Task, ForwardTask

\* Only a lost connection is closed.
LEMMA ClosingStep ==
  ASSUME SyncTypeOK, ClosingInv, [SyncNext]_syncVars
  PROVE  ClosingInv'
<1>1. /\ PcTypeOK /\ lost \in [Conn -> BOOLEAN]
  BY DEF SyncTypeOK, PcTypeOK
<1>2. ASSUME NEW c \in Conn, EndOfStream(c) PROVE ClosingInv'
  BY <1>1, <1>2 DEF EndOfStream, Goto, ClosingInv, PcTypeOK
<1>3. ASSUME NEW c \in Conn, NEW label, label # "closing",
             pc' = [pc EXCEPT ![c] = label], lost' = lost
      PROVE  ClosingInv'
  BY <1>1, <1>3 DEF ClosingInv, PcTypeOK
<1>4. ASSUME NEW c \in Conn,
             \/ Accept(c) \/ Handshake(c) \/ HandshakeFails(c)
             \/ NotifyDisconnect(c) \/ Cleanup(c)
      PROVE  ClosingInv'
  BY <1>3, <1>4 DEF Accept, Handshake, HandshakeFails, NotifyDisconnect, Cleanup, Goto
<1>5. ASSUME pc' = pc, lost' = lost PROVE ClosingInv'
  BY <1>5 DEF ClosingInv
<1>6. ASSUME NEW c \in Conn, SendOne(c) \/ SendFails(c) \/ ForwardTask(c) PROVE ClosingInv'
  BY <1>5, <1>6 DEF SendOne, SendFails, ForwardTask, Forward, ForwardFails, ForwardAborted
<1>7. ASSUME NEW c \in Conn, Request(c) PROVE ClosingInv'
  BY <1>5, <1>7 DEF Request, Handles, handle_join_session, handle_leave_session,
     handle_register_actor, handle_actor_update, handle_state, handle_registered_message
<1>8. ASSUME NEW c \in Conn, HangUp(c) PROVE ClosingInv'
  BY <1>1, <1>8 DEF HangUp, ClosingInv
<1>9. CASE UNCHANGED syncVars
  BY <1>5, <1>9 DEF syncVars, taskVars
<1> QED
  BY <1>2, <1>4, <1>6, <1>7, <1>8, <1>9 DEF SyncNext, Task

---------------------------------------------------------------------------
(* From the channel to the sockets *)

\* A fresh connection waits for nothing.
LEMMA NothingWaits ==
  ASSUME NEW c
  PROVE  Written(<<>>, <<Welcome>>) /\ Receives(c, <<>>, <<Welcome>>, <<>>)
<1>1. Waits(c, <<>>, <<Welcome>>, <<>>, 0, [i \in 1..0 |-> 0])
  BY DEF Waits
<1> QED
  BY <1>1 DEF Written, Receives

\* A message for another connection lengthens the slice and changes nothing.
LEMMA OthersPost ==
  ASSUME NEW c \in Conn, NEW p \in Seq(Message), NEW w \in Seq(Message), NEW r \in Seq(Slot),
         NEW slot \in Slot, slot.target # c, Receives(c, p, w, r)
  PROVE  Receives(c, p, w, Append(r, slot))
<1>1. PICK n, f : Waits(c, p, w, r, n, f)
  BY DEF Receives
<1>2. /\ Len(r) \in Nat /\ Len(Append(r, slot)) = Len(r) + 1
      /\ \A k \in 1..Len(r) : Append(r, slot)[k] = r[k]
      /\ Append(r, slot)[Len(r) + 1] = slot
  BY AppendProperties, LenProperties
<1> DEFINE s == Append(r, slot)
<1> HIDE DEF s
<1>3. /\ n \in Nat /\ Len(p) + 1 = Len(w) + n
      /\ f \in [1..n -> 1..Len(s)]
      /\ \A i, j \in 1..n : i < j => f[i] < f[j]
      /\ \A i \in 1..n : f[i] \in 1..Len(r) /\ s[f[i]] = r[f[i]]
  BY <1>1, <1>2 DEF Waits, s
<1>4. \A i \in 1..n : s[f[i]].target = c /\ s[f[i]].msg = p[Len(w) - 1 + i]
  BY <1>1, <1>3 DEF Waits
<1>5. ASSUME NEW k \in 1..Len(s), s[k].target = c PROVE \E i \in 1..n : f[i] = k
  <2>1. k \in 1..Len(r) /\ r[k] = s[k]
    BY <1>2, <1>5 DEF s
  <2> QED
    BY <1>1, <1>5, <2>1 DEF Waits
<1>6. Waits(c, p, w, s, n, f)
  BY <1>3, <1>4, <1>5 DEF Waits
<1> QED
  BY <1>6 DEF Receives, s

\* A message for the connection waits behind those that wait already.
LEMMA OwnPost ==
  ASSUME NEW c \in Conn, NEW p \in Seq(Message), NEW w \in Seq(Message), NEW r \in Seq(Slot),
         NEW m \in Message, Receives(c, p, w, r)
  PROVE  Receives(c, Append(p, m), w, Append(r, [target |-> c, msg |-> m]))
<1> DEFINE slot == [target |-> c, msg |-> m]
           q    == Append(p, m)
           s    == Append(r, slot)
<1>1. PICK n, f : Waits(c, p, w, r, n, f)
  BY DEF Receives
<1>2. slot \in Slot /\ slot.target = c /\ slot.msg = m
  BY DEF Slot
<1>3. /\ Len(r) \in Nat /\ Len(s) = Len(r) + 1
      /\ \A k \in 1..Len(r) : s[k] = r[k]
      /\ s[Len(r) + 1] = slot
  BY <1>2, AppendProperties, LenProperties
<1>4. /\ Len(p) \in Nat /\ Len(q) = Len(p) + 1
      /\ \A k \in 1..Len(p) : q[k] = p[k]
      /\ q[Len(p) + 1] = m
  BY AppendProperties, LenProperties
<1>5. Len(w) \in Nat \ {0}
  BY LenProperties, EmptySeq DEF Receives
<1> DEFINE g == [i \in 1..(n + 1) |-> IF i = n + 1 THEN Len(r) + 1 ELSE f[i]]
<1> HIDE DEF slot, q, s
<1>6. n \in Nat /\ Len(p) + 1 = Len(w) + n
  BY <1>1 DEF Waits
<1>7. g \in [1..(n + 1) -> 1..Len(s)]
  BY <1>1, <1>3, <1>6 DEF Waits
<1>8. \A i, j \in 1..(n + 1) : i < j => g[i] < g[j]
  BY <1>1, <1>3, <1>6 DEF Waits
<1>9. \A i \in 1..(n + 1) : s[g[i]].target = c /\ s[g[i]].msg = q[Len(w) - 1 + i]
  <2> TAKE i \in 1..(n + 1)
  <2>1. CASE i = n + 1
    BY <1>2, <1>3, <1>4, <1>5, <1>6, <2>1
  <2>2. CASE i # n + 1
    <3>1. i \in 1..n /\ g[i] = f[i] /\ f[i] \in 1..Len(r)
      BY <1>1, <1>6, <2>2 DEF Waits
    <3>2. s[f[i]] = r[f[i]]
      BY <1>3, <3>1
    <3>3. Len(w) - 1 + i \in 1..Len(p)
      BY <1>4, <1>5, <1>6, <3>1
    <3>4. q[Len(w) - 1 + i] = p[Len(w) - 1 + i]
      BY <1>4, <3>3
    <3> QED
      BY <1>1, <3>1, <3>2, <3>4 DEF Waits
  <2> QED
    BY <2>1, <2>2
<1>10. \A k \in 1..Len(s) : s[k].target = c => \E i \in 1..(n + 1) : g[i] = k
  <2> SUFFICES ASSUME NEW k \in 1..Len(s), s[k].target = c PROVE \E i \in 1..(n + 1) : g[i] = k
    OBVIOUS
  <2>1. CASE k = Len(r) + 1
    <3>1. n + 1 \in 1..(n + 1) /\ g[n + 1] = k
      BY <1>6, <2>1
    <3> QED
      BY <3>1
  <2>2. CASE k # Len(r) + 1
    <3>1. k \in 1..Len(r) /\ r[k] = s[k]
      BY <1>3, <2>2
    <3>2. PICK i \in 1..n : f[i] = k
      BY <1>1, <3>1 DEF Waits
    <3>3. i \in 1..(n + 1) /\ g[i] = k
      BY <1>6, <3>2
    <3> QED
      BY <3>3
  <2> QED
    BY <2>1, <2>2
<1>11. Waits(c, q, w, s, n + 1, g)
  BY <1>4, <1>6, <1>7, <1>8, <1>9, <1>10 DEF Waits
<1> QED
  BY <1>11 DEF Receives, q, s, slot

\* Taking a message for another connection off the slice.
LEMMA OthersGone ==
  ASSUME NEW c \in Conn, NEW p \in Seq(Message), NEW w \in Seq(Message), NEW r \in Seq(Slot),
         NEW s \in Seq(Slot), Len(s) = Len(r) - 1, Len(r) \in Nat \ {0},
         \A i \in 1..(Len(r) - 1) : s[i] = r[i + 1],
         r[1].target # c, Receives(c, p, w, r)
  PROVE  Receives(c, p, w, s)
<1>1. PICK n, f : Waits(c, p, w, r, n, f)
  BY DEF Receives
<1> DEFINE g == [i \in 1..n |-> f[i] - 1]
<1>2. \A i \in 1..n : f[i] \in 2..Len(r)
  BY <1>1 DEF Waits
<1>3. g \in [1..n -> 1..Len(s)]
  BY <1>2
<1>4. \A i \in 1..n : g[i] \in 1..(Len(r) - 1) /\ s[g[i]] = r[f[i]]
  BY <1>2
<1>5. \A i, j \in 1..n : i < j => g[i] < g[j]
  BY <1>1, <1>2 DEF Waits
<1>6. \A i \in 1..n : s[g[i]].target = c /\ s[g[i]].msg = p[Len(w) - 1 + i]
  BY <1>1, <1>4 DEF Waits
<1>7. ASSUME NEW k \in 1..Len(s), s[k].target = c PROVE \E i \in 1..n : g[i] = k
  <2>1. k + 1 \in 1..Len(r) /\ r[k + 1] = s[k]
    OBVIOUS
  <2>2. PICK i \in 1..n : f[i] = k + 1
    BY <1>1, <1>7, <2>1 DEF Waits
  <2>3. g[i] = k
    BY <2>2
  <2> QED
    BY <2>3
<1>8. Waits(c, p, w, s, n, g)
  <2> HIDE DEF g
  <2> QED
    BY <1>1, <1>3, <1>5, <1>6, <1>7 DEF Waits
<1> QED
  BY <1>8 DEF Receives

\* Writing a message of its own: it is the first that waits.
LEMMA OwnWritten ==
  ASSUME NEW c \in Conn, NEW p \in Seq(Message), NEW w \in Seq(Message), NEW r \in Seq(Slot),
         NEW s \in Seq(Slot), Len(s) = Len(r) - 1, Len(r) \in Nat \ {0},
         \A i \in 1..(Len(r) - 1) : s[i] = r[i + 1],
         r[1].target = c, r[1].msg \in Message, Receives(c, p, w, r), Written(p, w)
  PROVE  /\ Written(p, Append(w, r[1].msg)) /\ Receives(c, p, Append(w, r[1].msg), s)
         /\ Len(w) \in 1..Len(p) /\ r[1].msg = p[Len(w)]
<1>1. PICK n, f : Waits(c, p, w, r, n, f)
  BY DEF Receives
<1> DEFINE v == Append(w, r[1].msg)
           g == [i \in 1..(n - 1) |-> f[i + 1] - 1]
<1>2. /\ Len(v) = Len(w) + 1 /\ Len(w) \in Nat \ {0} /\ Len(p) \in Nat
      /\ \A i \in 1..Len(w) : v[i] = w[i]
      /\ v[Len(w) + 1] = r[1].msg
      /\ v # <<>>
  BY AppendProperties, LenProperties, EmptySeq DEF Receives
<1> HIDE DEF v
<1>3. /\ n \in Nat /\ Len(p) + 1 = Len(w) + n
      /\ \A i \in 1..n : f[i] \in 1..Len(r)
  BY <1>1 DEF Waits
<1>4. n # 0 /\ 1 \in 1..n /\ f[1] = 1
  <2>1. PICK i \in 1..n : f[i] = 1
    BY <1>1 DEF Waits
  <2>2. n # 0 /\ 1 \in 1..n
    BY <1>3, <2>1
  <2>3. i = 1 \/ f[1] < f[i]
    BY <1>1, <1>3, <2>1, <2>2 DEF Waits
  <2> QED
    BY <1>3, <2>1, <2>2, <2>3
<1>5. Len(w) \in 1..Len(p) /\ r[1].msg = p[Len(w)]
  <2>1. r[f[1]].msg = p[Len(w) - 1 + 1]
    BY <1>1, <1>4 DEF Waits
  <2>2. Len(w) - 1 + 1 = Len(w) /\ Len(w) \in 1..Len(p)
    BY <1>2, <1>3, <1>4
  <2> QED
    BY <1>4, <2>1, <2>2
<1>6. Written(p, v)
  <2>1. Len(v) <= Len(p) + 1
    BY <1>2, <1>5
  <2>2. ASSUME NEW i \in 1..(Len(v) - 1) PROVE v[i + 1] = p[i]
    <3>1. CASE i = Len(w)
      BY <1>2, <1>5, <3>1
    <3>2. CASE i # Len(w)
      <4>1. i \in 1..(Len(w) - 1) /\ i + 1 \in 1..Len(w)
        BY <1>2, <3>2
      <4>2. w[i + 1] = p[i]
        BY <4>1 DEF Written, Receives
      <4> QED
        BY <1>2, <4>1, <4>2
    <3> QED
      BY <3>1, <3>2
  <2>3. v[1] = Welcome
    BY <1>2 DEF Written, Receives
  <2> QED
    BY <2>1, <2>2, <2>3 DEF Written
<1>7. ASSUME NEW i \in 1..(n - 1)
      PROVE  /\ i + 1 \in 1..n /\ f[i + 1] \in 2..Len(r)
             /\ g[i] = f[i + 1] - 1 /\ g[i] \in 1..Len(s) /\ s[g[i]] = r[f[i + 1]]
  <2>1. i + 1 \in 1..n
    BY <1>3
  <2>2. f[1] < f[i + 1]
    BY <1>1, <1>4, <2>1 DEF Waits
  <2>3. f[i + 1] \in 2..Len(r)
    BY <1>3, <1>4, <2>1, <2>2
  <2>4. g[i] = f[i + 1] - 1 /\ g[i] \in 1..(Len(r) - 1) /\ g[i] + 1 = f[i + 1]
    BY <2>3
  <2>5. s[g[i]] = r[g[i] + 1]
    BY <2>4
  <2> QED
    BY <2>1, <2>3, <2>4, <2>5
<1>8. \A i, j \in 1..(n - 1) : i < j => g[i] < g[j]
  <2> TAKE i, j \in 1..(n - 1)
  <2>1. i < j => f[i + 1] < f[j + 1]
    BY <1>1, <1>7, <1>3 DEF Waits
  <2> QED
    BY <1>7, <2>1
<1>9. \A i \in 1..(n - 1) : s[g[i]].target = c /\ s[g[i]].msg = p[Len(v) - 1 + i]
  <2> TAKE i \in 1..(n - 1)
  <2>1. r[f[i + 1]].target = c /\ r[f[i + 1]].msg = p[Len(w) - 1 + (i + 1)]
    BY <1>1, <1>7 DEF Waits
  <2>2. Len(w) - 1 + (i + 1) = Len(v) - 1 + i
    BY <1>2, <1>3
  <2> QED
    BY <1>7, <2>1, <2>2
<1>10. ASSUME NEW k \in 1..Len(s), s[k].target = c PROVE \E i \in 1..(n - 1) : g[i] = k
  <2>1. k + 1 \in 1..Len(r) /\ r[k + 1] = s[k] /\ k + 1 # 1
    OBVIOUS
  <2>2. PICK j \in 1..n : f[j] = k + 1
    BY <1>1, <1>10, <2>1 DEF Waits
  <2>3. j - 1 \in 1..(n - 1) /\ j - 1 + 1 = j
    BY <1>3, <1>4, <2>1, <2>2
  <2>4. g[j - 1] = k
    BY <2>2, <2>3
  <2> QED
    BY <2>3, <2>4
<1>11. n - 1 \in Nat /\ Len(p) + 1 = Len(v) + (n - 1)
  <2>1. n \in Nat \ {0}
    BY <1>3, <1>4
  <2>2. Len(v) = Len(w) + 1
    BY <1>2
  <2>3. Len(w) \in Nat /\ Len(p) \in Nat /\ Len(p) + 1 = Len(w) + n
    BY <1>2, <1>3
  <2> QED
    BY <2>1, <2>2, <2>3
<1>12. g \in [1..(n - 1) -> 1..Len(s)]
  BY <1>7
<1>13. Waits(c, p, v, s, n - 1, g)
  <2> HIDE DEF g
  <2> QED
    BY <1>8, <1>9, <1>10, <1>11, <1>12 DEF Waits
<1> QED
  BY <1>2, <1>5, <1>6, <1>13 DEF Receives, v

\* One connection's part of WireInv
WireOf(c) ==
  /\ Written(posted[c], wire[c])
  /\ listening[c] => Receives(c, posted[c], wire[c], rx[c])

\* What was written stays written when more is posted.
LEMMA WrittenLasts ==
  ASSUME NEW p \in Seq(Message), NEW w \in Seq(Message), NEW m \in Message, Written(p, w)
  PROVE  Written(Append(p, m), w)
<1> DEFINE q == Append(p, m)
<1>1. Len(q) = Len(p) + 1 /\ \A i \in 1..Len(p) : q[i] = p[i]
  BY AppendProperties
<1>2. Len(p) \in Nat /\ Len(w) \in Nat
  BY LenProperties
<1> HIDE DEF q
<1>3. Written(q, w)
  <2> SUFFICES ASSUME w # <<>>
               PROVE  /\ w[1] = Welcome /\ Len(w) <= Len(q) + 1
                      /\ \A i \in 1..(Len(w) - 1) : w[i + 1] = q[i]
    BY DEF Written
  <2>1. /\ w[1] = Welcome /\ Len(w) <= Len(p) + 1
        /\ \A i \in 1..(Len(w) - 1) : w[i + 1] = p[i]
    BY DEF Written
  <2>2. ASSUME NEW i \in 1..(Len(w) - 1) PROVE w[i + 1] = q[i]
    <3>1. i \in 1..Len(p)
      BY <1>2, <2>1
    <3> QED
      BY <1>1, <2>1, <3>1
  <2>3. Len(w) <= Len(q) + 1
    BY <1>1, <1>2, <2>1
  <2> QED
    BY <2>1, <2>2, <2>3
<1> QED
  BY <1>3 DEF q

LEMMA InitWire == SyncInit => WireInv
  BY DEF SyncInit, WireInv, Written

\* Every socket goes on to have the beginning of what is posted for it.
LEMMA WireStep ==
  ASSUME SyncTypeOK, AliveIsRegistered, ReadyInv, WireInv, [SyncNext]_syncVars
  PROVE  WireInv'
<1> SUFFICES ASSUME NEW d \in Conn PROVE WireOf(d)'
  BY DEF WireInv, WireOf
<1>1. /\ outbox \in [Conn -> [to : SUBSET Conn, msg : Message]]
      /\ listening \in [Conn -> BOOLEAN]
      /\ rx \in [Conn -> Seq(Slot)]
      /\ wire \in [Conn -> Seq(Message)] /\ posted \in [Conn -> Seq(Message)]
  BY DEF SyncTypeOK, Slot
<1>2. WireOf(d)
  BY DEF WireInv, WireOf
<1>3. ASSUME UNCHANGED <<posted[d], wire[d]>>,
             UNCHANGED <<rx[d], listening[d]>> \/ ~listening'[d]
      PROVE  WireOf(d)'
  BY <1>2, <1>3 DEF WireOf
<1>4. ASSUME NEW c \in Conn,
             \/ Accept(c) \/ HandshakeFails(c) \/ EndOfStream(c) \/ NotifyDisconnect(c)
             \/ Cleanup(c) \/ HangUp(c) \/ SendFails(c)
      PROVE  WireOf(d)'
  BY <1>3, <1>4 DEF Accept, HandshakeFails, EndOfStream, NotifyDisconnect, Cleanup, HangUp, SendFails
<1>5. ASSUME NEW c \in Conn, ForwardAborted(c) \/ ForwardFails(c) PROVE WireOf(d)'
  BY <1>1, <1>3, <1>5 DEF ForwardAborted, ForwardFails
<1>6. ASSUME NEW c \in Conn, Request(c) PROVE WireOf(d)'
  BY <1>3, <1>6, RequestEffect
<1>7. ASSUME NEW c \in Conn, Handshake(c) PROVE WireOf(d)'
  <2>1. CASE d = c
    <3>1. posted[c] = <<>> /\ wire[c] = <<>> /\ rx[c] = <<>>
      BY <1>7 DEF Handshake, ReadyInv, Unserved, Untouched
    <3>2. posted'[d] = <<>> /\ rx'[d] = <<>> /\ wire'[d] = <<Welcome>>
      BY <1>1, <1>7, <2>1, <3>1 DEF Handshake
    <3> QED
      BY <3>2, NothingWaits DEF WireOf
  <2>2. CASE d # c
    BY <1>1, <1>3, <1>7, <2>2 DEF Handshake
  <2> QED
    BY <2>1, <2>2
<1>8. ASSUME NEW c \in Conn, SendOne(c) PROVE WireOf(d)'
  <2>1. PICK t \in Conn : SendTo(c, t)
    BY <1>8, SendEffect
  <2> DEFINE slot == [target |-> t, msg |-> outbox[c].msg]
  <2>2. /\ posted' = [posted EXCEPT ![t] = Append(posted[t], outbox[c].msg)]
        /\ listening'[d] => listening[d] /\ rx'[d] = Append(rx[d], slot)
        /\ wire' = wire
    BY <2>1 DEF SendTo
  <2>3. outbox[c].msg \in Message /\ slot \in Slot /\ slot.target = t
    BY <1>1 DEF Slot
  <2>4. /\ posted[d] \in Seq(Message) /\ wire[d] \in Seq(Message) /\ rx[d] \in Seq(Slot)
    BY <1>1
  <2>5. CASE d = t
    <3>1. posted'[d] = Append(posted[d], outbox[c].msg)
      BY <1>1, <2>2, <2>5
    <3>2. Written(posted'[d], wire'[d])
      <4>1. Written(posted[d], wire[d])
        BY <1>2 DEF WireOf
      <4> QED
        BY <2>2, <2>3, <2>4, <3>1, <4>1, WrittenLasts
    <3>3. ASSUME listening'[d] PROVE Receives(d, posted'[d], wire'[d], rx'[d])
      <4>1. Receives(d, posted[d], wire[d], rx[d])
        BY <1>2, <2>2, <3>3 DEF WireOf
      <4>2. Receives(d, Append(posted[d], outbox[c].msg), wire[d],
                     Append(rx[d], [target |-> d, msg |-> outbox[c].msg]))
        BY <2>3, <2>4, <4>1, OwnPost
      <4>3. rx'[d] = Append(rx[d], [target |-> d, msg |-> outbox[c].msg])
        BY <2>2, <2>5, <3>3
      <4> QED
        BY <2>2, <3>1, <4>2, <4>3
    <3> QED
      BY <3>2, <3>3 DEF WireOf
  <2>6. CASE d # t
    <3>1. posted'[d] = posted[d]
      BY <1>1, <2>2, <2>6
    <3>2. listening'[d] => Receives(d, posted'[d], wire'[d], rx'[d])
      BY <1>2, <2>2, <2>3, <2>4, <2>6, <3>1, OthersPost DEF WireOf
    <3> QED
      BY <1>2, <2>2, <3>1, <3>2 DEF WireOf
  <2> QED
    BY <2>5, <2>6
<1>9. ASSUME NEW c \in Conn, Forward(c) PROVE WireOf(d)'
  <2>1. /\ Len(rx[c]) \in Nat \ {0} /\ rx[c][1] \in Slot
        /\ rx' = [rx EXCEPT ![c] = Tail(rx[c])]
        /\ Tail(rx[c]) \in Seq(Slot) /\ Len(Tail(rx[c])) = Len(rx[c]) - 1
        /\ \A i \in 1..(Len(rx[c]) - 1) : Tail(rx[c])[i] = rx[c][i + 1]
        /\ wire' = IF rx[c][1].target = c
                   THEN [wire EXCEPT ![c] = Append(wire[c], rx[c][1].msg)] ELSE wire
        /\ UNCHANGED <<listening, posted>>
    BY <1>9, ForwardEffect
  <2>2. CASE d # c
    BY <1>1, <1>3, <2>1, <2>2
  <2>3. CASE d = c
    <3>1. /\ posted[c] \in Seq(Message) /\ wire[c] \in Seq(Message) /\ rx[c] \in Seq(Slot)
          /\ rx'[c] = Tail(rx[c]) /\ posted'[c] = posted[c]
          /\ Receives(c, posted[c], wire[c], rx[c]) /\ Written(posted[c], wire[c])
      BY <1>1, <1>2, <1>9, <2>1, <2>3 DEF WireOf, Forward
    <3>2. CASE rx[c][1].target = c
      <4>1. wire'[c] = Append(wire[c], rx[c][1].msg) /\ rx[c][1].msg \in Message
        BY <1>1, <2>1, <3>2 DEF Slot
      <4>2. /\ Written(posted[c], Append(wire[c], rx[c][1].msg))
            /\ Receives(c, posted[c], Append(wire[c], rx[c][1].msg), Tail(rx[c]))
        BY <2>1, <3>1, <3>2, <4>1, OwnWritten
      <4> QED
        BY <2>3, <3>1, <4>1, <4>2 DEF WireOf
    <3>3. CASE rx[c][1].target # c
      <4>1. wire' = wire
        BY <2>1, <3>3
      <4> QED
        BY <2>1, <2>3, <3>1, <3>3, <4>1, OthersGone DEF WireOf
    <3> QED
      BY <3>2, <3>3
  <2> QED
    BY <2>2, <2>3
<1>10. CASE UNCHANGED syncVars
  BY <1>3, <1>10 DEF syncVars, taskVars
<1> QED
  BY <1>4, <1>5, <1>6, <1>7, <1>8, <1>9, <1>10 DEF SyncNext, Task, ForwardTask

---------------------------------------------------------------------------
(* What is posted *)

\* What was lost stays lost and what was asked stays asked.
LEMMA HistoryGrows ==
  ASSUME SyncTypeOK, AliveIsRegistered, [SyncNext]_syncVars
  PROVE  \A x \in Conn : (lost[x] => lost'[x]) /\ requests[x] <= requests'[x]
<1> DEFINE Goal == \A x \in Conn : (lost[x] => lost'[x]) /\ requests[x] <= requests'[x]
<1>1. /\ lost \in [Conn -> BOOLEAN]
      /\ \A x \in Conn : requests[x] \in Nat
  BY RequestsAssumption DEF SyncTypeOK
<1>2. ASSUME lost' = lost, requests' = requests PROVE Goal
  BY <1>1, <1>2
<1>3. ASSUME NEW c \in Conn,
             \/ Accept(c) \/ Handshake(c) \/ HandshakeFails(c) \/ EndOfStream(c)
             \/ NotifyDisconnect(c) \/ Cleanup(c) \/ SendOne(c) \/ SendFails(c) \/ ForwardTask(c)
      PROVE  Goal
  <2>1. lost' = lost /\ requests' = requests
    BY <1>3 DEF Accept, Handshake, HandshakeFails, EndOfStream, NotifyDisconnect, Cleanup,
       SendOne, SendFails, ForwardTask, Forward, ForwardFails, ForwardAborted
  <2> QED
    BY <1>2, <2>1
<1>4. ASSUME NEW c \in Conn, HangUp(c) PROVE Goal
  BY <1>1, <1>4 DEF HangUp
<1>5. ASSUME NEW c \in Conn, Request(c) PROVE Goal
  <2>1. lost' = lost /\ requests' = [requests EXCEPT ![c] = requests[c] + 1]
    BY <1>5, RequestEffect
  <2>2. requests \in [Conn -> 0..MaxRequests]
    BY DEF SyncTypeOK
  <2> QED
    BY <1>1, <2>1, <2>2
<1>6. CASE UNCHANGED syncVars
  BY <1>2, <1>6 DEF syncVars, taskVars
<1> QED
  BY <1>3, <1>4, <1>5, <1>6 DEF SyncNext, Task

\* A message that may be sent may be sent later.
LEMMA FitLasts ==
  ASSUME NEW m \in Message, NEW t \in Conn, NEW b1, NEW b2,
         NEW r1 \in [Conn -> 0..MaxRequests], NEW r2 \in [Conn -> 0..MaxRequests],
         \A x \in Conn : (b1[x] => b2[x]) /\ r1[x] <= r2[x],
         Fit(m, t, b1, r1)
  PROVE  Fit(m, t, b2, r2)
<1>1. ASSUME m.kind = "sync", NEW a \in DOMAIN m.actors PROVE m.actors[a].owner_id \in Conn
  <2>1. m.actors \in ActorMap
    BY <1>1, MessageFields
  <2>2. m.actors[a] \in Actor
    BY <1>1, <2>1 DEF ActorMap
  <2> QED
    BY <2>2 DEF Actor
<1>2. ASSUME m.kind = "text", m.n <= r1[m.from] PROVE m.n <= r2[m.from]
  <2>1. m.from \in Conn /\ m.n \in 1..MaxRequests
    BY <1>2, MessageFields
  <2>2. r1[m.from] \in 0..MaxRequests /\ r2[m.from] \in 0..MaxRequests /\ r1[m.from] <= r2[m.from]
    BY <2>1
  <2> QED
    BY <1>2, <2>1, <2>2, RequestsAssumption
<1> QED
  BY <1>1, <1>2 DEF Fit

\* The owners in a session's snapshot are in it.
LEMMA SnapshotOwners ==
  OwnerIsMember => \A s \in SessionId : \A a \in DOMAIN get_session_actors(s) :
    get_session_actors(s)[a].owner_id \in get_session_members(s)
  BY DEF OwnerIsMember, get_session_actors, GetOr, EmptyMap

LEMMA SnapshotOwnersNext ==
  OwnerIsMember' => \A s \in SessionId : \A a \in DOMAIN get_session_actors(s)' :
    get_session_actors(s)'[a].owner_id \in get_session_members(s)'
  BY DEF OwnerIsMember, get_session_actors, get_session_members, GetOr, EmptyMap

LEMMA InitSend == SyncInit => PostedInv /\ OutboxInv
  BY DEF SyncInit, PostedInv, OutboxInv, Nothing

\* What is sent was in the outbox.
LEMMA PostedStep ==
  ASSUME SyncTypeOK, SyncTypeOK', AliveIsRegistered, PostedInv, OutboxInv, [SyncNext]_syncVars
  PROVE  PostedInv'
<1> SUFFICES ASSUME NEW d \in Conn
             PROVE  \A i \in 1..Len(posted'[d]) :
                      /\ Fit(posted'[d][i], d, lost', requests')
                      /\ \A j \in 1..Len(posted'[d]) :
                           i < j => Precedes(posted'[d][i], posted'[d][j])
  BY DEF PostedInv
<1>1. /\ posted \in [Conn -> Seq(Message)]
      /\ outbox \in [Conn -> [to : SUBSET Conn, msg : Message]]
      /\ requests \in [Conn -> 0..MaxRequests] /\ requests' \in [Conn -> 0..MaxRequests]
  BY DEF SyncTypeOK
<1>2. /\ \A i \in 1..Len(posted[d]) : Fit(posted[d][i], d, lost, requests)
      /\ \A i, j \in 1..Len(posted[d]) : i < j => Precedes(posted[d][i], posted[d][j])
  BY DEF PostedInv
<1>3. \A i \in 1..Len(posted[d]) : Fit(posted[d][i], d, lost', requests')
  <2>1. \A i \in 1..Len(posted[d]) : posted[d][i] \in Message
    BY <1>1, ElementOfSeq
  <2> QED
    BY <1>1, <1>2, <2>1, HistoryGrows, FitLasts
<1>4. CASE posted' = posted
  BY <1>2, <1>3, <1>4
<1>5. ASSUME NEW c \in Conn, SendOne(c)
      PROVE  \A i \in 1..Len(posted'[d]) :
               /\ Fit(posted'[d][i], d, lost', requests')
               /\ \A j \in 1..Len(posted'[d]) : i < j => Precedes(posted'[d][i], posted'[d][j])
  <2> DEFINE m == outbox[c].msg
  <2>1. PICK t \in Conn : SendTo(c, t)
    BY <1>5, SendEffect
  <2>2. posted' = [posted EXCEPT ![t] = Append(posted[t], m)] /\ t \in outbox[c].to
    BY <2>1 DEF SendTo
  <2>3. m \in Message /\ posted[t] \in Seq(Message)
    BY <1>1
  <2>4. Sendable(c, t, m, posted[t], lost, requests)
    BY <2>2 DEF OutboxInv
  <2>5. Fit(m, t, lost', requests')
    BY <1>1, <2>3, <2>4, HistoryGrows, FitLasts DEF Sendable
  <2> HIDE DEF m
  <2>6. CASE d # t
    <3>1. posted'[d] = posted[d]
      BY <1>1, <2>2, <2>6
    <3> QED
      BY <1>2, <1>3, <3>1
  <2>7. CASE d = t
    <3>1. /\ posted'[d] = Append(posted[d], m)
          /\ Len(posted[d]) \in Nat
          /\ Len(posted'[d]) = Len(posted[d]) + 1
          /\ \A i \in 1..Len(posted[d]) : posted'[d][i] = posted[d][i]
          /\ posted'[d][Len(posted[d]) + 1] = m
      BY <1>1, <2>2, <2>3, <2>7, AppendProperties, LenProperties
    <3>2. \A i \in 1..Len(posted[d]) : Precedes(posted[d][i], m)
      BY <2>4, <2>7 DEF Sendable
    <3>3. ASSUME NEW i \in 1..Len(posted'[d]) PROVE Fit(posted'[d][i], d, lost', requests')
      BY <1>3, <2>5, <2>7, <3>1
    <3>4. ASSUME NEW i \in 1..Len(posted'[d]), NEW j \in 1..Len(posted'[d]), i < j
          PROVE  Precedes(posted'[d][i], posted'[d][j])
      <4>1. i \in 1..Len(posted[d]) /\ posted'[d][i] = posted[d][i]
        BY <3>1, <3>4
      <4>2. CASE j = Len(posted[d]) + 1
        BY <3>1, <3>2, <4>1, <4>2
      <4>3. CASE j # Len(posted[d]) + 1
        <5>1. j \in 1..Len(posted[d]) /\ posted'[d][j] = posted[d][j]
          BY <3>1, <4>3
        <5> QED
          BY <1>2, <3>4, <4>1, <5>1
      <4> QED
        BY <4>2, <4>3
    <3> QED
      BY <3>3, <3>4
  <2> QED
    BY <2>6, <2>7
<1>6. ASSUME NEW c \in Conn,
             \/ Accept(c) \/ Handshake(c) \/ HandshakeFails(c) \/ EndOfStream(c)
             \/ NotifyDisconnect(c) \/ Cleanup(c) \/ HangUp(c) \/ SendFails(c) \/ ForwardTask(c)
      PROVE  posted' = posted
  BY <1>6 DEF Accept, Handshake, HandshakeFails, EndOfStream, NotifyDisconnect, Cleanup, HangUp,
     SendFails, ForwardTask, Forward, ForwardFails, ForwardAborted
<1>7. ASSUME NEW c \in Conn, Request(c) PROVE posted' = posted
  BY <1>7, RequestEffect
<1>8. CASE UNCHANGED syncVars
  BY <1>4, <1>8 DEF syncVars, taskVars
<1> QED
  BY <1>4, <1>5, <1>6, <1>7, <1>8 DEF SyncNext, Task

\* Every message in the outbox may be sent to those it is for.
LEMMA OutboxStep ==
  ASSUME SyncTypeOK, SyncTypeOK', AliveIsRegistered, OwnerIsMember, OwnerIsMember',
         ClosingInv, PostedInv, OutboxInv, [SyncNext]_syncVars
  PROVE  OutboxInv'
<1> DEFINE Good(x, t) == Sendable(x, t, outbox'[x].msg, posted'[t], lost', requests')
<1> SUFFICES ASSUME NEW x \in Conn, NEW t \in outbox'[x].to PROVE Good(x, t)
  BY DEF OutboxInv
<1>1. /\ posted \in [Conn -> Seq(Message)]
      /\ outbox \in [Conn -> [to : SUBSET Conn, msg : Message]]
      /\ requests \in [Conn -> 0..MaxRequests] /\ requests' \in [Conn -> 0..MaxRequests]
      /\ t \in Conn
  BY DEF SyncTypeOK
<1>2. ASSUME t \in outbox[x].to
      PROVE  Sendable(x, t, outbox[x].msg, posted[t], lost', requests')
  <2>1. outbox[x].msg \in Message
    BY <1>1
  <2> QED
    BY <1>1, <1>2, <2>1, HistoryGrows, FitLasts DEF OutboxInv, Sendable
<1>3. CASE outbox'[x] = outbox[x] /\ posted' = posted
  BY <1>2, <1>3
<1> HIDE DEF Good
\* A snapshot
<1>4. ASSUME NEW ms, NEW as, NEW c \in Conn,
             outbox' = [outbox EXCEPT ![c] = Snapshot(ms, as)], posted' = posted,
             ms \in SUBSET Conn, as \in ActorMap,
             \A a \in DOMAIN as : as[a].owner_id \in ms \/ lost'[as[a].owner_id]
      PROVE  Good(x, t)
  <2>1. CASE x # c
    BY <1>1, <1>3, <1>4, <2>1
  <2>2. CASE x = c
    <3>1. outbox'[x] = Snapshot(ms, as)
      BY <1>1, <1>4, <2>2
    <3>2. /\ t \in ms /\ outbox'[x].msg.kind = "sync"
          /\ outbox'[x].msg.members = ms /\ outbox'[x].msg.actors = as
      <4>1. t \in ms /\ outbox'[x].msg = Sync(ms, as)
        BY <3>1 DEF Snapshot
      <4>2. Sync(ms, as).kind = "sync" /\ Sync(ms, as).members = ms /\ Sync(ms, as).actors = as
        BY DEF Sync
      <4> QED
        BY <4>1, <4>2
    <3>3. Fit(outbox'[x].msg, t, lost', requests')
      BY <1>4, <3>2 DEF Fit
    <3> QED
      BY <3>2, <3>3 DEF Good, Sendable, Precedes
  <2> QED
    BY <2>1, <2>2
<1>5. ASSUME NEW c \in Conn, outbox' = [outbox EXCEPT ![c] = Nothing], posted' = posted
      PROVE  Good(x, t)
  BY <1>1, <1>3, <1>5, MessageTypes
<1>6. ASSUME NEW c \in Conn, Request(c) PROVE Good(x, t)
  <2>1. /\ requests[c] + 1 \in 1..MaxRequests
        /\ requests' = [requests EXCEPT ![c] = requests[c] + 1]
        /\ posted' = posted /\ RequestSends(c)
    BY <1>6, RequestEffect
  <2>2. ASSUME NEW s \in SessionId, outbox' = [outbox EXCEPT ![c] =
                 Snapshot(get_session_members(s)', get_session_actors(s)')]
        PROVE  Good(x, t)
    <3>1. get_session_members(s)' \in SUBSET Conn /\ get_session_actors(s)' \in ActorMap
      BY LookupTypesNext DEF SyncTypeOK
    <3>2. \A a \in DOMAIN get_session_actors(s)' :
            get_session_actors(s)'[a].owner_id \in get_session_members(s)'
      BY SnapshotOwnersNext
    <3> QED
      BY <1>4, <2>1, <2>2, <3>1, <3>2
  <2>3. ASSUME NEW ms \in SUBSET Conn, \A u \in ms : u # c,
               outbox' = [outbox EXCEPT ![c] = [to |-> ms, msg |-> Text(c, requests[c] + 1)]]
        PROVE  Good(x, t)
    <3>1. CASE x # c
      BY <1>1, <1>3, <2>1, <2>3, <3>1
    <3>2. CASE x = c
      <4> DEFINE m == Text(c, requests[c] + 1)
      <4>1. outbox'[x] = [to |-> ms, msg |-> m]
        BY <1>1, <2>3, <3>2
      <4>2. m.kind = "text" /\ m.from = c /\ m.n = requests[c] + 1
        BY <2>1, MessageTypes
      <4>3. t \in ms /\ t # c /\ outbox'[x].msg = m
        BY <2>3, <4>1
      <4> HIDE DEF m
      <4>4. requests'[c] = requests[c] + 1 /\ requests[c] \in Nat
        BY <1>1, <2>1, RequestsAssumption
      <4>5. Fit(m, t, lost', requests')
        BY <4>2, <4>3, <4>4 DEF Fit
      <4>6. ASSUME NEW i \in 1..Len(posted[t]) PROVE Precedes(posted[t][i], m)
        <5>1. Fit(posted[t][i], t, lost, requests) /\ posted[t][i] \in Message
          BY <1>1, ElementOfSeq DEF PostedInv
        <5>2. ASSUME posted[t][i].kind = "text", posted[t][i].from = c
              PROVE  posted[t][i].n < m.n
          <6>1. posted[t][i].n \in 1..MaxRequests /\ posted[t][i].n <= requests[c]
            BY <5>1, <5>2, MessageFields DEF Fit
          <6> QED
            BY <4>2, <4>4, <6>1, RequestsAssumption
        <5> QED
          BY <4>2, <5>2 DEF Precedes
      <4> QED
        BY <2>1, <3>2, <4>2, <4>3, <4>5, <4>6 DEF Good, Sendable
    <3> QED
      BY <3>1, <3>2
  <2>4. CASE outbox' = outbox
    BY <1>3, <2>1, <2>4
  <2> QED
    BY <1>5, <2>1, <2>2, <2>3, <2>4 DEF RequestSends
<1>7. ASSUME NEW c \in Conn, NotifyDisconnect(c) PROVE Good(x, t)
  <2>1. /\ pc[c] = "closing"
        /\ UNCHANGED <<posted, requests, lost>> /\ NotifySends(c)
    BY <1>7, NotifyEffect
  <2>2. lost'[c]
    BY <2>1 DEF ClosingInv
  <2>3. ASSUME NEW s \in SessionId, outbox' = [outbox EXCEPT ![c] =
                 Snapshot(get_session_members(s) \ {c}, get_session_actors(s))]
        PROVE  Good(x, t)
    <3> DEFINE others == get_session_members(s) \ {c}
    <3>1. others \in SUBSET Conn /\ get_session_actors(s) \in ActorMap
      BY LookupTypes DEF SyncTypeOK
    <3>2. \A a \in DOMAIN get_session_actors(s) :
            \/ get_session_actors(s)[a].owner_id \in others
            \/ lost'[get_session_actors(s)[a].owner_id]
      BY <2>2, SnapshotOwners
    <3> QED
      BY <1>4, <2>1, <2>3, <3>1, <3>2
  <2>4. CASE outbox' = outbox
    BY <1>3, <2>1, <2>4
  <2> QED
    BY <1>5, <2>1, <2>3, <2>4 DEF NotifySends
<1>8. ASSUME NEW c \in Conn, SendOne(c) PROVE Good(x, t)
  <2>1. PICK u \in Conn : SendTo(c, u)
    BY <1>8, SendEffect
  <2> DEFINE m == outbox[c].msg
  <2>2. /\ posted' = [posted EXCEPT ![u] = Append(posted[u], m)] /\ u \in outbox[c].to
        /\ outbox'[c].to = outbox[c].to \ {u}
        /\ outbox'[c].to # {} => outbox'[c].msg = m
        /\ x # c => outbox'[x] = outbox[x]
    BY <2>1 DEF SendTo
  <2> HIDE DEF m
  <2>3. t \in outbox[x].to /\ outbox'[x].msg = outbox[x].msg
    BY <2>2 DEF m
  <2>4. CASE t # u
    <3>1. posted'[t] = posted[t]
      BY <1>1, <2>2, <2>4
    <3> QED
      BY <1>2, <2>3, <3>1 DEF Good
  <2>5. CASE t = u
    <3>1. x # c
      BY <2>2, <2>5
    <3>2. /\ m.kind = "text" => m.from = c
          /\ outbox[x].msg.kind = "text" => outbox[x].msg.from = x
      BY <2>2, <2>3 DEF OutboxInv, Sendable, m
    <3>3. Precedes(m, outbox[x].msg)
      BY <3>1, <3>2 DEF Precedes
    <3>4. m \in Message /\ posted[t] \in Seq(Message) /\ posted'[t] = Append(posted[t], m)
      BY <1>1, <2>2, <2>5 DEF m
    <3>5. /\ Len(posted[t]) \in Nat
          /\ Len(posted'[t]) = Len(posted[t]) + 1
          /\ \A i \in 1..Len(posted[t]) : posted'[t][i] = posted[t][i]
          /\ posted'[t][Len(posted[t]) + 1] = m
      BY <3>4, AppendProperties, LenProperties
    <3>6. Sendable(x, t, outbox[x].msg, posted[t], lost', requests')
      BY <1>2, <2>3
    <3>7. \A i \in 1..Len(posted'[t]) : Precedes(posted'[t][i], outbox[x].msg)
      BY <3>3, <3>5, <3>6 DEF Sendable
    <3> QED
      BY <2>3, <3>6, <3>7 DEF Good, Sendable
  <2> QED
    BY <2>4, <2>5
<1>9. ASSUME NEW c \in Conn, SendFails(c) PROVE Good(x, t)
  <2>1. posted' = posted /\ t \in outbox[x].to /\ outbox'[x].msg = outbox[x].msg
    BY <1>9, SendFailsEffect
  <2> QED
    BY <1>2, <2>1 DEF Good
<1>10. ASSUME NEW c \in Conn,
              \/ Accept(c) \/ Handshake(c) \/ HandshakeFails(c) \/ EndOfStream(c)
              \/ Cleanup(c) \/ HangUp(c) \/ ForwardTask(c)
       PROVE  Good(x, t)
  <2>1. outbox' = outbox /\ posted' = posted
    BY <1>10 DEF Accept, Handshake, HandshakeFails, EndOfStream, Cleanup, HangUp,
       ForwardTask, Forward, ForwardFails, ForwardAborted
  <2> QED
    BY <1>3, <2>1
<1>11. CASE UNCHANGED syncVars
  BY <1>3, <1>11 DEF syncVars, taskVars
<1> QED
  BY <1>6, <1>7, <1>8, <1>9, <1>10, <1>11 DEF SyncNext, Task

---------------------------------------------------------------------------
(* The theorems *)

ServerInv ==
  /\ SyncTypeOK /\ AliveIsRegistered /\ IndInv
  /\ ReadyInv /\ ClosingInv
  /\ WireInv /\ PostedInv /\ OutboxInv

LEMMA InitServerInv == SyncInit => ServerInv
<1>1. SyncInit => IndInv
  BY InitAlive, InitIndInv
<1> QED
  BY <1>1, InitTypes, InitAlive, InitReady, InitWire, InitSend DEF ServerInv

LEMMA NextServerInv == ServerInv /\ [SyncNext]_syncVars => ServerInv'
<1> SUFFICES ASSUME ServerInv, [SyncNext]_syncVars PROVE ServerInv'
  OBVIOUS
<1> USE DEF ServerInv
<1>1. AliveIsRegistered' /\ IndInv'
  BY SyncStep, NextKeeps
<1>2. StateTypeOK' /\ OwnerIsMember /\ OwnerIsMember'
  BY <1>1 DEF IndInv
<1>3. SyncTypeOK'
  BY <1>2, TypeStep
<1>4. ReadyInv' /\ ClosingInv' /\ WireInv'
  BY ReadyStep, ClosingStep, WireStep
<1>5. PostedInv' /\ OutboxInv'
  BY <1>2, <1>3, PostedStep, OutboxStep
<1> QED
  BY <1>1, <1>3, <1>4, <1>5

\* The invariant of the whole server: tables, tasks, channel and sockets.
THEOREM ServerInvHolds == SyncSpec => []ServerInv
<1> QED
  BY InitServerInv, NextServerInv, PTL DEF SyncSpec

\* A socket has the welcome and then messages that were posted for it.
LEMMA WireIsPosted ==
  ASSUME ServerInv, NEW c \in Conn, NEW i \in DOMAIN wire[c]
  PROVE  /\ i \in Nat
         /\ \/ wire[c][i].kind = "welcome"
            \/ i - 1 \in 1..Len(posted[c]) /\ wire[c][i] = posted[c][i - 1]
<1>1. wire[c] \in Seq(Message) /\ posted[c] \in Seq(Message)
  BY DEF ServerInv, SyncTypeOK
<1>2. /\ Len(wire[c]) \in Nat /\ Len(posted[c]) \in Nat
      /\ i \in 1..Len(wire[c]) /\ wire[c] # <<>>
  BY <1>1, LenProperties, EmptySeq
<1>3. Written(posted[c], wire[c])
  BY DEF ServerInv, WireInv
<1>4. CASE i = 1
  BY <1>2, <1>3, <1>4 DEF Written, Welcome
<1>5. CASE i # 1
  <2>1. i - 1 \in 1..(Len(wire[c]) - 1) /\ i - 1 + 1 = i
    BY <1>2, <1>5
  <2>2. wire[c][i - 1 + 1] = posted[c][i - 1] /\ Len(wire[c]) <= Len(posted[c]) + 1
    BY <1>2, <1>3, <2>1 DEF Written
  <2> QED
    BY <1>2, <2>1, <2>2
<1> QED
  BY <1>4, <1>5

\* Connections, channel and sockets keep their types: the slice of a receiver
\* is never longer than the channel's capacity.
THEOREM ServerTypeCorrect == SyncSpec => []SyncTypeOK
<1>1. ServerInv => SyncTypeOK
  BY DEF ServerInv
<1> QED
  BY <1>1, ServerInvHolds, PTL

\* Whatever the interleaving of handlers, sends and forward tasks, a text does
\* not reach a client twice, texts of one sender reach it in the order sent,
\* and none comes back to its sender.
THEOREM TextsStayInOrder == SyncSpec => []TextsInOrder
<1>1. ASSUME ServerInv PROVE TextsInOrder
  <2> SUFFICES ASSUME NEW c \in Conn, NEW i \in DOMAIN wire[c], NEW j \in DOMAIN wire[c],
                      wire[c][i].kind = "text"
               PROVE  /\ wire[c][i].from # c
                      /\ i < j /\ wire[c][j].kind = "text" /\ wire[c][j].from = wire[c][i].from
                           => wire[c][i].n < wire[c][j].n
    BY DEF TextsInOrder
  <2>1. i \in Nat /\ i - 1 \in 1..Len(posted[c]) /\ wire[c][i] = posted[c][i - 1]
    BY <1>1, WireIsPosted
  <2>2. wire[c][i].from # c
    BY <1>1, <2>1 DEF ServerInv, PostedInv, Fit
  <2>3. ASSUME i < j, wire[c][j].kind = "text", wire[c][j].from = wire[c][i].from
        PROVE  wire[c][i].n < wire[c][j].n
    <3>1. j \in Nat /\ j - 1 \in 1..Len(posted[c]) /\ wire[c][j] = posted[c][j - 1]
      BY <1>1, <2>3, WireIsPosted
    <3>2. i - 1 < j - 1
      BY <2>1, <2>3, <3>1
    <3>3. Precedes(posted[c][i - 1], posted[c][j - 1])
      BY <1>1, <2>1, <3>1, <3>2 DEF ServerInv, PostedInv
    <3> QED
      BY <2>1, <2>3, <3>1, <3>3 DEF Precedes
  <2> QED
    BY <2>2, <2>3
<1> QED
  BY <1>1, ServerInvHolds, PTL

\* What a client is sent reaches it without a hole, however far it lags.
THEOREM NothingIsSkipped == SyncSpec => []NoHoles
<1>1. ASSUME ServerInv PROVE NoHoles
  <2> SUFFICES ASSUME NEW c \in Conn, wire[c] # <<>>
               PROVE  IsPrefix(Tail(wire[c]), posted[c])
    BY DEF NoHoles
  <2> DEFINE w == wire[c]
             p == posted[c]
  <2>1. w \in Seq(Message) /\ p \in Seq(Message)
    BY <1>1 DEF ServerInv, SyncTypeOK
  <2>2. Written(p, w)
    BY <1>1 DEF ServerInv, WireInv
  <2>3. /\ Tail(w) \in Seq(Message) /\ Len(Tail(w)) = Len(w) - 1
        /\ \A i \in 1..Len(Tail(w)) : Tail(w)[i] = w[i + 1]
    BY <2>1, HeadTailProperties
  <2> DEFINE n == Len(Tail(w))
  <2>4. n \in Nat /\ n <= Len(p) /\ Len(p) \in Nat
    BY <2>1, <2>2, <2>3, LenProperties DEF Written
  <2>5. \A i \in 1..n : Tail(w)[i] = p[i]
    BY <2>2, <2>3 DEF Written
  <2> HIDE DEF w, p
  <2>6. SubSeq(Tail(w), 1, n) = Tail(w)
    BY <2>3, SubSeqFull
  <2>7. /\ SubSeq(p, 1, n) \in Seq(Message) /\ Len(SubSeq(p, 1, n)) = n
        /\ \A i \in 1..n : SubSeq(p, 1, n)[i] = p[i]
    <3>1. \A i \in 1..n : p[i] \in Message
      BY <2>1, <2>4, ElementOfSeq
    <3>2. 1 \in Int /\ n \in Int
      BY <2>4
    <3>3. /\ SubSeq(p, 1, n) \in Seq(Message)
          /\ Len(SubSeq(p, 1, n)) = IF 1 <= n THEN n - 1 + 1 ELSE 0
          /\ \A i \in 1..(n - 1 + 1) : SubSeq(p, 1, n)[i] = p[1 + i - 1]
      BY <3>1, <3>2, SubSeqProperties
    <3> HIDE DEF n
    <3> QED
      BY <2>4, <3>3
  <2>8. SubSeq(p, 1, n) = Tail(w)
    BY <2>3, <2>5, <2>7, SeqEqual
  <2> QED
    BY <2>4, <2>6, <2>8 DEF IsPrefix, w, p
<1> QED
  BY <1>1, ServerInvHolds, PTL

\* The owners of the actors in a snapshot are members it names, though it is sent
\* after the lock is released; or their connections broke, and then it may be the
\* notification of their disconnect, which has the actors of before the cleanup.
THEOREM SnapshotOwnersAreNamed == SyncSpec => []SnapshotsAreConsistent
<1>1. ASSUME ServerInv PROVE SnapshotsAreConsistent
  <2> SUFFICES ASSUME NEW c \in Conn, NEW i \in DOMAIN wire[c], wire[c][i].kind = "sync",
                      NEW a \in DOMAIN wire[c][i].actors
               PROVE  \/ wire[c][i].actors[a].owner_id \in wire[c][i].members
                      \/ lost[wire[c][i].actors[a].owner_id]
    BY DEF SnapshotsAreConsistent
  <2>1. i - 1 \in 1..Len(posted[c]) /\ wire[c][i] = posted[c][i - 1]
    BY <1>1, WireIsPosted
  <2>2. Fit(wire[c][i], c, lost, requests)
    BY <1>1, <2>1 DEF ServerInv, PostedInv
  <2> QED
    BY <2>2 DEF Fit
<1> QED
  BY <1>1, ServerInvHolds, PTL

\* A snapshot reaches only clients that it names as members of the session.
THEOREM SnapshotsReachMembers == SyncSpec => []SnapshotsNameTheirReceiver
<1>1. ASSUME ServerInv PROVE SnapshotsNameTheirReceiver
  <2> SUFFICES ASSUME NEW c \in Conn, NEW i \in DOMAIN wire[c], wire[c][i].kind = "sync"
               PROVE  c \in wire[c][i].members
    BY DEF SnapshotsNameTheirReceiver
  <2>1. i - 1 \in 1..Len(posted[c]) /\ wire[c][i] = posted[c][i - 1]
    BY <1>1, WireIsPosted
  <2>2. Fit(wire[c][i], c, lost, requests)
    BY <1>1, <2>1 DEF ServerInv, PostedInv
  <2> QED
    BY <2>2 DEF Fit
<1> QED
  BY <1>1, ServerInvHolds, PTL
=============================================================================
