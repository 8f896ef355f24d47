----------------------------- MODULE SyncServer -----------------------------
(***************************************************************************)
(* The whole server of network-sync-server/src/main.rs: one task and one   *)
(* forward task per connection over the shared ServerState and one tokio   *)
(* broadcast channel.                                                      *)
(*                                                                         *)
(* A handler runs its critical section, takes a snapshot, releases the     *)
(* lock and only then sends the snapshot, one member at a time; tasks run  *)
(* on several threads, so the sends of two handlers interleave.  A         *)
(* receiver of the channel that falls more than Cap messages behind gets   *)
(* an error and its forward task ends, while its connection lives on.      *)
(*                                                                         *)
(* Clients are arbitrary: each sends any request of the kinds in Kinds at  *)
(* any time, and may hang up where MayHangUp says so.                      *)
(***************************************************************************)
EXTENDS ServerState, Naturals, SequencesExt

CONSTANTS
  Cap,          \* capacity of the broadcast channel
  MaxRequests,  \* bound on the requests of one connection
  Kinds,        \* the kinds of request the clients make
  MayHangUp     \* the connections that may be lost

ASSUME CapAssumption == Cap \in Nat \ {0}
ASSUME RequestsAssumption == MaxRequests \in Nat
ASSUME HangUpAssumption == MayHangUp \subseteq Conn

VARIABLES
  pc,         \* where the task of each connection is
  outbox,     \* the message it is sending, and to which members still
  listening,  \* whether its forward task still receives
  rx,         \* what its forward task has not received yet
  wire,       \* what was written to its socket, in order
  posted,     \* history: what was sent to the channel for it
  requests,   \* history: how many requests of it were handled
  lost        \* whether the client hung up or the connection broke

taskVars == <<pc, outbox, listening, rx, wire, posted, requests, lost>>
syncVars == <<stateVars, taskVars>>

---------------------------------------------------------------------------
(* Messages to clients *)

Welcome == [kind |-> "welcome"]

\* ServerSyncSessionMessage
Sync(members, actors) == [kind |-> "sync", members |-> members, actors |-> actors]

\* A registered message, forwarded as it came; n tells the messages of one
\* sender apart.
Text(c, n) == [kind |-> "text", from |-> c, n |-> n]

Message ==
  {Welcome} \cup [kind : {"sync"}, members : SUBSET Conn, actors : ActorMap]
            \cup [kind : {"text"}, from : Conn, n : 1..MaxRequests]

Nothing == [to |-> {}, msg |-> Welcome]

SyncTypeOK ==
  /\ StateTypeOK
  /\ pc \in [Conn -> {"absent", "handshake", "serving", "closing", "notifying",
                      "cleanup", "done"}]
  /\ outbox \in [Conn -> [to : SUBSET Conn, msg : Message]]
  /\ listening \in [Conn -> BOOLEAN]
  /\ rx \in [Conn -> Seq([target : Conn, msg : Message])]
  /\ \A c \in Conn : Len(rx[c]) <= Cap
  /\ wire \in [Conn -> Seq(Message)]
  /\ posted \in [Conn -> Seq(Message)]
  /\ requests \in [Conn -> 0..MaxRequests]
  /\ lost \in [Conn -> BOOLEAN]

SyncInit ==
  /\ StateInit
  /\ pc        = [c \in Conn |-> "absent"]
  /\ outbox    = [c \in Conn |-> Nothing]
  /\ listening = [c \in Conn |-> FALSE]
  /\ rx        = [c \in Conn |-> <<>>]
  /\ wire      = [c \in Conn |-> <<>>]
  /\ posted    = [c \in Conn |-> <<>>]
  /\ requests  = [c \in Conn |-> 0]
  /\ lost      = [c \in Conn |-> FALSE]

---------------------------------------------------------------------------
(* The life of a connection *)

Goto(c, label) == pc' = [pc EXCEPT ![c] = label]

\* main accepts a stream, registers the connection and spawns its task.
Accept(c) ==
  /\ pc[c] = "absent"
  /\ register_connection(c)
  /\ Goto(c, "handshake")
  /\ UNCHANGED <<outbox, listening, rx, wire, posted, requests, lost>>

\* accept_async, the welcome, and the subscription to the channel.
Handshake(c) ==
  /\ pc[c] = "handshake"
  /\ wire' = [wire EXCEPT ![c] = Append(@, Welcome)]
  /\ listening' = [listening EXCEPT ![c] = TRUE]
  /\ Goto(c, "serving")
  /\ UNCHANGED <<stateVars, outbox, rx, posted, requests, lost>>

\* Mutation of HandshakeFails: the early return skips the cleanup.
HandshakeFails_NoCleanup(c) ==
  /\ pc[c] = "handshake"
  /\ lost[c]
  /\ Goto(c, "done")
  /\ UNCHANGED <<stateVars, outbox, listening, rx, wire, posted, requests, lost>>

\* accept_async or the welcome fails and `?` ends handle_connection.
HandshakeFails(c) ==
  /\ pc[c] = "handshake"
  /\ lost[c]
  /\ Goto(c, "cleanup")
  /\ UNCHANGED <<stateVars, outbox, listening, rx, wire, posted, requests, lost>>

\* The serve loop sees the end of the stream and asks the forward task to
\* abort.
EndOfStream(c) ==
  /\ pc[c] = "serving"
  /\ outbox[c].to = {}
  /\ lost[c]
  /\ Goto(c, "closing")
  /\ UNCHANGED <<stateVars, outbox, listening, rx, wire, posted, requests, lost>>

\* The abort reaches the forward task where it next waits, and drops its
\* receiver.
ForwardAborted(c) ==
  /\ listening[c]
  /\ pc[c] \in {"closing", "notifying", "done"}
  /\ listening' = [listening EXCEPT ![c] = FALSE]
  /\ rx' = [rx EXCEPT ![c] = <<>>]
  /\ UNCHANGED <<stateVars, pc, outbox, wire, posted, requests, lost>>

\* The disconnect notification: the other members, with the actors of the
\* session as they are before the cleanup.
NotifyDisconnect(c) ==
  /\ pc[c] = "closing"
  /\ \/ \E s \in SessionId :
          /\ InSession(c, s)
          /\ outbox' = [outbox EXCEPT ![c] =
               LET others == get_session_members(s) \ {c} IN
                 IF others = {} THEN Nothing
                 ELSE [to |-> others, msg |-> Sync(others, get_session_actors(s))]]
     \/ /\ \A s \in SessionId : ~InSession(c, s)
        /\ UNCHANGED outbox
  /\ Goto(c, "notifying")
  /\ UNCHANGED <<stateVars, listening, rx, wire, posted, requests, lost>>

\* Mutation of Cleanup: only the connection is removed.
Cleanup_ConnectionOnly(c) ==
  /\ \/ pc[c] = "cleanup"
     \/ pc[c] = "notifying" /\ outbox[c].to = {}
  /\ connections' = RemoveKey(connections, c)
  /\ Goto(c, "done")
  /\ UNCHANGED <<sessions, client_metadata, session_actors, issued, outbox, listening, rx,
                 wire, posted, requests, lost>>

\* "On disconnect, clean up".
Cleanup(c) ==
  /\ \/ pc[c] = "cleanup"
     \/ pc[c] = "notifying" /\ outbox[c].to = {}
  /\ remove_connection(c)
  /\ Goto(c, "done")
  /\ UNCHANGED <<outbox, listening, rx, wire, posted, requests, lost>>

\* The client closes, crashes or loses the network.
HangUp(c) ==
  /\ c \in MayHangUp
  /\ pc[c] \in {"handshake", "serving"}
  /\ ~lost[c]
  /\ lost' = [lost EXCEPT ![c] = TRUE]
  /\ UNCHANGED <<stateVars, pc, outbox, listening, rx, wire, posted, requests>>

---------------------------------------------------------------------------
(* Sending *)

Listeners == {c \in Conn : listening[c]}

\* Mutation of Publish: the channel has no bound.
Publish_Unbounded(t, msg) ==
  /\ rx' = [c \in Conn |->
              IF listening[c] THEN Append(rx[c], [target |-> t, msg |-> msg]) ELSE <<>>]
  /\ posted' = [posted EXCEPT ![t] = Append(@, msg)]
  /\ UNCHANGED listening

\* Mutation of Publish: a forward task goes on after Lagged.
Publish_GoesOn(t, msg) ==
  /\ rx' = [c \in Conn |->
              LET slots == IF Len(rx[c]) < Cap THEN rx[c] ELSE Tail(rx[c]) IN
                IF listening[c] THEN Append(slots, [target |-> t, msg |-> msg]) ELSE <<>>]
  /\ posted' = [posted EXCEPT ![t] = Append(@, msg)]
  /\ UNCHANGED listening

\* tx.send of a message for t.  Every receiver gets it into its slice of the
\* ring; one whose slice was full has lost its oldest message and its next
\* recv returns Lagged, which ends the loop of its forward task.
Publish(t, msg) ==
  /\ listening' = [c \in Conn |-> listening[c] /\ Len(rx[c]) < Cap]
  /\ rx' = [c \in Conn |->
              IF listening'[c] THEN Append(rx[c], [target |-> t, msg |-> msg]) ELSE <<>>]
  /\ posted' = [posted EXCEPT ![t] = Append(@, msg)]

\* Mutation of SendOne: a member is not taken off the list once sent to.
SendOne_Repeats(c) ==
  \E t \in outbox[c].to :
    /\ Listeners # {}
    /\ Publish(t, outbox[c].msg)
    /\ UNCHANGED <<stateVars, pc, outbox, wire, requests, lost>>

\* The next send of a handler's loop over the members, in any order.
SendOne(c) ==
  \E t \in outbox[c].to :
    /\ Listeners # {}
    /\ Publish(t, outbox[c].msg)
    /\ outbox' = [outbox EXCEPT ![c] =
         IF @.to = {t} THEN Nothing ELSE [to |-> @.to \ {t}, msg |-> @.msg]]
    /\ UNCHANGED <<stateVars, pc, wire, requests, lost>>

\* tx.send fails when the channel has no receiver: a handler returns with the
\* error and sends nothing more, the disconnect notification ignores it and
\* goes on to the next member.
SendFails(c) ==
  /\ Listeners = {}
  /\ \E t \in outbox[c].to :
       outbox' = [outbox EXCEPT ![c] =
         IF pc[c] # "notifying" \/ @.to = {t} THEN Nothing
         ELSE [to |-> @.to \ {t}, msg |-> @.msg]]
  /\ UNCHANGED <<stateVars, pc, listening, rx, wire, posted, requests, lost>>

\* Mutation of Forward: a message for another connection ends the loop.
Forward_StopsOnOther(c) ==
  /\ listening[c]
  /\ rx[c] # <<>>
  /\ LET mine == Head(rx[c]).target = c IN
       /\ rx' = [rx EXCEPT ![c] = IF mine THEN Tail(@) ELSE <<>>]
       /\ wire' = IF mine THEN [wire EXCEPT ![c] = Append(@, Head(rx[c]).msg)] ELSE wire
       /\ listening' = [listening EXCEPT ![c] = mine]
  /\ UNCHANGED <<stateVars, pc, outbox, posted, requests, lost>>

\* The forward task receives a message and writes it to the socket when it is
\* for its connection.
Forward(c) ==
  /\ listening[c]
  /\ rx[c] # <<>>
  /\ rx' = [rx EXCEPT ![c] = Tail(@)]
  /\ wire' = IF Head(rx[c]).target = c
             THEN [wire EXCEPT ![c] = Append(@, Head(rx[c]).msg)] ELSE wire
  /\ UNCHANGED <<stateVars, pc, outbox, listening, posted, requests, lost>>

\* Writing to the socket of a client that is gone fails and ends the task.
ForwardFails(c) ==
  /\ listening[c]
  /\ rx[c] # <<>>
  /\ Head(rx[c]).target = c
  /\ lost[c]
  /\ listening' = [listening EXCEPT ![c] = FALSE]
  /\ rx' = [rx EXCEPT ![c] = <<>>]
  /\ UNCHANGED <<stateVars, pc, outbox, wire, posted, requests, lost>>

---------------------------------------------------------------------------
(* Handlers.  A handler runs to its end before the loop reads the next     *)
(* request of the same connection.                                         *)

Handles(c, kind) ==
  /\ kind \in Kinds
  /\ pc[c] = "serving"
  /\ outbox[c].to = {}
  /\ requests[c] < MaxRequests
  /\ requests' = [requests EXCEPT ![c] = @ + 1]
  /\ UNCHANGED <<pc, listening, rx, wire, posted, lost>>

\* Mutation of Broadcast: the member list is read before the change.
Broadcast_ToFormerMembers(c, s) ==
  outbox' = [outbox EXCEPT ![c] =
    LET members == get_session_members(s)' IN
      IF get_session_members(s) = {} THEN Nothing
      ELSE [to |-> get_session_members(s), msg |-> Sync(members, get_session_actors(s)')]]

\* The snapshot of session s that the critical section ends with, to go to
\* its members; nothing when there are none.
Broadcast(c, s) ==
  outbox' = [outbox EXCEPT ![c] =
    LET members == get_session_members(s)' IN
      IF members = {} THEN Nothing
      ELSE [to |-> members, msg |-> Sync(members, get_session_actors(s)')]]

handle_join_session(c, s) ==
  /\ Handles(c, "join")
  /\ MayJoin(c, s)
  /\ join_session(c, s)
  /\ Broadcast(c, s)

handle_leave_session(c) ==
  /\ Handles(c, "leave")
  /\ \/ \E s \in SessionId : leave_session(c, s) /\ Broadcast(c, s)
     \/ /\ \A s \in SessionId : ~InSession(c, s)
        /\ UNCHANGED <<stateVars, outbox>>

\* Members are not told of a new actor.
handle_register_actor(c, a) ==
  /\ Handles(c, "register")
  /\ \/ \E s \in SessionId : register_actor(c, s, a)
     \/ /\ \/ a = EmptyId
           \/ \A s \in SessionId : InSession(c, s) => HasActor(s, a)
        /\ UNCHANGED stateVars
  /\ UNCHANGED outbox

\* Mutation of handle_actor_update: an update of an unknown actor is dropped.
handle_actor_update_KnownOnly(c, a, d) ==
  /\ Handles(c, "update")
  /\ \/ \E s \in SessionId : update_actor(c, s, a, d) /\ Broadcast(c, s)
     \/ /\ \A s \in SessionId : ~(HasActor(s, a) /\ session_actors[s][a].owner_id = c)
        /\ UNCHANGED <<stateVars, outbox>>

handle_actor_update(c, a, d) ==
  /\ Handles(c, "update")
  /\ \/ \E s \in SessionId :
          /\ update_actor(c, s, a, d) \/ create_actor(c, s, a, d)
          /\ Broadcast(c, s)
     \/ /\ \A s \in SessionId :
             InSession(c, s) => HasActor(s, a) /\ session_actors[s][a].owner_id # c
        /\ UNCHANGED <<stateVars, outbox>>

handle_state(c, scene) ==
  /\ Handles(c, "state")
  /\ handle_update_state(c, scene)
  /\ UNCHANGED outbox

\* To every member but the sender.
handle_registered_message(c) ==
  /\ Handles(c, "text")
  /\ outbox' = [outbox EXCEPT ![c] =
       LET others == UNION {get_session_members(s) \ {c} : s \in {s \in SessionId : InSession(c, s)}} IN
         IF others = {} THEN Nothing
         ELSE [to |-> others, msg |-> Text(c, requests'[c])]]
  /\ UNCHANGED stateVars

---------------------------------------------------------------------------
Request(c) ==
  \/ \E s \in SessionId : handle_join_session(c, s)
  \/ handle_leave_session(c)
  \/ \E a \in ActorId : handle_register_actor(c, a)
  \/ \E a \in ActorId, d \in Data : handle_actor_update(c, a, d)
  \/ \E scene \in Scene : handle_state(c, scene)
  \/ handle_registered_message(c)

\* What the task of a connection does by itself, once its client has sent a
\* request or is gone.
Task(c) ==
  \/ Handshake(c) \/ HandshakeFails(c)
  \/ SendOne(c) \/ SendFails(c)
  \/ EndOfStream(c) \/ NotifyDisconnect(c) \/ Cleanup(c)

ForwardTask(c) == Forward(c) \/ ForwardFails(c) \/ ForwardAborted(c)

SyncNext ==
  \E c \in Conn : Accept(c) \/ Task(c) \/ ForwardTask(c) \/ Request(c) \/ HangUp(c)

SyncSpec == SyncInit /\ [][SyncNext]_syncVars

\* tokio runs every task that is ready; nothing makes a client send or stay.
FairSyncSpec ==
  SyncSpec /\ \A c \in Conn : WF_syncVars(Task(c)) /\ WF_syncVars(ForwardTask(c))

---------------------------------------------------------------------------
(* Properties *)

\* The tasks use ServerState as it is meant to be used: every step of theirs
\* is a critical section of a registered connection, or changes no table.
\* Were a request handled before the registration or after the cleanup, a
\* connection that is gone would be entered in a session again.
UsesServerState == StateSpec

\* The same Text does not reach a client twice, and those of one sender reach
\* it in the order sent; none comes back to its sender.
TextsInOrder ==
  \A c \in Conn : \A i, j \in DOMAIN wire[c] :
    wire[c][i].kind = "text" =>
      /\ wire[c][i].from # c
      /\ i < j /\ wire[c][j].kind = "text" /\ wire[c][j].from = wire[c][i].from
           => wire[c][i].n < wire[c][j].n

\* A client sees what was sent for it without a hole: the channel overruns a
\* slow receiver by cutting off everything that follows, never the middle.
NoHoles ==
  \A c \in Conn : wire[c] # <<>> => IsPrefix(Tail(wire[c]), posted[c])

\* The members and the actors of a snapshot were copied together: every actor
\* in it is owned by a member named in it, unless its owner's connection broke; a
\* disconnect notification names the others and has the actors of before the
\* cleanup.
SnapshotsAreConsistent ==
  \A c \in Conn : \A i \in DOMAIN wire[c] :
    wire[c][i].kind = "sync" =>
      \A a \in DOMAIN wire[c][i].actors :
        \/ wire[c][i].actors[a].owner_id \in wire[c][i].members
        \/ lost[wire[c][i].actors[a].owner_id]

\* A snapshot goes only to clients it names as members.
SnapshotsNameTheirReceiver ==
  \A c \in Conn : \A i \in DOMAIN wire[c] :
    wire[c][i].kind = "sync" => c \in wire[c][i].members

\* A connection that broke is forgotten: it is in no session and owns nothing.
Forgotten(c) ==
  /\ c \notin DOMAIN connections
  /\ \A s \in SessionId : c \notin get_session_members(s)

\* The end of a connection always gets as far as the cleanup, whatever the
\* tasks of the other connections are doing.
LostIsForgotten == \A c \in Conn : lost[c] ~> Forgotten(c)

\* Whether all that was sent for c was written to its socket.
CaughtUp(c) == posted[c] # <<>> => Len(wire[c]) > Len(posted[c])

\* "Sends a custom message to all other clients in the session" (API.md:111):
\* what is sent for a client reaches its socket, unless the client is lost.
PostedIsDelivered == \A c \in Conn : []<>(lost[c] \/ CaughtUp(c))

\* Nothing is left for the server to do until a client acts.
Quiescent ==
  \A c \in Conn :
    /\ outbox[c].to = {} /\ rx[c] = <<>>
    /\ pc[c] \in {"absent", "done"} \/ (pc[c] = "serving" /\ ~lost[c])

SyncsOf(c) == {i \in DOMAIN wire[c] : wire[c][i].kind = "sync"}

\* The actors of the last snapshot c got
View(c) == wire[c][CHOOSE i \in SyncsOf(c) : \A j \in SyncsOf(c) : j <= i].actors

\* The connections in session s that are still served and listening
Audience(s) == {c \in Conn : InSession(c, s) /\ pc[c] = "serving" /\ listening[c]}

\* "Gets a list of connected remote player IDs" (API.md:75), which clients
\* take from their last snapshot: once the server has nothing left to do, the
\* owners in it are connected.
ViewHasNoGhosts ==
  Quiescent => \A s \in SessionId : \A c \in Audience(s) : SyncsOf(c) # {} =>
    \A a \in DOMAIN View(c) : View(c)[a].owner_id \in DOMAIN connections
=============================================================================
