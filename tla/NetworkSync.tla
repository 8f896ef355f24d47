---------------------------- MODULE NetworkSync ----------------------------
(***************************************************************************)
(* The server and the runtimes of its clients.  A connection carries the   *)
(* requests of its client up in order (up) and the messages of the server  *)
(* down in order (wire); each side handles the next one when it gets to    *)
(* it.  The requests are those the runtime sends, where SyncServer takes   *)
(* any.                                                                    *)
(***************************************************************************)
EXTENDS SyncServer

CONSTANT Calls  \* the calls the games make

ASSUME KindsAssumption ==
  {"join", "leave", "register", "update", "text"} \subseteq Kinds

VARIABLES
  connected, client_id, current_session_id, remote_actors, local_actors,
  message_queue, up,  \* the runtimes, see SyncClient
  read                \* how many messages of its wire a runtime has handled

Client == INSTANCE SyncClient

\* TLC takes no tuple of an instance for a subscript.
clientVars ==
  <<connected, client_id, current_session_id, remote_actors, local_actors,
    message_queue, up>>

netVars == <<syncVars, clientVars, read>>

NetInit ==
  /\ SyncInit
  /\ Client!Init
  /\ read = [c \in Conn |-> 0]

---------------------------------------------------------------------------
\* The serve loop reads the next request and dispatches on its type.  req is
\* bound by \E, not by LET: the handlers prime expressions of their arguments.
Dispatch(c) ==
  /\ up[c] # <<>>
  /\ up' = [up EXCEPT ![c] = Tail(@)]
  /\ \E req \in {Head(up[c])} :
       \/ req.kind = "join"     /\ handle_join_session(c, req.session)
       \/ req.kind = "leave"    /\ handle_leave_session(c)
       \/ req.kind = "register" /\ handle_register_actor(c, req.actor)
       \/ req.kind = "update"   /\ handle_actor_update(c, req.actor, req.data)
       \/ req.kind = "text"     /\ handle_registered_message(c)
  /\ UNCHANGED <<connected, client_id, current_session_id, remote_actors, local_actors,
                 message_queue, read>>

\* The runtime handles the next message of its connection.
Receive(c) ==
  /\ ~lost[c]
  /\ read[c] < Len(wire[c])
  /\ read' = [read EXCEPT ![c] = @ + 1]
  /\ LET m == wire[c][read[c] + 1] IN
       \/ m.kind = "welcome" /\ Client!process_welcome(c, c)
       \/ m.kind = "sync"    /\ Client!process_sync(c, m.actors)
       \/ m.kind = "text"    /\ Client!process_text(c, m)
  /\ UNCHANGED syncVars

\* A call of the game, once its connection is up.  MaxRequests bounds what the
\* calls send.
Call(c, name) ==
  /\ name \in Calls
  /\ pc[c] = "serving" /\ ~lost[c]
  /\ requests[c] + Len(up'[c]) <= MaxRequests
  /\ UNCHANGED <<syncVars, read>>

GameStep(c) ==
  \/ \E s \in SessionId :
       /\ SwitchWithoutLeaving \/ current_session_id[c] \in {None, s}
       /\ Client!join_session(c, s)
       /\ Call(c, "join")
  \/ Client!leave_session(c) /\ Call(c, "leave")
  \/ Client!send_registered_message(c, None) /\ Call(c, "text")
  \/ Client!get_message(c) /\ Call(c, "get")
  \/ \E a \in ActorId :
       \/ Client!register_actor(c, a) /\ Call(c, "register")
       \/ \E d \in Data : Client!send_actor_update(c, a, d) /\ Call(c, "update")

\* Everything the server does without a request.
ServerStep(c) ==
  /\ Accept(c) \/ Task(c) \/ ForwardTask(c) \/ HangUp(c)
  /\ UNCHANGED <<clientVars, read>>

NetNext == \E c \in Conn : ServerStep(c) \/ Dispatch(c) \/ Receive(c) \/ GameStep(c)

NetSpec == NetInit /\ [][NetNext]_netVars

---------------------------------------------------------------------------
(* Properties *)

SentRequest ==
  {Client!LeaveRequest, Client!TextRequest(None)}
    \cup {Client!JoinRequest(s) : s \in SessionId}
    \cup {Client!RegisterRequest(a) : a \in ActorId}
    \cup {Client!UpdateRequest(a, d) : a \in ActorId, d \in Data}

NetTypeOK ==
  /\ connected \in [Conn -> BOOLEAN]
  /\ client_id \in [Conn -> Conn \cup {None}]
  /\ current_session_id \in [Conn -> SessionId \cup {None}]
  /\ remote_actors \in [Conn -> ActorMap]
  /\ local_actors \in [Conn -> SUBSET ActorId]
  /\ message_queue \in [Conn -> Seq(Message)]
  /\ up \in [Conn -> Seq(SentRequest)]
  /\ read \in [Conn -> Nat]
  /\ \A c \in Conn : requests[c] + Len(up[c]) <= MaxRequests

\* The requests among reqs that change the session of a client, and to what
Moves(reqs) == {i \in DOMAIN reqs : reqs[i].kind \in {"join", "leave"}}
MovesTo(req) == IF req.kind = "join" THEN req.session ELSE None

\* Whether a client that is in session s, and has asked for reqs since, is
\* right to believe that it is in session cur.
Follows(cur, s, reqs) ==
  /\ Moves(reqs) = {} => cur = s
  /\ \A i \in Moves(reqs) : (\A j \in Moves(reqs) : j <= i) => cur = MovesTo(reqs[i])

\* "Update local state - will be confirmed by server response" (network.rs:93
\* and 114): the session a runtime shows is the one the last request under way
\* asks for, or the one the server has for it, as long as the connection lives.
SessionFollowsRequests ==
  \A c \in Conn : pc[c] = "serving" =>
    Follows(current_session_id[c], connections[c], up[c])

\* The server gives no client an actor that client has not registered locally,
\* so no client is surprised by an actor of its own.
OwnedIsLocal ==
  \A s \in DOMAIN session_actors : \A a \in DOMAIN session_actors[s] :
    a \in local_actors[session_actors[s][a].owner_id]

\* A snapshot may be old when it is handled, yet none adds to the actors a
\* runtime counts as its own (network.rs:319 to 328): it knew them all before.
SnapshotsAddNothing ==
  [][\A c \in Conn : Receive(c) => UNCHANGED local_actors]_netVars

\* No update the runtime sends is lost on the way to the session's table: it is
\* handled while the server has the client in a session, and afterwards that
\* session has the actor, although the registration may have been ignored for
\* coming outside a session (main.rs:347) and is never sent again.
UpdatesTakeEffect ==
  [][\A c \in Conn, a \in ActorId :
       Dispatch(c) /\ Head(up[c]).kind = "update" /\ Head(up[c]).actor = a =>
         \E s \in SessionId : InSession(c, s)' /\ HasActor(s, a)']_netVars

\* Nothing is under way anywhere.
NetQuiescent ==
  /\ Quiescent
  /\ \A c \in Conn : up[c] = <<>> /\ read[c] = Len(wire[c])

\* "Clear session state" (network.rs:117): once nothing is under way, a client
\* that has left sees no remote actor.
LeftClientSeesNobody ==
  NetQuiescent => \A c \in Conn :
    current_session_id[c] = None => DOMAIN remote_actors[c] = {}
=============================================================================
