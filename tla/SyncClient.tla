----------------------------- MODULE SyncClient -----------------------------
(***************************************************************************)
(* The runtime inside the game, NetworkSyncModule of                       *)
(* network-sync-runtime/src/network.rs, one per client: the calls of the   *)
(* game thread and the handler of messages from the server.  Both hold the *)
(* module's mutex from end to end (utils.rs), so each is one action.       *)
(*                                                                         *)
(* A call that fails an early check changes nothing and is no action; a    *)
(* call that fails half way is.  local_actors is a set: the code tests     *)
(* contains before every push.  remote_members has no reader.              *)
(***************************************************************************)
EXTENDS HashMap, Naturals, Sequences, FiniteSets

CONSTANTS Conn, SessionId, ActorId, Data, None

VARIABLES
  connected,           \* whether the welcome was seen
  client_id,           \* the id the welcome gave, or None
  current_session_id,  \* the session the client believes it is in, or None
  remote_actors,       \* the actors of other clients, from the last snapshot
  local_actors,        \* the actors it has registered
  message_queue,       \* registered messages the game has not taken yet
  up                   \* requests sent and not read by the server yet

clientVars ==
  <<connected, client_id, current_session_id, remote_actors, local_actors,
    message_queue, up>>

Init ==
  /\ connected          = [c \in Conn |-> FALSE]
  /\ client_id          = [c \in Conn |-> None]
  /\ current_session_id = [c \in Conn |-> None]
  /\ remote_actors      = [c \in Conn |-> EmptyMap]
  /\ local_actors       = [c \in Conn |-> {}]
  /\ message_queue      = [c \in Conn |-> <<>>]
  /\ up                 = [c \in Conn |-> <<>>]

---------------------------------------------------------------------------
(* Requests *)

JoinRequest(s)      == [kind |-> "join", session |-> s]
LeaveRequest        == [kind |-> "leave"]
RegisterRequest(a)  == [kind |-> "register", actor |-> a]
UpdateRequest(a, d) == [kind |-> "update", actor |-> a, data |-> d]
TextRequest(m)      == [kind |-> "text", message |-> m]

Send(c, reqs) == up' = [up EXCEPT ![c] = @ \o reqs]

---------------------------------------------------------------------------
(* Calls of the game *)

\* Neither the welcome nor an earlier session is waited for.
join_session(c, s) ==
  /\ Send(c, <<JoinRequest(s)>>)
  /\ current_session_id' = [current_session_id EXCEPT ![c] = s]
  /\ UNCHANGED <<connected, client_id, remote_actors, local_actors, message_queue>>

\* Mutation of leave_session: nothing is sent to the server.
leave_session_Silently(c) ==
  /\ connected[c]
  /\ current_session_id[c] # None
  /\ current_session_id' = [current_session_id EXCEPT ![c] = None]
  /\ remote_actors' = [remote_actors EXCEPT ![c] = EmptyMap]
  /\ UNCHANGED <<connected, client_id, local_actors, message_queue, up>>

\* The actors it registered stay registered here.
leave_session(c) ==
  /\ connected[c]
  /\ current_session_id[c] # None
  /\ Send(c, <<LeaveRequest>>)
  /\ current_session_id' = [current_session_id EXCEPT ![c] = None]
  /\ remote_actors' = [remote_actors EXCEPT ![c] = EmptyMap]
  /\ UNCHANGED <<connected, client_id, local_actors, message_queue>>

\* Whether an actor is neither registered yet nor another client's.
Registrable(c, a) == a \notin local_actors[c] /\ a \notin DOMAIN remote_actors[c]

register_actor(c, a) ==
  /\ connected[c]
  /\ Registrable(c, a)
  /\ Send(c, <<RegisterRequest(a)>>)
  /\ local_actors' = [local_actors EXCEPT ![c] = @ \cup {a}]
  /\ UNCHANGED <<connected, client_id, current_session_id, remote_actors, message_queue>>

\* Mutation of send_actor_update: the actor is not registered first.
send_actor_update_Unregistered(c, a, d) ==
  /\ connected[c]
  /\ a \notin DOMAIN remote_actors[c]
  /\ current_session_id[c] # None
  /\ Send(c, <<UpdateRequest(a, d)>>)
  /\ UNCHANGED <<connected, client_id, current_session_id, remote_actors, local_actors,
                 message_queue>>

\* An update registers the actor first when needed; outside a session it
\* fails after that.
send_actor_update(c, a, d) ==
  /\ connected[c]
  /\ a \notin DOMAIN remote_actors[c]
  /\ LET registration == IF Registrable(c, a) THEN <<RegisterRequest(a)>> ELSE <<>>
         update       == IF current_session_id[c] = None THEN <<>>
                         ELSE <<UpdateRequest(a, d)>>
     IN Send(c, registration \o update)
  /\ local_actors' = [local_actors EXCEPT ![c] = @ \cup {a}]
  /\ UNCHANGED <<connected, client_id, current_session_id, remote_actors, message_queue>>

\* Outside a session nothing is sent, and the call succeeds all the same.
send_registered_message(c, m) ==
  /\ connected[c]
  /\ current_session_id[c] # None
  /\ Send(c, <<TextRequest(m)>>)
  /\ UNCHANGED <<connected, client_id, current_session_id, remote_actors, local_actors,
                 message_queue>>

\* The payload size of the next message, and 0 when there is none.
get_pending_message_size(c) ==
  IF message_queue[c] = <<>> THEN 0 ELSE Head(message_queue[c]).size

\* Mutation of get_message: it reads the front without taking it off.
get_message_Keeps(c) ==
  /\ message_queue[c] # <<>>
  /\ UNCHANGED <<connected, client_id, current_session_id, remote_actors, local_actors,
                 message_queue, up>>

\* The message is taken off the queue whether it fits the buffer or not.
get_message(c) ==
  /\ message_queue[c] # <<>>
  /\ message_queue' = [message_queue EXCEPT ![c] = Tail(@)]
  /\ UNCHANGED <<connected, client_id, current_session_id, remote_actors, local_actors, up>>

\* NetworkSyncGetRemoteActorIDs: the ids of actors of other clients, as many
\* as there are slots, in the order the map yields them.
GetRemoteActorIDs(c, slots) ==
  LET remote_owned == {a \in DOMAIN remote_actors[c] :
                         remote_actors[c][a].owner_id # client_id[c]}
  IN {ids \in SUBSET remote_owned :
        Cardinality(ids) <= slots /\ (Cardinality(ids) < slots => ids = remote_owned)}

\* Mutation of GetRemoteActorData: the data of some remote actor, whatever the id.
GetRemoteActorData_Any(c, a) ==
  IF DOMAIN remote_actors[c] = {} THEN None
  ELSE remote_actors[c][CHOOSE b \in DOMAIN remote_actors[c] : TRUE].data

\* NetworkSyncGetRemoteActorData: None when the actor is gone or has no data.
GetRemoteActorData(c, a) ==
  IF a \in DOMAIN remote_actors[c] THEN remote_actors[c][a].data ELSE None

---------------------------------------------------------------------------
(* Messages from the server: process_network_message *)

\* Mutation of process_welcome: the id goes into the wrong string.
process_welcome_WrongField(c, id) ==
  /\ current_session_id' = [current_session_id EXCEPT ![c] = id]
  /\ connected' = [connected EXCEPT ![c] = TRUE]
  /\ UNCHANGED <<client_id, remote_actors, local_actors, message_queue, up>>

process_welcome(c, id) ==
  /\ client_id' = [client_id EXCEPT ![c] = id]
  /\ connected' = [connected EXCEPT ![c] = TRUE]
  /\ UNCHANGED <<current_session_id, remote_actors, local_actors, message_queue, up>>

\* A snapshot replaces the remote actors, whatever session it is of and
\* whether or not the client is still in one; actors the server says are the
\* client's own are added to the local ones, and none is taken off.
process_sync(c, actors) ==
  LET own == {a \in DOMAIN actors : actors[a].owner_id = client_id[c]} IN
  /\ connected[c]
  /\ remote_actors' = [remote_actors EXCEPT ![c] = Restrict(actors, DOMAIN actors \ own)]
  /\ local_actors' = [local_actors EXCEPT ![c] = @ \cup own]
  /\ UNCHANGED <<connected, client_id, current_session_id, message_queue, up>>

\* Mutation of process_text: an urgent message goes before the others.
process_text_First(c, m) ==
  /\ connected[c]
  /\ message_queue' = [message_queue EXCEPT ![c] = <<m>> \o @]
  /\ UNCHANGED <<connected, client_id, current_session_id, remote_actors, local_actors, up>>

process_text(c, m) ==
  /\ connected[c]
  /\ message_queue' = [message_queue EXCEPT ![c] = Append(@, m)]
  /\ UNCHANGED <<connected, client_id, current_session_id, remote_actors, local_actors, up>>
=============================================================================
