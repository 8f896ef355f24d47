---------------------------- MODULE ServerState ----------------------------
(***************************************************************************)
(* The session server's shared state, network-sync-server/src/main.rs:     *)
(* struct ServerState and the critical sections that change it.  Every     *)
(* handler takes the one mutex around all its reads and writes, so a       *)
(* critical section is one action here.  What happens between two of them  *)
(* (sending snapshots, a connection's life) is in SyncServer.              *)
(*                                                                         *)
(* An Actor keeps its owner and its data; last_update has no reader.  The  *)
(* Vec of a session's members is a set: join_session pushes an id only     *)
(* when it is absent.                                                      *)
(***************************************************************************)
EXTENDS HashMap

CONSTANTS
  Conn,        \* connection ids, the server's uuids
  SessionId,   \* session names clients ask for
  ActorId,     \* actor names clients ask for, the empty one among them
  EmptyId,     \* ""
  Data,        \* actor payloads
  Scene,       \* scene numbers
  NoScene,     \* -1
  None,        \* Option::None
  SwitchWithoutLeaving
    \* whether clients may join a session while they are in another

ASSUME NoneAssumption ==
  None \notin SessionId /\ None \notin Data /\ None \notin Conn

ASSUME SwitchAssumption == SwitchWithoutLeaving \in BOOLEAN

VARIABLES
  connections,      \* connection -> its session, or None
  sessions,         \* session -> the connections in it
  client_metadata,  \* connection -> scene
  session_actors,   \* session -> actor -> Actor
  issued            \* connection ids Uuid::new_v4 has returned so far

stateVars ==
  <<connections, sessions, client_metadata, session_actors, issued>>

Actor == [owner_id : Conn, data : Data \cup {None}]

ActorMap == UNION {[D -> Actor] : D \in SUBSET ActorId}

NewActor(c, d) == [owner_id |-> c, data |-> d]

StateTypeOK ==
  /\ IsMap(connections, Conn, SessionId \cup {None})
  /\ IsMap(sessions, SessionId, SUBSET Conn)
  /\ IsMap(client_metadata, Conn, Scene \cup {NoScene})
  /\ IsMap(session_actors, SessionId, ActorMap)
  /\ issued \subseteq Conn

StateInit ==
  /\ connections     = EmptyMap
  /\ sessions        = EmptyMap
  /\ client_metadata = EmptyMap
  /\ session_actors  = EmptyMap
  /\ issued          = {}

---------------------------------------------------------------------------
(* Lookups *)

\* get_client_session(c) is Some(s)
InSession(c, s) == c \in DOMAIN connections /\ connections[c] = s

get_session_members(s) == GetOr(sessions, s, {})

get_session_actors(s) == GetOr(session_actors, s, EmptyMap)

\* Mutation of RetainOthers: the actors of a client that leaves stay.
RetainOthers_KeepsAll(actors, c) == actors

\* The actors left when those of c are dropped: actors.retain(..)
RetainOthers(actors, c) ==
  Restrict(actors, {a \in DOMAIN actors : actors[a].owner_id # c})

---------------------------------------------------------------------------
(* Critical sections *)

\* main takes a fresh uuid and registers it before the task is spawned.
register_connection(c) ==
  /\ c \notin issued
  /\ issued' = issued \cup {c}
  /\ connections'     = Insert(connections, c, None)
  /\ client_metadata' = Insert(client_metadata, c, NoScene)
  /\ UNCHANGED <<sessions, session_actors>>

\* Mutation of join_session: the two string arguments are swapped where the
\* member is added.
join_session_Swapped(c, s) ==
  /\ connections'    = Insert(connections, c, s)
  /\ sessions'       = Insert(sessions, s, get_session_members(s) \cup {s})
  /\ session_actors' = Insert(session_actors, s, get_session_actors(s))
  /\ UNCHANGED <<client_metadata, issued>>

\* Mutation of join_session: the actor table is created by the first actor.
join_session_NoTable(c, s) ==
  /\ connections'    = Insert(connections, c, s)
  /\ sessions'       = Insert(sessions, s, get_session_members(s) \cup {c})
  /\ UNCHANGED <<session_actors, client_metadata, issued>>

\* The session c was in before, if any, is not looked at.
join_session(c, s) ==
  /\ connections'    = Insert(connections, c, s)
  /\ sessions'       = Insert(sessions, s, get_session_members(s) \cup {c})
  /\ session_actors' = Insert(session_actors, s, get_session_actors(s))
  /\ UNCHANGED <<client_metadata, issued>>

\* Mutation of DropFromSession: an empty session is not cleaned up.
DropFromSession_KeepsEmpty(c, s) ==
  /\ sessions' = IF s \notin DOMAIN sessions THEN sessions
                 ELSE Insert(sessions, s, sessions[s] \ {c})
  /\ session_actors' =
       IF s \notin DOMAIN session_actors THEN session_actors
       ELSE Insert(session_actors, s, RetainOthers(session_actors[s], c))

\* What leave_session(c) does to the two session tables when c is in s: the
\* member goes, the last one takes the session's entry with it, and the
\* actors it owns go.  The entry of session_actors itself stays.
DropFromSession(c, s) ==
  LET rest == get_session_members(s) \ {c} IN
  /\ sessions' = IF s \notin DOMAIN sessions THEN sessions
                 ELSE IF rest = {} THEN RemoveKey(sessions, s)
                 ELSE Insert(sessions, s, rest)
  /\ session_actors' =
       IF s \notin DOMAIN session_actors THEN session_actors
       ELSE Insert(session_actors, s, RetainOthers(session_actors[s], c))

leave_session(c, s) ==
  /\ InSession(c, s)
  /\ connections' = Insert(connections, c, None)
  /\ DropFromSession(c, s)
  /\ UNCHANGED <<client_metadata, issued>>

\* handle_register_actor when it gets as far as the insert.
register_actor(c, s, a) ==
  /\ InSession(c, s)
  /\ s \in DOMAIN session_actors
  /\ a # EmptyId
  /\ a \notin DOMAIN session_actors[s]
  /\ session_actors' = [session_actors EXCEPT ![s] = Insert(@, a, NewActor(c, None))]
  /\ UNCHANGED <<connections, sessions, client_metadata, issued>>

\* Mutation of update_actor: any member of the session may update.
update_actor_Unchecked(c, s, a, d) ==
  /\ InSession(c, s)
  /\ s \in DOMAIN session_actors
  /\ a \in DOMAIN session_actors[s]
  /\ session_actors' = [session_actors EXCEPT ![s] = Insert(@, a, NewActor(c, d))]
  /\ UNCHANGED <<connections, sessions, client_metadata, issued>>

\* handle_actor_update on an existing actor: only its owner gets past the
\* ownership check.
update_actor(c, s, a, d) ==
  /\ InSession(c, s)
  /\ s \in DOMAIN session_actors
  /\ a \in DOMAIN session_actors[s]
  /\ session_actors[s][a].owner_id = c
  /\ session_actors' = [session_actors EXCEPT ![s] = Insert(@, a, NewActor(c, d))]
  /\ UNCHANGED <<connections, sessions, client_metadata, issued>>

\* handle_actor_update on an actor that does not exist: it is created for
\* the sender.  Unlike registration this takes any id.
create_actor(c, s, a, d) ==
  /\ InSession(c, s)
  /\ s \in DOMAIN session_actors
  /\ a \notin DOMAIN session_actors[s]
  /\ session_actors' = [session_actors EXCEPT ![s] = Insert(@, a, NewActor(c, d))]
  /\ UNCHANGED <<connections, sessions, client_metadata, issued>>

handle_update_state(c, scene) ==
  /\ c \in DOMAIN client_metadata
  /\ client_metadata' = [client_metadata EXCEPT ![c] = scene]
  /\ UNCHANGED <<connections, sessions, session_actors, issued>>

\* Mutation of remove_connection: it does not leave the session first.
remove_connection_StaysMember(c) ==
  /\ connections'     = RemoveKey(connections, c)
  /\ client_metadata' = RemoveKey(client_metadata, c)
  /\ UNCHANGED <<sessions, session_actors, issued>>

\* When the connection's task ends, however it ends.
remove_connection(c) ==
  /\ connections'     = RemoveKey(connections, c)
  /\ client_metadata' = RemoveKey(client_metadata, c)
  /\ \/ \E s \in SessionId : InSession(c, s) /\ DropFromSession(c, s)
     \/ /\ \A s \in SessionId : ~InSession(c, s)
        /\ UNCHANGED <<sessions, session_actors>>
  /\ UNCHANGED issued

---------------------------------------------------------------------------
\* Whether the client of c asks to join s now.
MayJoin(c, s) == SwitchWithoutLeaving \/ InSession(c, None) \/ InSession(c, s)

\* A critical section runs in the task of a connection, which main registers
\* before it spawns the task and removes as the task's last step.
Section(c) ==
  /\ c \in DOMAIN connections
  /\ \/ remove_connection(c)
     \/ \E scene \in Scene : handle_update_state(c, scene)
     \/ \E s \in SessionId :
          \/ MayJoin(c, s) /\ join_session(c, s)
          \/ leave_session(c, s)
          \/ \E a \in ActorId :
               \/ register_actor(c, s, a)
               \/ \E d \in Data : update_actor(c, s, a, d) \/ create_actor(c, s, a, d)

StateNext == \E c \in Conn : register_connection(c) \/ Section(c)

StateSpec == StateInit /\ [][StateNext]_stateVars

---------------------------------------------------------------------------
(* Properties *)

\* Every actor of a session is owned by a connection in that session's member
\* list: leave_session drops the member and its actors together.  The list may
\* itself be wrong, see OwnersAreConnected.
OwnerIsMember ==
  \A s \in DOMAIN session_actors : \A a \in DOMAIN session_actors[s] :
    session_actors[s][a].owner_id \in get_session_members(s)

\* The session a connection believes it is in lists it and has an actor
\* table: the branches "No actors collection found" (main.rs:344) and "No
\* actors found" (main.rs:457) are never taken.
CurrentSessionListsIt ==
  \A c \in DOMAIN connections :
    connections[c] # None =>
      /\ c \in get_session_members(connections[c])
      /\ connections[c] \in DOMAIN session_actors

\* No session is left with an empty member list, and no session without
\* members has actors: the actor table an abandoned session leaves behind is
\* empty, so the next client to join it starts from nothing.
AbandonedSessionIsClean ==
  /\ \A s \in DOMAIN sessions : sessions[s] # {}
  /\ \A s \in DOMAIN session_actors \ DOMAIN sessions : DOMAIN session_actors[s] = {}

\* "Map from connection ID to session ID" (main.rs:49) and "Map from session
\* ID to set of connection IDs" (main.rs:51) say the same thing: the members
\* of a session are the connections whose session it is.
MembershipAgrees ==
  \A s \in SessionId : get_session_members(s) = {c \in Conn : InSession(c, s)}

\* "On disconnect, clean up" (main.rs:763): nothing in any session refers to a
\* connection that is gone.
OwnersAreConnected ==
  \A s \in DOMAIN session_actors : \A a \in DOMAIN session_actors[s] :
    session_actors[s][a].owner_id \in DOMAIN connections

HasActor(s, a) == s \in DOMAIN session_actors /\ a \in DOMAIN session_actors[s]

\* An owner keeps its actor until it leaves: an actor of a session keeps its
\* owner as long as it exists, and disappears only in the step that takes the
\* owner off the member list.  What one client does never deletes or takes
\* over what another has in the session.
OwnershipLasts ==
  [][\A s \in SessionId, a \in ActorId :
       HasActor(s, a) =>
         LET owner == session_actors[s][a].owner_id IN
           \/ HasActor(s, a)' /\ session_actors'[s][a].owner_id = owner
           \/ ~HasActor(s, a)' /\ owner \notin get_session_members(s)']_stateVars

---------------------------------------------------------------------------
(* Refinement of ActorOwnership *)

\* The abstract state a server state stands for
Present == [s \in SessionId |-> get_session_members(s)]
Holder  == [s \in SessionId |-> [a \in ActorId |->
             IF HasActor(s, a) THEN session_actors[s][a].owner_id ELSE None]]
Content == [s \in SessionId |-> [a \in ActorId |->
             IF HasActor(s, a) THEN session_actors[s][a].data ELSE None]]

Ownership == INSTANCE ActorOwnership WITH
  present <- Present, holder <- Holder, content <- Content

\* The server implements exclusive ownership of actors: whatever its clients
\* send, every critical section is an abstract entering, claiming, writing or
\* leaving, or changes nothing of it.
ImplementsOwnership == Ownership!OwnershipSpec
=============================================================================
