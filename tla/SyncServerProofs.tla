-------------------------- MODULE SyncServerProofs --------------------------
(***************************************************************************)
(* The tasks of SyncServer use ServerState within its specification, so    *)
(* every theorem about ServerState holds of the whole server.              *)
(***************************************************************************)
EXTENDS SyncServer, OwnershipProofs

\* The places where the task of a connection is between its registration and
\* its cleanup.
Alive == {"handshake", "serving", "closing", "notifying", "cleanup"}

\* A task that is alive has its connection in the table.
AliveIsRegistered ==
  /\ pc \in [Conn -> Alive \cup {"absent", "done"}]
  /\ \A c \in Conn : pc[c] \in Alive => c \in DOMAIN connections

\* Handling a request is a critical section of the connection or changes no
\* table.
LEMMA RequestIsSection ==
  ASSUME AliveIsRegistered, NEW c \in Conn, Request(c)
  PROVE  /\ Section(c) \/ UNCHANGED stateVars
         /\ pc' = pc
         /\ DOMAIN connections \subseteq DOMAIN connections'
<1>1. ASSUME Handles(c, "join") \/ Handles(c, "leave") \/ Handles(c, "register")
             \/ Handles(c, "update") \/ Handles(c, "state") \/ Handles(c, "text")
      PROVE  c \in DOMAIN connections /\ pc' = pc
  BY <1>1 DEF Handles, AliveIsRegistered, Alive
<1> DEFINE Goal == /\ Section(c) \/ UNCHANGED stateVars
                   /\ pc' = pc
                   /\ DOMAIN connections \subseteq DOMAIN connections'
<1>2. ASSUME NEW s \in SessionId, handle_join_session(c, s) PROVE Goal
  <2>1. MayJoin(c, s) /\ join_session(c, s)
    BY <1>2 DEF handle_join_session
  <2>2. c \in DOMAIN connections /\ pc' = pc
    BY <1>1, <1>2 DEF handle_join_session
  <2>3. DOMAIN connections \subseteq DOMAIN connections'
    BY <2>1 DEF join_session, Insert
  <2> QED
    BY <2>1, <2>2, <2>3 DEF Section
<1>3. ASSUME handle_leave_session(c) PROVE Goal
  <2>1. c \in DOMAIN connections /\ pc' = pc
    BY <1>1, <1>3 DEF handle_leave_session
  <2>2. ASSUME NEW s \in SessionId, leave_session(c, s) PROVE Goal
    <3>1. DOMAIN connections \subseteq DOMAIN connections'
      BY <2>2 DEF leave_session, Insert
    <3> QED
      BY <2>1, <2>2, <3>1 DEF Section
  <2>3. CASE UNCHANGED stateVars
    BY <2>1, <2>3 DEF stateVars
  <2> QED
    BY <1>3, <2>2, <2>3 DEF handle_leave_session
<1>4. ASSUME NEW a \in ActorId, handle_register_actor(c, a) PROVE Goal
  <2>1. c \in DOMAIN connections /\ pc' = pc
    BY <1>1, <1>4 DEF handle_register_actor
  <2>2. ASSUME NEW s \in SessionId, register_actor(c, s, a) PROVE Goal
    <3>1. connections' = connections
      BY <2>2 DEF register_actor
    <3> QED
      BY <2>1, <2>2, <3>1 DEF Section
  <2>3. CASE UNCHANGED stateVars
    BY <2>1, <2>3 DEF stateVars
  <2> QED
    BY <1>4, <2>2, <2>3 DEF handle_register_actor
<1>5. ASSUME NEW a \in ActorId, NEW d \in Data, handle_actor_update(c, a, d) PROVE Goal
  <2>1. c \in DOMAIN connections /\ pc' = pc
    BY <1>1, <1>5 DEF handle_actor_update
  <2>2. ASSUME NEW s \in SessionId, update_actor(c, s, a, d) \/ create_actor(c, s, a, d)
        PROVE  Goal
    <3>1. connections' = connections
      BY <2>2 DEF update_actor, create_actor
    <3> QED
      BY <2>1, <2>2, <3>1 DEF Section
  <2>3. CASE UNCHANGED stateVars
    BY <2>1, <2>3 DEF stateVars
  <2> QED
    BY <1>5, <2>2, <2>3 DEF handle_actor_update
<1>6. ASSUME NEW scene \in Scene, handle_state(c, scene) PROVE Goal
  <2>1. c \in DOMAIN connections /\ pc' = pc
    BY <1>1, <1>6 DEF handle_state
  <2>2. handle_update_state(c, scene)
    BY <1>6 DEF handle_state
  <2>3. connections' = connections
    BY <2>2 DEF handle_update_state
  <2> QED
    BY <2>1, <2>2, <2>3 DEF Section
<1>7. ASSUME handle_registered_message(c) PROVE Goal
  <2>1. UNCHANGED stateVars
    BY <1>7 DEF handle_registered_message
  <2>2. pc' = pc
    BY <1>1, <1>7 DEF handle_registered_message
  <2> QED
    BY <2>1, <2>2 DEF stateVars
<1> QED
  BY <1>2, <1>3, <1>4, <1>5, <1>6, <1>7 DEF Request

\* Sending, forwarding and losing a client touch no table and move no task.
LEMMA SendingIsSilent ==
  ASSUME NEW c \in Conn,
         SendOne(c) \/ SendFails(c) \/ ForwardTask(c) \/ HangUp(c)
  PROVE  UNCHANGED stateVars /\ pc' = pc
  BY DEF SendOne, SendFails, ForwardTask, Forward, ForwardFails, ForwardAborted, HangUp

\* The steps inside a connection's life that only move its task.
LEMMA MovesAreSilent ==
  ASSUME AliveIsRegistered, NEW c \in Conn,
         Handshake(c) \/ HandshakeFails(c) \/ EndOfStream(c) \/ NotifyDisconnect(c)
  PROVE  UNCHANGED stateVars /\ AliveIsRegistered'
<1>1. UNCHANGED stateVars
  BY DEF Handshake, HandshakeFails, EndOfStream, NotifyDisconnect
<1>2. pc[c] \in Alive
  BY DEF Handshake, HandshakeFails, EndOfStream, NotifyDisconnect, Alive
<1>3. \/ pc' = [pc EXCEPT ![c] = "serving"]
      \/ pc' = [pc EXCEPT ![c] = "cleanup"]
      \/ pc' = [pc EXCEPT ![c] = "closing"]
      \/ pc' = [pc EXCEPT ![c] = "notifying"]
  BY DEF Handshake, HandshakeFails, EndOfStream, NotifyDisconnect, Goto
<1>4. \E label \in Alive : pc' = [pc EXCEPT ![c] = label]
  BY <1>3 DEF Alive
<1> QED
  BY <1>1, <1>2, <1>4 DEF stateVars, AliveIsRegistered

\* A step of the server is a step of ServerState or none of it, and a task
\* stays registered as long as it is alive.
LEMMA SyncStep ==
  ASSUME AliveIsRegistered, [SyncNext]_syncVars
  PROVE  AliveIsRegistered' /\ [StateNext]_stateVars
<1> DEFINE Goal == AliveIsRegistered' /\ [StateNext]_stateVars
<1>1. CASE UNCHANGED stateVars /\ pc' = pc
  BY <1>1 DEF AliveIsRegistered, stateVars
<1>2. ASSUME NEW c \in Conn, Accept(c) PROVE Goal
  <2>1. register_connection(c) /\ pc' = [pc EXCEPT ![c] = "handshake"]
    BY <1>2 DEF Accept, Goto
  <2>2. DOMAIN connections' = DOMAIN connections \cup {c}
    BY <2>1 DEF register_connection, Insert
  <2>3. AliveIsRegistered'
    BY <2>1, <2>2 DEF AliveIsRegistered, Alive
  <2> QED
    BY <2>1, <2>3 DEF StateNext
<1>3. ASSUME NEW c \in Conn, Cleanup(c) PROVE Goal
  <2>1. /\ remove_connection(c)
        /\ pc' = [pc EXCEPT ![c] = "done"]
        /\ pc[c] \in Alive
    BY <1>3 DEF Cleanup, Goto, Alive
  <2>2. DOMAIN connections' = DOMAIN connections \ {c}
    BY <2>1 DEF remove_connection, RemoveKey, Restrict
  <2>3. AliveIsRegistered'
    BY <2>1, <2>2 DEF AliveIsRegistered, Alive
  <2>4. Section(c)
    BY <2>1 DEF Section, AliveIsRegistered
  <2> QED
    BY <2>3, <2>4 DEF StateNext
<1>4. ASSUME NEW c \in Conn, Request(c) PROVE Goal
  <2>1. /\ Section(c) \/ UNCHANGED stateVars
        /\ pc' = pc
        /\ DOMAIN connections \subseteq DOMAIN connections'
    BY <1>4, RequestIsSection
  <2>2. AliveIsRegistered'
    BY <2>1 DEF AliveIsRegistered
  <2> QED
    BY <2>1, <2>2 DEF StateNext
<1>5. ASSUME NEW c \in Conn,
             Handshake(c) \/ HandshakeFails(c) \/ EndOfStream(c) \/ NotifyDisconnect(c)
      PROVE  Goal
  BY <1>5, MovesAreSilent
<1>6. ASSUME NEW c \in Conn,
             SendOne(c) \/ SendFails(c) \/ ForwardTask(c) \/ HangUp(c)
      PROVE  Goal
  BY <1>6, <1>1, SendingIsSilent
<1>7. CASE UNCHANGED syncVars
  BY <1>7, <1>1 DEF syncVars, taskVars
<1> QED
  BY <1>2, <1>3, <1>4, <1>5, <1>6, <1>7 DEF SyncNext, Task

\* No task is alive before it is accepted.
LEMMA InitAlive == SyncInit => AliveIsRegistered /\ StateInit
  BY DEF SyncInit, AliveIsRegistered, Alive

\* The concurrent server refines its own data structure: handlers, forward
\* tasks and cleanups, in any interleaving, only run its critical sections.
THEOREM ServerUsesState == SyncSpec => UsesServerState
<1>1. AliveIsRegistered /\ [SyncNext]_syncVars => AliveIsRegistered' /\ [StateNext]_stateVars
  BY SyncStep
<1> QED
  BY <1>1, InitAlive, PTL DEF SyncSpec, StateSpec, UsesServerState

\* The concurrent server gives every actor to one present client at a time.
THEOREM ConcurrentServerImplementsOwnership == SyncSpec => ImplementsOwnership
<1> QED
  BY ServerUsesState, ServerImplementsOwnership, PTL DEF UsesServerState

\* However the tasks interleave, the owner of an actor is in the member list of
\* the actor's session.
THEOREM ConcurrentOwnersAreMembers == SyncSpec => []OwnerIsMember
<1> QED
  BY ServerUsesState, OwnersAreMembers, PTL DEF UsesServerState
=============================================================================
