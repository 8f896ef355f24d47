------------------------- MODULE ServerStateProofs -------------------------
(***************************************************************************)
(* Theorems about ServerState for any sets of connections, sessions,       *)
(* actors and data.  They rest on one inductive invariant, IndInv.         *)
(***************************************************************************)
EXTENDS ServerState, HashMapLemmas

IndInv ==
  /\ StateTypeOK
  /\ OwnerIsMember
  /\ CurrentSessionListsIt
  /\ AbandonedSessionIsClean

---------------------------------------------------------------------------
(* What the critical sections do, key by key *)

\* An actor table that gains or replaces an actor of a connection is an actor
\* table still, and one that loses some actors too.
LEMMA ActorTables ==
  ASSUME NEW m \in ActorMap
  PROVE  /\ DOMAIN m \subseteq ActorId
         /\ \A a \in DOMAIN m : m[a] \in Actor
         /\ \A a \in ActorId, c \in Conn, d \in Data \cup {None} :
              Insert(m, a, NewActor(c, d)) \in ActorMap
         /\ \A c \in Conn : RetainOthers(m, c) \in ActorMap
<1>1. PICK D \in SUBSET ActorId : m \in [D -> Actor]
  BY DEF ActorMap
<1>2. ASSUME NEW a \in ActorId, NEW c \in Conn, NEW d \in Data \cup {None}
      PROVE  Insert(m, a, NewActor(c, d)) \in ActorMap
  <2>1. NewActor(c, d) \in Actor
    BY DEF NewActor, Actor
  <2>2. Insert(m, a, NewActor(c, d)) \in [D \cup {a} -> Actor]
    BY <1>1, <2>1 DEF Insert
  <2> QED
    BY <2>2 DEF ActorMap
<1>3. ASSUME NEW c \in Conn
      PROVE  RetainOthers(m, c) \in ActorMap
  <2> DEFINE kept == {a \in DOMAIN m : m[a].owner_id # c}
  <2>1. Restrict(m, kept) \in [kept -> Actor]
    BY <1>1 DEF Restrict
  <2> QED
    BY <1>1, <2>1 DEF ActorMap, RetainOthers
<1> QED
  BY <1>1, <1>2, <1>3

\* join_session: the client's session is s, s lists it, no other session's
\* members change, and no actor does.
LEMMA JoinEffect ==
  ASSUME StateTypeOK, NEW c \in Conn, NEW s \in SessionId, join_session(c, s)
  PROVE  /\ StateTypeOK'
         /\ DOMAIN sessions' = DOMAIN sessions \cup {s}
         /\ DOMAIN session_actors' = DOMAIN session_actors \cup {s}
         /\ \A t \in DOMAIN sessions : t # s => sessions'[t] = sessions[t]
         /\ sessions'[s] = get_session_members(s) \cup {c}
         /\ \A t \in SessionId : get_session_actors(t)' = get_session_actors(t)
         /\ DOMAIN connections' = DOMAIN connections \cup {c}
         /\ connections'[c] = s
         /\ \A d \in DOMAIN connections : d # c => connections'[d] = connections[d]
<1> USE DEF join_session
<1>1. get_session_members(s) \in SUBSET Conn
  BY DEF StateTypeOK, IsMap, get_session_members, GetOr
<1>2. EmptyMap \in ActorMap
  <2>1. EmptyMap \in [{} -> Actor]
    BY DEF EmptyMap
  <2> QED
    BY <2>1 DEF ActorMap
<1>3. get_session_actors(s) \in ActorMap
  BY <1>2, GetOrValue DEF StateTypeOK, get_session_actors
<1>4. StateTypeOK'
  <2>1. IsMap(connections', Conn, SessionId \cup {None})
    BY InsertIsMap DEF StateTypeOK
  <2>2. IsMap(sessions', SessionId, SUBSET Conn)
    BY <1>1, InsertIsMap DEF StateTypeOK
  <2>3. IsMap(session_actors', SessionId, ActorMap)
    BY <1>3, InsertIsMap DEF StateTypeOK
  <2> QED
    BY <2>1, <2>2, <2>3 DEF StateTypeOK
<1>5. \A t \in SessionId : get_session_actors(t)' = get_session_actors(t)
  BY DEF get_session_actors, GetOr, Insert
<1> QED
  BY <1>4, <1>5 DEF Insert

\* Dropping a connection from a session takes it off the member list and its
\* actors out of the actor table; other sessions are as before.
LEMMA DropEffect ==
  ASSUME StateTypeOK, NEW c \in Conn, NEW s \in SessionId, DropFromSession(c, s)
  PROVE  /\ IsMap(sessions', SessionId, SUBSET Conn)
         /\ IsMap(session_actors', SessionId, ActorMap)
         /\ \A t \in SessionId : t # s =>
              /\ t \in DOMAIN sessions' <=> t \in DOMAIN sessions
              /\ get_session_members(t)' = get_session_members(t)
              /\ get_session_actors(t)' = get_session_actors(t)
         /\ get_session_members(s)' = get_session_members(s) \ {c}
         /\ s \in DOMAIN sessions' => get_session_members(s)' # {}
         /\ DOMAIN session_actors' = DOMAIN session_actors
         /\ s \in DOMAIN session_actors =>
              session_actors'[s] = RetainOthers(session_actors[s], c)
<1> DEFINE rest == get_session_members(s) \ {c}
<1>1. rest \in SUBSET Conn
  BY DEF StateTypeOK, IsMap, get_session_members, GetOr
<1>2. sessions' = IF s \notin DOMAIN sessions THEN sessions
                  ELSE IF rest = {} THEN RemoveKey(sessions, s)
                  ELSE Insert(sessions, s, rest)
  BY DEF DropFromSession
<1>3. session_actors' = IF s \notin DOMAIN session_actors THEN session_actors
                        ELSE Insert(session_actors, s, RetainOthers(session_actors[s], c))
  BY DEF DropFromSession
<1>4. IsMap(sessions', SessionId, SUBSET Conn)
  BY <1>1, <1>2, InsertIsMap, RemoveIsMap DEF StateTypeOK
<1>5. IsMap(session_actors', SessionId, ActorMap)
  <2>1. CASE s \in DOMAIN session_actors
    <3>1. session_actors[s] \in ActorMap
      BY <2>1, MapValue DEF StateTypeOK
    <3> QED
      BY <2>1, <3>1, <1>3, ActorTables, InsertIsMap DEF StateTypeOK
  <2>2. CASE s \notin DOMAIN session_actors
    BY <2>2, <1>3 DEF StateTypeOK
  <2> QED
    BY <2>1, <2>2
<1>6. \A t \in SessionId : t # s =>
         /\ t \in DOMAIN sessions' <=> t \in DOMAIN sessions
         /\ get_session_members(t)' = get_session_members(t)
  BY <1>2 DEF get_session_members, GetOr, Insert, RemoveKey, Restrict
<1>7. \A t \in SessionId : t # s => get_session_actors(t)' = get_session_actors(t)
  BY <1>3 DEF get_session_actors, GetOr, Insert
<1>8. /\ get_session_members(s)' = rest
      /\ s \in DOMAIN sessions' => rest # {}
  <2>1. CASE s \notin DOMAIN sessions
    BY <2>1, <1>2 DEF get_session_members, GetOr
  <2>2. CASE s \in DOMAIN sessions /\ rest = {}
    BY <2>2, <1>2 DEF get_session_members, GetOr, RemoveKey, Restrict
  <2>3. CASE s \in DOMAIN sessions /\ rest # {}
    BY <2>3, <1>2 DEF get_session_members, GetOr, Insert
  <2> QED
    BY <2>1, <2>2, <2>3
<1>9. /\ DOMAIN session_actors' = DOMAIN session_actors
      /\ s \in DOMAIN session_actors =>
           session_actors'[s] = RetainOthers(session_actors[s], c)
  BY <1>3 DEF Insert
<1> QED
  BY <1>4, <1>5, <1>6, <1>7, <1>8, <1>9

\* What registering, updating and creating an actor have in common: one entry
\* of the current session's actor table is set for the connection itself.
SetActor(c, s, a, d) ==
  /\ InSession(c, s)
  /\ s \in DOMAIN session_actors
  /\ session_actors' = [session_actors EXCEPT ![s] = Insert(@, a, NewActor(c, d))]
  /\ UNCHANGED <<connections, sessions, client_metadata, issued>>

\* The three handlers that write actors all set one entry for the sender.
LEMMA ActorHandlersSetActor ==
  ASSUME NEW c \in Conn, NEW s \in SessionId, NEW a \in ActorId
  PROVE  /\ register_actor(c, s, a) => SetActor(c, s, a, None)
         /\ \A d \in Data : update_actor(c, s, a, d) \/ create_actor(c, s, a, d)
                            => SetActor(c, s, a, d)
  BY DEF register_actor, update_actor, create_actor, SetActor

\* Setting an actor leaves every other session, and every other actor of the
\* session, as it was.
LEMMA SetActorEffect ==
  ASSUME StateTypeOK, NEW c \in Conn, NEW s \in SessionId, NEW a \in ActorId,
         NEW d \in Data \cup {None}, SetActor(c, s, a, d)
  PROVE  /\ IsMap(session_actors', SessionId, ActorMap)
         /\ DOMAIN session_actors' = DOMAIN session_actors
         /\ session_actors'[s] = Insert(session_actors[s], a, NewActor(c, d))
         /\ \A t \in DOMAIN session_actors : t # s => session_actors'[t] = session_actors[t]
<1>1. session_actors[s] \in ActorMap
  BY MapValue DEF SetActor, StateTypeOK
<1>2. Insert(session_actors[s], a, NewActor(c, d)) \in ActorMap
  BY <1>1, ActorTables
<1>3. session_actors' = [session_actors EXCEPT ![s] =
                           Insert(session_actors[s], a, NewActor(c, d))]
  BY DEF SetActor
<1>4. session_actors \in [DOMAIN session_actors -> ActorMap]
  BY DEF StateTypeOK, IsMap
<1> QED
  BY <1>2, <1>3, <1>4 DEF SetActor, StateTypeOK, IsMap

\* A record NewActor(c, d) is owned by c and holds d.
LEMMA NewActorFields ==
  ASSUME NEW c, NEW d
  PROVE  NewActor(c, d).owner_id = c /\ NewActor(c, d).data = d
  BY DEF NewActor

---------------------------------------------------------------------------
(* The inductive invariant *)

\* Before any connection, nothing is registered anywhere.
LEMMA InitIndInv == StateInit => IndInv
<1> SUFFICES ASSUME StateInit PROVE IndInv
  OBVIOUS
<1>1. /\ DOMAIN connections = {}
      /\ DOMAIN sessions = {}
      /\ DOMAIN session_actors = {}
  BY DEF StateInit, EmptyMap
<1>2. StateTypeOK
  BY EmptyMapIsMap DEF StateInit, StateTypeOK
<1> QED
  BY <1>1, <1>2 DEF IndInv, OwnerIsMember, CurrentSessionListsIt, AbandonedSessionIsClean

\* Accepting a connection adds a connection that is in no session.
LEMMA RegisterConnectionKeeps ==
  ASSUME IndInv, NEW c \in Conn, register_connection(c)
  PROVE  IndInv'
<1> USE DEF register_connection
<1>1. StateTypeOK'
  <2>1. /\ IsMap(connections', Conn, SessionId \cup {None})
        /\ IsMap(client_metadata', Conn, Scene \cup {NoScene})
    BY InsertIsMap DEF IndInv, StateTypeOK
  <2> QED
    BY <2>1 DEF IndInv, StateTypeOK
<1>2. CurrentSessionListsIt'
  BY DEF IndInv, CurrentSessionListsIt, Insert, get_session_members
<1>3. OwnerIsMember' /\ AbandonedSessionIsClean'
  BY DEF IndInv, OwnerIsMember, AbandonedSessionIsClean, get_session_members
<1> QED
  BY <1>1, <1>2, <1>3 DEF IndInv

\* Joining only adds a member.
LEMMA JoinKeeps ==
  ASSUME IndInv, NEW c \in Conn, NEW s \in SessionId, join_session(c, s)
  PROVE  IndInv'
<1>1. /\ StateTypeOK'
      /\ DOMAIN sessions' = DOMAIN sessions \cup {s}
      /\ DOMAIN session_actors' = DOMAIN session_actors \cup {s}
      /\ \A t \in DOMAIN sessions : t # s => sessions'[t] = sessions[t]
      /\ sessions'[s] = get_session_members(s) \cup {c}
      /\ \A t \in SessionId : get_session_actors(t)' = get_session_actors(t)
      /\ DOMAIN connections' = DOMAIN connections \cup {c}
      /\ connections'[c] = s
      /\ \A d \in DOMAIN connections : d # c => connections'[d] = connections[d]
  BY JoinEffect DEF IndInv
<1>2. \A t \in SessionId : get_session_members(t) \subseteq get_session_members(t)'
  BY <1>1 DEF get_session_members, GetOr
<1>3. \A t \in DOMAIN session_actors' : t \in SessionId
  BY <1>1 DEF StateTypeOK, IsMap
<1>4. \A t \in DOMAIN session_actors' :
         \/ t \in DOMAIN session_actors /\ session_actors'[t] = session_actors[t]
         \/ DOMAIN session_actors'[t] = {}
  BY <1>1, <1>3 DEF get_session_actors, GetOr, EmptyMap
<1>5. OwnerIsMember'
  BY <1>2, <1>3, <1>4 DEF IndInv, OwnerIsMember
<1>6. CurrentSessionListsIt'
  <2> SUFFICES ASSUME NEW d \in DOMAIN connections', connections'[d] # None
               PROVE  /\ connections'[d] \in DOMAIN session_actors'
                      /\ d \in get_session_members(connections[d])'
    BY DEF CurrentSessionListsIt
  <2>1. CASE d = c
    BY <2>1, <1>1 DEF get_session_members, GetOr
  <2>2. CASE d # c
    <3>1. /\ d \in get_session_members(connections[d])
          /\ connections[d] \in DOMAIN session_actors
          /\ connections'[d] = connections[d]
      BY <2>2, <1>1 DEF IndInv, CurrentSessionListsIt
    <3>2. connections[d] \in SessionId
      BY <3>1 DEF IndInv, StateTypeOK, IsMap
    <3> QED
      BY <3>1, <3>2, <1>1 DEF get_session_members, GetOr
  <2> QED
    BY <2>1, <2>2
<1>7. AbandonedSessionIsClean'
  BY <1>1, <1>4 DEF IndInv, AbandonedSessionIsClean
<1> QED
  BY <1>1, <1>5, <1>6, <1>7 DEF IndInv

\* Setting an actor gives it to a member of the session.
LEMMA SetActorKeeps ==
  ASSUME IndInv, NEW c \in Conn, NEW s \in SessionId, NEW a \in ActorId,
         NEW d \in Data \cup {None}, SetActor(c, s, a, d)
  PROVE  IndInv'
<1>1. /\ IsMap(session_actors', SessionId, ActorMap)
      /\ DOMAIN session_actors' = DOMAIN session_actors
      /\ session_actors'[s] = Insert(session_actors[s], a, NewActor(c, d))
      /\ \A t \in DOMAIN session_actors : t # s => session_actors'[t] = session_actors[t]
  BY SetActorEffect DEF IndInv
<1>2. UNCHANGED <<connections, sessions, client_metadata, issued>>
  BY DEF SetActor
<1>3. c \in get_session_members(s)
  BY NoneAssumption DEF SetActor, InSession, IndInv, CurrentSessionListsIt
<1>4. StateTypeOK'
  BY <1>1, <1>2 DEF IndInv, StateTypeOK
<1>5. OwnerIsMember'
  BY <1>1, <1>2, <1>3, NewActorFields
     DEF IndInv, OwnerIsMember, Insert, get_session_members
<1>6. CurrentSessionListsIt'
  BY <1>1, <1>2 DEF IndInv, CurrentSessionListsIt, get_session_members
<1>7. AbandonedSessionIsClean'
  <2>1. s \in DOMAIN sessions
    BY <1>3 DEF get_session_members, GetOr
  <2> QED
    BY <2>1, <1>1, <1>2 DEF IndInv, AbandonedSessionIsClean
<1> QED
  BY <1>4, <1>5, <1>6, <1>7 DEF IndInv

\* Dropping a connection from its session, once the connection table no longer
\* says it is in one, keeps the member lists and the actor tables in step.
LEMMA DropKeeps ==
  ASSUME IndInv, NEW c \in Conn, NEW s \in SessionId, DropFromSession(c, s),
         \A d \in DOMAIN connections' :
           connections'[d] # None =>
             d # c /\ d \in DOMAIN connections /\ connections'[d] = connections[d]
  PROVE  OwnerIsMember' /\ CurrentSessionListsIt' /\ AbandonedSessionIsClean'
<1>1. /\ IsMap(sessions', SessionId, SUBSET Conn)
      /\ IsMap(session_actors', SessionId, ActorMap)
      /\ \A t \in SessionId : t # s =>
           /\ t \in DOMAIN sessions' <=> t \in DOMAIN sessions
           /\ get_session_members(t)' = get_session_members(t)
           /\ get_session_actors(t)' = get_session_actors(t)
      /\ get_session_members(s)' = get_session_members(s) \ {c}
      /\ s \in DOMAIN sessions' => get_session_members(s)' # {}
      /\ DOMAIN session_actors' = DOMAIN session_actors
      /\ s \in DOMAIN session_actors =>
           session_actors'[s] = RetainOthers(session_actors[s], c)
  BY DropEffect DEF IndInv
<1>2. \A t \in DOMAIN session_actors : t # s => session_actors'[t] = session_actors[t]
  BY <1>1 DEF get_session_actors, GetOr, IndInv, StateTypeOK, IsMap
<1>3. s \in DOMAIN session_actors =>
        \A a \in DOMAIN session_actors'[s] :
          /\ a \in DOMAIN session_actors[s]
          /\ session_actors'[s][a] = session_actors[s][a]
          /\ session_actors[s][a].owner_id # c
  BY <1>1 DEF RetainOthers, Restrict
<1>4. OwnerIsMember'
  <2> SUFFICES ASSUME NEW t \in DOMAIN session_actors', NEW a \in DOMAIN session_actors'[t]
               PROVE  session_actors'[t][a].owner_id \in get_session_members(t)'
    BY DEF OwnerIsMember
  <2>1. t \in DOMAIN session_actors /\ t \in SessionId
    BY <1>1 DEF IndInv, StateTypeOK, IsMap
  <2>2. CASE t = s
    BY <2>1, <2>2, <1>1, <1>3 DEF IndInv, OwnerIsMember
  <2>3. CASE t # s
    BY <2>1, <2>3, <1>1, <1>2 DEF IndInv, OwnerIsMember
  <2> QED
    BY <2>2, <2>3
<1>5. CurrentSessionListsIt'
  <2> SUFFICES ASSUME NEW d \in DOMAIN connections', connections'[d] # None
               PROVE  /\ connections'[d] \in DOMAIN session_actors'
                      /\ d \in get_session_members(connections[d])'
    BY DEF CurrentSessionListsIt
  <2>1. /\ d # c
        /\ connections'[d] = connections[d]
        /\ d \in get_session_members(connections[d])
        /\ connections[d] \in DOMAIN session_actors
    BY DEF IndInv, CurrentSessionListsIt
  <2>2. connections[d] \in SessionId
    BY <2>1 DEF IndInv, StateTypeOK, IsMap
  <2>3. CASE connections[d] # s
    BY <2>1, <2>2, <2>3, <1>1 DEF get_session_members
  <2>4. CASE connections[d] = s
    BY <2>1, <2>4, <1>1 DEF get_session_members
  <2> QED
    BY <2>3, <2>4
<1>6. AbandonedSessionIsClean'
  <2>1. ASSUME NEW t \in DOMAIN sessions'
        PROVE  sessions'[t] # {}
    <3>1. t \in SessionId /\ sessions'[t] = get_session_members(t)'
      BY <1>1 DEF IsMap, get_session_members, GetOr
    <3>2. CASE t # s
      BY <3>1, <3>2, <1>1 DEF IndInv, AbandonedSessionIsClean, get_session_members, GetOr
    <3>3. CASE t = s
      BY <3>1, <3>3, <1>1
    <3> QED
      BY <3>2, <3>3
  <2>2. ASSUME NEW t \in DOMAIN session_actors', t \notin DOMAIN sessions'
        PROVE  DOMAIN session_actors'[t] = {}
    <3>1. t \in SessionId /\ get_session_members(t)' = {}
      BY <2>2, <1>1 DEF IsMap, get_session_members, GetOr
    <3> QED
      BY <3>1, <2>2, <1>4 DEF OwnerIsMember
  <2> QED
    BY <2>1, <2>2 DEF AbandonedSessionIsClean
<1> QED
  BY <1>4, <1>5, <1>6

\* Leaving a session keeps the invariant.
LEMMA LeaveKeeps ==
  ASSUME IndInv, NEW c \in Conn, NEW s \in SessionId, leave_session(c, s)
  PROVE  IndInv'
<1>1. /\ connections' = Insert(connections, c, None)
      /\ DropFromSession(c, s)
      /\ UNCHANGED client_metadata /\ UNCHANGED issued
  BY DEF leave_session
<1>2. StateTypeOK'
  <2>1. IsMap(connections', Conn, SessionId \cup {None})
    BY <1>1, InsertIsMap DEF IndInv, StateTypeOK
  <2> QED
    BY <1>1, <2>1, DropEffect DEF IndInv, StateTypeOK
<1>3. OwnerIsMember' /\ CurrentSessionListsIt' /\ AbandonedSessionIsClean'
  <2>1. \A d \in DOMAIN connections' :
          connections'[d] # None =>
            d # c /\ d \in DOMAIN connections /\ connections'[d] = connections[d]
    BY <1>1 DEF Insert
  <2> QED
    BY <1>1, <2>1, DropKeeps
<1> QED
  BY <1>2, <1>3 DEF IndInv

\* The end of a connection keeps the invariant, in a session or not.
LEMMA RemoveConnectionKeeps ==
  ASSUME IndInv, NEW c \in Conn, remove_connection(c)
  PROVE  IndInv'
<1>1. /\ connections' = RemoveKey(connections, c)
      /\ client_metadata' = RemoveKey(client_metadata, c)
      /\ UNCHANGED issued
  BY DEF remove_connection
<1>2. /\ IsMap(connections', Conn, SessionId \cup {None})
      /\ IsMap(client_metadata', Conn, Scene \cup {NoScene})
  BY <1>1, RemoveIsMap DEF IndInv, StateTypeOK
<1>3. \A d \in DOMAIN connections' :
        d # c /\ d \in DOMAIN connections /\ connections'[d] = connections[d]
  BY <1>1 DEF RemoveKey, Restrict
<1>4. CASE UNCHANGED <<sessions, session_actors>>
  <2>1. StateTypeOK'
    BY <1>1, <1>2, <1>4 DEF IndInv, StateTypeOK
  <2>2. CurrentSessionListsIt'
    BY <1>3, <1>4 DEF IndInv, CurrentSessionListsIt, get_session_members
  <2>3. OwnerIsMember' /\ AbandonedSessionIsClean'
    BY <1>4 DEF IndInv, OwnerIsMember, AbandonedSessionIsClean, get_session_members
  <2> QED
    BY <2>1, <2>2, <2>3 DEF IndInv
<1>5. ASSUME NEW s \in SessionId, DropFromSession(c, s)
      PROVE  IndInv'
  <2>1. StateTypeOK'
    BY <1>1, <1>2, <1>5, DropEffect DEF IndInv, StateTypeOK
  <2>2. OwnerIsMember' /\ CurrentSessionListsIt' /\ AbandonedSessionIsClean'
    BY <1>3, <1>5, DropKeeps
  <2> QED
    BY <2>1, <2>2 DEF IndInv
<1> QED
  BY <1>4, <1>5 DEF remove_connection

\* A client's scene is in no other table.
LEMMA UpdateStateKeeps ==
  ASSUME IndInv, NEW c \in Conn, NEW scene \in Scene, handle_update_state(c, scene)
  PROVE  IndInv'
<1>1. UNCHANGED <<connections, sessions, session_actors, issued>>
  BY DEF handle_update_state
<1>2. IsMap(client_metadata', Conn, Scene \cup {NoScene})
  BY DEF handle_update_state, IndInv, StateTypeOK, IsMap
<1> QED
  BY <1>1, <1>2 DEF IndInv, StateTypeOK, OwnerIsMember, CurrentSessionListsIt,
                    AbandonedSessionIsClean, get_session_members

\* Every critical section keeps the invariant.
LEMMA NextKeeps == IndInv /\ [StateNext]_stateVars => IndInv'
<1> SUFFICES ASSUME IndInv, [StateNext]_stateVars PROVE IndInv'
  OBVIOUS
<1>1. CASE UNCHANGED stateVars
  BY <1>1 DEF stateVars, IndInv, StateTypeOK, OwnerIsMember, CurrentSessionListsIt,
              AbandonedSessionIsClean, get_session_members
<1>2. ASSUME NEW c \in Conn, register_connection(c) PROVE IndInv'
  BY <1>2, RegisterConnectionKeeps
<1>3. ASSUME NEW c \in Conn, Section(c) PROVE IndInv'
  <2>1. CASE remove_connection(c)
    BY <2>1, RemoveConnectionKeeps
  <2>2. ASSUME NEW scene \in Scene, handle_update_state(c, scene) PROVE IndInv'
    BY <2>2, UpdateStateKeeps
  <2>3. ASSUME NEW s \in SessionId, join_session(c, s) PROVE IndInv'
    BY <2>3, JoinKeeps
  <2>4. ASSUME NEW s \in SessionId, leave_session(c, s) PROVE IndInv'
    BY <2>4, LeaveKeeps
  <2>5. ASSUME NEW s \in SessionId, NEW a \in ActorId, NEW d \in Data \cup {None},
               SetActor(c, s, a, d)
        PROVE  IndInv'
    BY <2>5, SetActorKeeps
  <2>6. ASSUME NEW s \in SessionId, NEW a \in ActorId, register_actor(c, s, a)
        PROVE  IndInv'
    BY <2>5, <2>6, ActorHandlersSetActor
  <2>7. ASSUME NEW s \in SessionId, NEW a \in ActorId, NEW d \in Data,
               update_actor(c, s, a, d) \/ create_actor(c, s, a, d)
        PROVE  IndInv'
    BY <2>5, <2>7, ActorHandlersSetActor
  <2> QED
    BY <1>3, <2>1, <2>2, <2>3, <2>4, <2>6, <2>7 DEF Section
<1> QED
  BY <1>1, <1>2, <1>3 DEF StateNext

---------------------------------------------------------------------------
(* The theorems *)

\* The invariant holds in every reachable state of the server.
THEOREM IndInvHolds == StateSpec => []IndInv
<1> QED
  BY InitIndInv, NextKeeps, PTL DEF StateSpec

\* The tables keep their types.
THEOREM TypeCorrect == StateSpec => []StateTypeOK
<1>1. IndInv => StateTypeOK
  BY DEF IndInv
<1> QED
  BY <1>1, IndInvHolds, PTL

\* The owner of an actor is always in the member list of the actor's session.
THEOREM OwnersAreMembers == StateSpec => []OwnerIsMember
<1>1. IndInv => OwnerIsMember
  BY DEF IndInv
<1> QED
  BY <1>1, IndInvHolds, PTL

\* The branches for a session without an actor table are dead code.
THEOREM SessionTableExists == StateSpec => []CurrentSessionListsIt
<1>1. IndInv => CurrentSessionListsIt
  BY DEF IndInv
<1> QED
  BY <1>1, IndInvHolds, PTL

\* A session everybody left has no actors for the next client to find.
THEOREM NothingLeftBehind == StateSpec => []AbandonedSessionIsClean
<1>1. IndInv => AbandonedSessionIsClean
  BY DEF IndInv
<1> QED
  BY <1>1, IndInvHolds, PTL

---------------------------------------------------------------------------
(* Clients that leave a session before they join another *)

DisciplinedInv ==
  /\ IndInv
  /\ MembershipAgrees
  /\ DOMAIN connections \subseteq issued

\* Before any connection, no session has a member.
LEMMA InitDisciplined == StateInit => DisciplinedInv
<1> SUFFICES ASSUME StateInit PROVE DisciplinedInv
  OBVIOUS
<1>1. IndInv
  BY InitIndInv
<1>2. MembershipAgrees /\ DOMAIN connections \subseteq issued
  BY DEF StateInit, EmptyMap, MembershipAgrees, get_session_members, GetOr, InSession
<1> QED
  BY <1>1, <1>2 DEF DisciplinedInv

\* With one client in one session at a time, every critical section changes
\* the two tables together.
LEMMA NextDisciplined ==
  ASSUME ~SwitchWithoutLeaving, DisciplinedInv, [StateNext]_stateVars
  PROVE  DisciplinedInv'
<1> USE DEF DisciplinedInv
<1>1. IndInv'
  BY NextKeeps
<1>2. CASE UNCHANGED <<connections, sessions, issued>>
  <2>1. MembershipAgrees'
    BY <1>2 DEF MembershipAgrees, get_session_members, InSession
  <2> QED
    BY <2>1, <1>1, <1>2
<1>3. ASSUME NEW c \in Conn, register_connection(c) PROVE DisciplinedInv'
  <2>1. c \notin DOMAIN connections
    BY <1>3 DEF register_connection
  <2>2. \A s \in SessionId, d \in Conn : InSession(d, s)' <=> InSession(d, s)
    BY <1>3, <2>1, NoneAssumption DEF register_connection, InSession, Insert
  <2>3. MembershipAgrees'
    BY <1>3, <2>2 DEF register_connection, MembershipAgrees, get_session_members
  <2>4. DOMAIN connections' \subseteq issued'
    BY <1>3 DEF register_connection, Insert
  <2> QED
    BY <2>3, <2>4, <1>1
<1>4. ASSUME NEW c \in Conn, NEW s \in SessionId, c \in DOMAIN connections,
             MayJoin(c, s), join_session(c, s)
      PROVE  DisciplinedInv'
  <2>1. /\ sessions' = Insert(sessions, s, get_session_members(s) \cup {c})
        /\ connections' = Insert(connections, c, s)
        /\ UNCHANGED issued
    BY <1>4 DEF join_session
  <2>2. \A t \in SessionId, d \in Conn :
          InSession(d, t)' <=> InSession(d, t) \/ (d = c /\ t = s)
    BY <1>4, <2>1, NoneAssumption DEF MayJoin, InSession, Insert
  <2>3. \A t \in SessionId : get_session_members(t)' =
          IF t = s THEN get_session_members(s) \cup {c} ELSE get_session_members(t)
    BY <2>1 DEF get_session_members, GetOr, Insert
  <2>4. MembershipAgrees'
    BY <2>2, <2>3 DEF MembershipAgrees
  <2>5. DOMAIN connections' \subseteq issued'
    BY <1>4, <2>1 DEF Insert
  <2> QED
    BY <2>4, <2>5, <1>1
<1>5. ASSUME NEW c \in Conn, NEW s \in SessionId, InSession(c, s), DropFromSession(c, s),
             DOMAIN connections' \subseteq DOMAIN connections, UNCHANGED issued,
             \A t \in SessionId, d \in Conn : InSession(d, t)' <=> InSession(d, t) /\ d # c
      PROVE  DisciplinedInv'
  <2>1. \A t \in SessionId : get_session_members(t)' =
          IF t = s THEN get_session_members(s) \ {c} ELSE get_session_members(t)
    BY <1>5, DropEffect DEF IndInv
  <2>2. \A t \in SessionId : t # s => ~InSession(c, t)
    BY <1>5 DEF InSession
  <2>3. MembershipAgrees'
    BY <1>5, <2>1, <2>2 DEF MembershipAgrees
  <2> QED
    BY <1>5, <2>3, <1>1
<1>6. ASSUME NEW c \in Conn, NEW s \in SessionId, leave_session(c, s)
      PROVE  DisciplinedInv'
  <2>1. \A t \in SessionId, d \in Conn : InSession(d, t)' <=> InSession(d, t) /\ d # c
    BY <1>6, NoneAssumption DEF leave_session, InSession, Insert
  <2>2. DOMAIN connections' \subseteq DOMAIN connections
    BY <1>6 DEF leave_session, InSession, Insert
  <2> QED
    BY <2>1, <2>2, <1>5, <1>6 DEF leave_session
<1>7. ASSUME NEW c \in Conn, remove_connection(c) PROVE DisciplinedInv'
  <2>1. \A t \in SessionId, d \in Conn : InSession(d, t)' <=> InSession(d, t) /\ d # c
    BY <1>7 DEF remove_connection, InSession, RemoveKey, Restrict
  <2>2. DOMAIN connections' \subseteq DOMAIN connections /\ UNCHANGED issued
    BY <1>7 DEF remove_connection, RemoveKey, Restrict
  <2>3. ASSUME \A s \in SessionId : ~InSession(c, s), UNCHANGED sessions
        PROVE  MembershipAgrees'
    BY <2>1, <2>3 DEF MembershipAgrees, get_session_members
  <2>4. CASE \A s \in SessionId : ~InSession(c, s)
    BY <2>2, <2>3, <2>4, <1>1, <1>7 DEF remove_connection
  <2>5. ASSUME NEW s \in SessionId, InSession(c, s), DropFromSession(c, s)
        PROVE  DisciplinedInv'
    BY <2>1, <2>2, <2>5, <1>5
  <2> QED
    BY <2>4, <2>5, <1>7 DEF remove_connection
<1>8. ASSUME NEW c \in Conn, Section(c) PROVE DisciplinedInv'
  <2>1. c \in DOMAIN connections
    BY <1>8 DEF Section
  <2>2. ASSUME NEW scene \in Scene, handle_update_state(c, scene) PROVE DisciplinedInv'
    BY <2>2, <1>2 DEF handle_update_state
  <2>3. ASSUME NEW s \in SessionId, NEW a \in ActorId, NEW d \in Data \cup {None},
               SetActor(c, s, a, d)
        PROVE  DisciplinedInv'
    BY <2>3, <1>2 DEF SetActor
  <2>4. ASSUME NEW s \in SessionId, NEW a \in ActorId, register_actor(c, s, a)
        PROVE  DisciplinedInv'
    BY <2>3, <2>4, ActorHandlersSetActor
  <2>5. ASSUME NEW s \in SessionId, NEW a \in ActorId, NEW d \in Data,
               update_actor(c, s, a, d) \/ create_actor(c, s, a, d)
        PROVE  DisciplinedInv'
    BY <2>3, <2>5, ActorHandlersSetActor
  <2> QED
    BY <1>4, <1>6, <1>7, <1>8, <2>1, <2>2, <2>4, <2>5 DEF Section
<1>9. CASE UNCHANGED stateVars
  BY <1>2, <1>9 DEF stateVars
<1> QED
  BY <1>3, <1>8, <1>9 DEF StateNext

\* When clients leave before they join elsewhere, the two tables the server
\* keeps of who is where never disagree.
THEOREM DisciplinedMembership ==
  ~SwitchWithoutLeaving /\ StateSpec => []MembershipAgrees
<1> SUFFICES ASSUME ~SwitchWithoutLeaving PROVE StateSpec => []MembershipAgrees
  OBVIOUS
<1>1. DisciplinedInv /\ [StateNext]_stateVars => DisciplinedInv'
  BY NextDisciplined
<1>2. DisciplinedInv => MembershipAgrees
  BY DEF DisciplinedInv
<1> QED
  BY <1>1, <1>2, InitDisciplined, PTL DEF StateSpec

\* And then no actor outlives the connection that owns it.
THEOREM DisciplinedOwners ==
  ~SwitchWithoutLeaving /\ StateSpec => []OwnersAreConnected
<1> SUFFICES ASSUME ~SwitchWithoutLeaving PROVE StateSpec => []OwnersAreConnected
  OBVIOUS
<1>1. DisciplinedInv /\ [StateNext]_stateVars => DisciplinedInv'
  BY NextDisciplined
<1>2. DisciplinedInv => OwnersAreConnected
  BY DEF DisciplinedInv, IndInv, StateTypeOK, IsMap, OwnerIsMember, MembershipAgrees,
         InSession, OwnersAreConnected
<1> QED
  BY <1>1, <1>2, InitDisciplined, PTL DEF StateSpec
=============================================================================
