-------------------------- MODULE OwnershipProofs --------------------------
(***************************************************************************)
(* The server implements ActorOwnership, for any sets of connections,      *)
(* sessions, actors and data: each critical section is mapped to the step  *)
(* of the abstract specification it takes.                                 *)
(***************************************************************************)
EXTENDS ServerStateProofs

\* Whether the table of session s is unchanged, actor by actor.
SameActors(s) ==
  \A a \in ActorId :
    /\ HasActor(s, a)' <=> HasActor(s, a)
    /\ HasActor(s, a) => session_actors'[s][a] = session_actors[s][a]

\* A session whose actors are the same holds the same things.
LEMMA SameActorsMap ==
  ASSUME NEW s \in SessionId, SameActors(s)
  PROVE  Holder'[s] = Holder[s] /\ Content'[s] = Content[s]
  BY DEF SameActors, Holder, Content, HasActor

\* When every session's actors are the same, nothing the abstraction sees of
\* the actors changes.
LEMMA AllActorsSame ==
  ASSUME \A s \in SessionId : SameActors(s)
  PROVE  Holder' = Holder /\ Content' = Content
<1>1. \A s \in SessionId : Holder'[s] = Holder[s] /\ Content'[s] = Content[s]
  BY SameActorsMap
<1> QED
  BY <1>1 DEF Holder, Content

\* Nothing the abstraction sees changes when the two session tables do not.
LEMMA UnchangedTables ==
  ASSUME UNCHANGED <<sessions, session_actors>>
  PROVE  Present' = Present /\ Holder' = Holder /\ Content' = Content
  BY DEF Present, Holder, Content, HasActor, get_session_members

\* Joining is entering.
LEMMA JoinEnters ==
  ASSUME IndInv, NEW c \in Conn, NEW s \in SessionId, join_session(c, s)
  PROVE  /\ Present' = [Present EXCEPT ![s] = @ \cup {c}]
         /\ Holder' = Holder /\ Content' = Content
<1>1. \A t \in SessionId : get_session_members(t)' =
        IF t = s THEN get_session_members(s) \cup {c} ELSE get_session_members(t)
  BY DEF join_session, get_session_members, GetOr, Insert
<1>2. Present' = [Present EXCEPT ![s] = @ \cup {c}]
  BY <1>1 DEF Present
<1>3. \A t \in SessionId : SameActors(t)
  BY DEF join_session, get_session_actors, GetOr, Insert, EmptyMap, SameActors, HasActor
<1> QED
  BY <1>2, <1>3, AllActorsSame

\* Setting an actor for a connection makes it the holder, with that content.
LEMMA SetActorSets ==
  ASSUME IndInv, NEW c \in Conn, NEW s \in SessionId, NEW a \in ActorId,
         NEW d \in Data \cup {None}, SetActor(c, s, a, d)
  PROVE  /\ Present' = Present
         /\ Holder' = [Holder EXCEPT ![s][a] = c]
         /\ Content' = [Content EXCEPT ![s][a] = d]
         /\ c \in Present[s]
<1>1. /\ DOMAIN session_actors' = DOMAIN session_actors
      /\ session_actors'[s] = Insert(session_actors[s], a, NewActor(c, d))
      /\ \A t \in DOMAIN session_actors : t # s => session_actors'[t] = session_actors[t]
  BY SetActorEffect DEF IndInv
<1>2. s \in DOMAIN session_actors /\ UNCHANGED sessions
  BY DEF SetActor
<1>3. \A t \in SessionId : t # s => SameActors(t)
  BY <1>1 DEF SameActors, HasActor
<1>4. \A t \in SessionId : t # s => Holder'[t] = Holder[t] /\ Content'[t] = Content[t]
  BY <1>3, SameActorsMap
<1>5. /\ HasActor(s, a)'
      /\ session_actors'[s][a].owner_id = c
      /\ session_actors'[s][a].data = d
  BY <1>1, <1>2, NewActorFields DEF HasActor, Insert
<1>6. \A b \in ActorId : b # a =>
        /\ HasActor(s, b)' <=> HasActor(s, b)
        /\ HasActor(s, b) => session_actors'[s][b] = session_actors[s][b]
  BY <1>1, <1>2 DEF HasActor, Insert
<1>7. Holder'[s] = [Holder[s] EXCEPT ![a] = c]
  BY <1>5, <1>6 DEF Holder
<1>8. Content'[s] = [Content[s] EXCEPT ![a] = d]
  BY <1>5, <1>6 DEF Content
<1>9. c \in get_session_members(s)
  BY NoneAssumption DEF SetActor, InSession, IndInv, CurrentSessionListsIt
<1>10. Present' = Present
  BY <1>2 DEF Present, get_session_members
<1>11. Holder' = [Holder EXCEPT ![s][a] = c]
  BY <1>4, <1>7 DEF Holder
<1>12. Content' = [Content EXCEPT ![s][a] = d]
  BY <1>4, <1>8 DEF Content
<1> QED
  BY <1>9, <1>10, <1>11, <1>12 DEF Present

\* Dropping a member frees all it holds.
LEMMA DropFrees ==
  ASSUME IndInv, NEW c \in Conn, NEW s \in SessionId, DropFromSession(c, s)
  PROVE  /\ Present' = [Present EXCEPT ![s] = @ \ {c}]
         /\ Holder' = [Holder EXCEPT ![s] =
              [a \in ActorId |-> IF @[a] = c THEN None ELSE @[a]]]
         /\ Content' = [Content EXCEPT ![s] =
              [a \in ActorId |-> IF Holder[s][a] = c THEN None ELSE @[a]]]
<1>1. /\ \A t \in SessionId : t # s =>
           /\ get_session_members(t)' = get_session_members(t)
           /\ get_session_actors(t)' = get_session_actors(t)
      /\ get_session_members(s)' = get_session_members(s) \ {c}
      /\ DOMAIN session_actors' = DOMAIN session_actors
      /\ s \in DOMAIN session_actors =>
           session_actors'[s] = RetainOthers(session_actors[s], c)
  BY DropEffect DEF IndInv
<1>2. Present' = [Present EXCEPT ![s] = @ \ {c}]
  BY <1>1 DEF Present
<1>3. \A t \in SessionId : t # s => SameActors(t)
  BY <1>1 DEF SameActors, HasActor, get_session_actors, GetOr
<1>4. \A t \in SessionId : t # s => Holder'[t] = Holder[t] /\ Content'[t] = Content[t]
  BY <1>3, SameActorsMap
<1>5. \A a \in ActorId :
        /\ HasActor(s, a)' <=> HasActor(s, a) /\ session_actors[s][a].owner_id # c
        /\ HasActor(s, a)' => session_actors'[s][a] = session_actors[s][a]
  BY <1>1 DEF HasActor, RetainOthers, Restrict
<1>6. \A a \in ActorId : Holder[s][a] = c <=>
        HasActor(s, a) /\ session_actors[s][a].owner_id = c
  BY NoneAssumption DEF Holder
<1>7. Holder'[s] = [a \in ActorId |-> IF Holder[s][a] = c THEN None ELSE Holder[s][a]]
  BY <1>5, <1>6 DEF Holder
<1>8. Content'[s] = [a \in ActorId |-> IF Holder[s][a] = c THEN None ELSE Content[s][a]]
  BY <1>5, <1>6 DEF Content
<1>9. Holder' = [Holder EXCEPT ![s] =
        [a \in ActorId |-> IF Holder[s][a] = c THEN None ELSE Holder[s][a]]]
  BY <1>4, <1>7 DEF Holder
<1>10. Content' = [Content EXCEPT ![s] =
        [a \in ActorId |-> IF Holder[s][a] = c THEN None ELSE Content[s][a]]]
  BY <1>4, <1>8 DEF Content
<1> QED
  BY <1>2, <1>9, <1>10

---------------------------------------------------------------------------
(* The refinement *)

\* A server with no session is an abstract system where nobody is present.
LEMMA InitMaps == StateInit => Ownership!Init
  BY DEF StateInit, EmptyMap, Ownership!Init, HasActor, get_session_members, GetOr,
         Present, Holder, Content

\* Every step of the server is an abstract step or changes nothing abstract.
LEMMA StepMaps ==
  ASSUME IndInv, [StateNext]_stateVars
  PROVE  [Ownership!Next]_(Ownership!ownershipVars)
<1> DEFINE Goal == [Ownership!Next]_(Ownership!ownershipVars)
<1>1. ASSUME Present' = Present, Holder' = Holder, Content' = Content PROVE Goal
  BY <1>1 DEF Ownership!ownershipVars
<1>2. CASE UNCHANGED <<sessions, session_actors>>
  BY <1>2, <1>1, UnchangedTables
<1>3. ASSUME NEW c \in Conn, NEW s \in SessionId, join_session(c, s) PROVE Goal
  <2>1. Ownership!Enter(c, s)
    BY <1>3, JoinEnters DEF Ownership!Enter
  <2> QED
    BY <2>1 DEF Ownership!Next
<1>4. ASSUME NEW c \in Conn, NEW s \in SessionId, InSession(c, s), DropFromSession(c, s)
      PROVE  Goal
  <2>1. c \in Present[s]
    BY <1>4, NoneAssumption DEF InSession, IndInv, CurrentSessionListsIt, Present
  <2>2. Ownership!Leave(c, s)
    BY <1>4, <2>1, DropFrees DEF Ownership!Leave
  <2> QED
    BY <2>2 DEF Ownership!Next
<1>5. ASSUME NEW c \in Conn, NEW s \in SessionId, NEW a \in ActorId,
             NEW d \in Data \cup {None}, ~HasActor(s, a), SetActor(c, s, a, d)
      PROVE  Goal
  <2>1. Ownership!Free(s, a)
    BY <1>5 DEF Ownership!Free, Holder
  <2>2. Ownership!Claim(c, s, a, d)
    BY <1>5, <2>1, SetActorSets DEF Ownership!Claim
  <2> QED
    BY <2>2 DEF Ownership!Next
<1>6. ASSUME NEW c \in Conn, NEW s \in SessionId, NEW a \in ActorId, NEW d \in Data,
             HasActor(s, a), session_actors[s][a].owner_id = c, SetActor(c, s, a, d)
      PROVE  Goal
  <2>1. Holder[s][a] = c
    BY <1>6 DEF Holder
  <2>2. Holder' = [Holder EXCEPT ![s][a] = Holder[s][a]]
    BY <1>6, <2>1, SetActorSets
  <2>3. Holder' = Holder
    BY <2>2 DEF Holder
  <2>4. Ownership!Write(c, s, a, d)
    BY <1>6, <2>1, <2>3, SetActorSets DEF Ownership!Write
  <2> QED
    BY <2>4 DEF Ownership!Next
<1>7. ASSUME NEW c \in Conn, Section(c) PROVE Goal
  <2>1. CASE remove_connection(c)
    BY <2>1, <1>2, <1>4 DEF remove_connection
  <2>2. ASSUME NEW scene \in Scene, handle_update_state(c, scene) PROVE Goal
    BY <2>2, <1>2 DEF handle_update_state
  <2>3. ASSUME NEW s \in SessionId, leave_session(c, s) PROVE Goal
    BY <2>3, <1>4 DEF leave_session
  <2>4. ASSUME NEW s \in SessionId, NEW a \in ActorId, register_actor(c, s, a) PROVE Goal
    BY <2>4, <1>5, ActorHandlersSetActor DEF register_actor, HasActor
  <2>5. ASSUME NEW s \in SessionId, NEW a \in ActorId, NEW d \in Data, update_actor(c, s, a, d)
        PROVE  Goal
    BY <2>5, <1>6, ActorHandlersSetActor DEF update_actor, HasActor
  <2>6. ASSUME NEW s \in SessionId, NEW a \in ActorId, NEW d \in Data, create_actor(c, s, a, d)
        PROVE  Goal
    BY <2>6, <1>5, ActorHandlersSetActor DEF create_actor, HasActor
  <2> QED
    BY <1>7, <1>3, <2>1, <2>2, <2>3, <2>4, <2>5, <2>6 DEF Section
<1>8. ASSUME NEW c \in Conn, register_connection(c) PROVE Goal
  BY <1>8, <1>2 DEF register_connection
<1>9. CASE UNCHANGED stateVars
  BY <1>9, <1>2 DEF stateVars
<1> QED
  BY <1>7, <1>8, <1>9 DEF StateNext

\* Whatever its clients send, the server gives every actor of a session to at
\* most one present client at a time, and only that client changes it.
THEOREM ServerImplementsOwnership == StateSpec => ImplementsOwnership
<1>1. IndInv /\ [StateNext]_stateVars => [Ownership!Next]_(Ownership!ownershipVars)
  BY StepMaps
<1> QED
  BY <1>1, InitMaps, IndInvHolds, PTL
     DEF StateSpec, ImplementsOwnership, Ownership!OwnershipSpec

---------------------------------------------------------------------------
(* What a step may do to one actor *)

\* A step of the server keeps an actor's owner, or takes actor and owner away
\* from the session together.
LEMMA StepKeepsOwner ==
  ASSUME IndInv, [StateNext]_stateVars, NEW s \in SessionId, NEW a \in ActorId,
         HasActor(s, a)
  PROVE  \/ HasActor(s, a)' /\ session_actors'[s][a].owner_id = session_actors[s][a].owner_id
         \/ ~HasActor(s, a)' /\ session_actors[s][a].owner_id \notin get_session_members(s)'
<1> DEFINE owner == session_actors[s][a].owner_id
           Goal  == \/ HasActor(s, a)' /\ session_actors'[s][a].owner_id = owner
                    \/ ~HasActor(s, a)' /\ owner \notin get_session_members(s)'
<1>1. CASE UNCHANGED session_actors
  BY <1>1 DEF HasActor
<1>2. ASSUME NEW c \in Conn, NEW t \in SessionId, join_session(c, t) PROVE Goal
  BY <1>2 DEF join_session, HasActor, get_session_actors, GetOr, Insert
<1>3. ASSUME NEW c \in Conn, NEW t \in SessionId, DropFromSession(c, t) PROVE Goal
  <2>1. CASE t = s
    <3>1. /\ get_session_members(s)' = get_session_members(s) \ {c}
          /\ DOMAIN session_actors' = DOMAIN session_actors
          /\ session_actors'[s] = RetainOthers(session_actors[s], c)
      BY <1>3, <2>1, DropEffect DEF IndInv, HasActor
    <3> QED
      BY <3>1 DEF HasActor, RetainOthers, Restrict
  <2>2. CASE t # s
    <3>1. get_session_actors(s)' = get_session_actors(s)
      BY <1>3, <2>2, DropEffect DEF IndInv
    <3>2. DOMAIN session_actors' = DOMAIN session_actors
      BY <1>3, DropEffect DEF IndInv
    <3> QED
      BY <3>1, <3>2 DEF HasActor, get_session_actors, GetOr
  <2> QED
    BY <2>1, <2>2
<1>4. ASSUME NEW c \in Conn, NEW t \in SessionId, NEW b \in ActorId,
             NEW d \in Data \cup {None}, SetActor(c, t, b, d),
             b \in DOMAIN session_actors[t] => session_actors[t][b].owner_id = c
      PROVE  Goal
  <2>1. /\ DOMAIN session_actors' = DOMAIN session_actors
        /\ session_actors'[t] = Insert(session_actors[t], b, NewActor(c, d))
        /\ t # s => session_actors'[s] = session_actors[s]
    BY <1>4, SetActorEffect DEF IndInv, HasActor
  <2> QED
    BY <1>4, <2>1, NewActorFields DEF HasActor, Insert
<1>5. ASSUME NEW c \in Conn, Section(c) PROVE Goal
  <2>1. CASE remove_connection(c)
    BY <2>1, <1>1, <1>3 DEF remove_connection
  <2>2. ASSUME NEW scene \in Scene, handle_update_state(c, scene) PROVE Goal
    BY <2>2, <1>1 DEF handle_update_state
  <2>3. ASSUME NEW t \in SessionId, leave_session(c, t) PROVE Goal
    BY <2>3, <1>3 DEF leave_session
  <2>4. ASSUME NEW t \in SessionId, NEW b \in ActorId, register_actor(c, t, b) PROVE Goal
    BY <2>4, <1>4, ActorHandlersSetActor DEF register_actor
  <2>5. ASSUME NEW t \in SessionId, NEW b \in ActorId, NEW d \in Data,
               update_actor(c, t, b, d) \/ create_actor(c, t, b, d)
        PROVE  Goal
    BY <2>5, <1>4, ActorHandlersSetActor DEF update_actor, create_actor
  <2> QED
    BY <1>5, <1>2, <2>1, <2>2, <2>3, <2>4, <2>5 DEF Section
<1>6. ASSUME NEW c \in Conn, register_connection(c) PROVE Goal
  BY <1>6, <1>1 DEF register_connection
<1>7. CASE UNCHANGED stateVars
  BY <1>7, <1>1 DEF stateVars
<1> QED
  BY <1>5, <1>6, <1>7 DEF StateNext

\* An actor keeps its owner until the owner leaves the session.
THEOREM OwnersKeepTheirActors == StateSpec => OwnershipLasts
<1> DEFINE Kept ==
      \A s \in SessionId, a \in ActorId :
        HasActor(s, a) =>
          LET owner == session_actors[s][a].owner_id IN
            \/ HasActor(s, a)' /\ session_actors'[s][a].owner_id = owner
            \/ ~HasActor(s, a)' /\ owner \notin get_session_members(s)'
<1>1. IndInv /\ [StateNext]_stateVars => Kept
  BY StepKeepsOwner
<1>2. IndInv /\ [StateNext]_stateVars => [Kept]_stateVars
  BY <1>1
<1> QED
  BY <1>2, IndInvHolds, PTL DEF StateSpec, OwnershipLasts
=============================================================================
