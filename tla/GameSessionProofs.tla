-------------------------- MODULE GameSessionProofs --------------------------
(***************************************************************************)
(* Games with the test mod, for any connections, sessions, addresses and   *)
(* bounds.  Why no actor has two puppets, and no player one of its own:    *)
(* every table of actors, wherever it is, has the player of each game      *)
(* under that player's id and nothing else.                                *)
(***************************************************************************)
EXTENDS GameSession, HashMapLemmas, SequenceTheorems

\* The theorems about the server
State == INSTANCE OwnershipProofs WITH SwitchWithoutLeaving <- FALSE

\* A table in which an actor has the id its owner generated, and a pose of the
\* player there
HonestMap ==
  {m \in Server!ActorMap : \A a \in DOMAIN m :
     a = uuid[m[a].owner_id] /\ m[a].data \in OwnPoses(m[a].owner_id) \cup {None}}

\* What the game of c sends: it speaks of its player, and joins.
Speaks(c) ==
  {RegisterRequest(uuid[c])} \cup {UpdateRequest(uuid[c], d) : d \in OwnPoses(c)}

SentBy(c) == {JoinRequest(s) : s \in SessionId} \cup Speaks(c)

\* A runtime that is connected knows its id, and sees others only.
RuntimeInv ==
  /\ connected \in [Conn -> BOOLEAN]
  /\ client_id \in [Conn -> Conn \cup {None}]
  /\ remote_actors \in [Conn -> HonestMap]
  /\ \A c \in Conn :
       /\ connected[c] => client_id[c] = c
       /\ \A a \in DOMAIN remote_actors[c] : remote_actors[c][a].owner_id # c

\* What is under way to the server; nothing before the game has connected.
UpInv ==
  /\ has_connected \in [Conn -> BOOLEAN]
  /\ link \in [Conn -> {"none", "accepted", "welcomed", "closing", "notified", "done"}]
  /\ DOMAIN up = Conn
  /\ \A c \in Conn :
       /\ up[c] \in Seq(SentBy(c)) /\ Len(up[c]) <= MaxUp[c] + 1
       /\ ~has_connected[c] => up[c] = <<>> /\ ~connected[c] /\ ~Connected(c)

\* The poses an actor of the game of c may take: those of the player it stands
\* for
Fits(c, actor, pose) ==
  /\ actor.is_owned_locally => pose \in OwnPoses(c)
  /\ actor.kind = "remote" =>
       \A d \in Conn : actor.actor_id = uuid[d] => pose \in OwnPoses(d) \cup {None}

\* What is owned here has the player's id, a puppet has another's, and no two
\* puppets have the same.
ListInv(c, list) ==
  /\ IsMap(list, Pointer, GameActor)
  /\ \A p \in DOMAIN list :
       /\ Fits(c, list[p], list[p].pose)
       /\ list[p].is_owned_locally => list[p].actor_id = uuid[c]
       /\ list[p].kind = "remote" =>
            ~list[p].is_owned_locally /\ list[p].actor_id \in ActorId \ {EmptyId, uuid[c]}
  /\ \A p, q \in DOMAIN list :
       /\ list[p].kind = "remote" /\ list[q].kind = "remote"
       /\ list[p].actor_id = list[q].actor_id
       => p = q

ActorsInv == DOMAIN actors = Conn /\ \A c \in Conn : ListInv(c, actors[c])

\* The frame visits actors of its list that are not owned here, between two of
\* its parts.
FrameInv ==
  /\ DOMAIN visiting = Conn /\ DOMAIN where = Conn /\ DOMAIN todo = Conn
  /\ \A c \in Conn :
       /\ \A p \in visiting[c] : p \in DOMAIN actors[c] /\ ~actors[c][p].is_owned_locally
       /\ visiting[c] # {} => where[c] = "frame" /\ "remote" \notin todo[c]

PlayerIdInv ==
  /\ DOMAIN local_player_id = Conn
  /\ \A c \in Conn : local_player_id[c] \in {None, uuid[c]}

\* The server's tables are honest, and so is every snapshot under way.
SessionInv ==
  /\ State!IndInv
  /\ \A s \in DOMAIN session_actors : session_actors[s] \in HonestMap
  /\ snapshots \in [Conn -> SUBSET HonestMap]

\* The connection of a game is registered while it is up and until it has been
\* cleaned up.  A game that connected is connected, and asks to join first of
\* all, when it is in no session.
Asks(c) ==
  /\ has_connected[c] => Connected(c)
  /\ c \in DOMAIN connections <=> link[c] \in {"accepted", "welcomed", "closing", "notified"}
  /\ \A i \in DOMAIN up[c] :
       up[c][i].kind = "join" => i = 1 /\ Server!InSession(c, None)

AskInv == \A c \in Conn : Asks(c)

GameInv ==
  RuntimeInv /\ UpInv /\ ActorsInv /\ FrameInv /\ PlayerIdInv /\ SessionInv /\ AskInv

---------------------------------------------------------------------------
(* Tables of actors *)

LEMMA PosesAreData ==
  ASSUME NEW c \in Conn
  PROVE  OwnPoses(c) \subseteq Data /\ StartPose[c] \in OwnPoses(c) /\ Poses[c] \subseteq OwnPoses(c)
  BY TestModAssumption DEF OwnPoses

\* The actors of the server are those of its theorems.
LEMMA SameActors ==
  /\ Server!ActorMap = State!ActorMap /\ Server!Actor = State!Actor
  /\ \A c, d : Server!NewActor(c, d) = State!NewActor(c, d)
  BY DEF Server!ActorMap, State!ActorMap, Server!Actor, State!Actor, Server!NewActor,
     State!NewActor

\* What is in an honest table
LEMMA HonestActors ==
  ASSUME NEW m \in HonestMap
  PROVE  /\ m = [a \in DOMAIN m |-> m[a]] /\ DOMAIN m \subseteq ActorId
         /\ \A a \in DOMAIN m : /\ m[a] \in Server!Actor
                                /\ m[a].owner_id \in Conn /\ m[a].data \in Data \cup {None}
                                /\ a = uuid[m[a].owner_id]
                                /\ m[a].data \in OwnPoses(m[a].owner_id) \cup {None}
<1>1. PICK D \in SUBSET ActorId : m \in [D -> Server!Actor]
  BY DEF HonestMap, Server!ActorMap
<1>2. \A a \in DOMAIN m : /\ m[a] \in Server!Actor /\ a = uuid[m[a].owner_id]
                           /\ m[a].data \in OwnPoses(m[a].owner_id) \cup {None}
  BY <1>1 DEF HonestMap
<1>3. \A x \in Server!Actor : x.owner_id \in Conn /\ x.data \in Data \cup {None}
  BY DEF Server!Actor
<1> QED
  BY <1>1, <1>2, <1>3

\* A part of an honest table is honest.
LEMMA HonestPart ==
  ASSUME NEW m \in HonestMap, NEW D \in SUBSET DOMAIN m
  PROVE  [a \in D |-> m[a]] \in HonestMap
<1>1. [a \in D |-> m[a]] \in [D -> Server!Actor] /\ D \in SUBSET ActorId
  BY HonestActors
<1>2. [a \in D |-> m[a]] \in Server!ActorMap
  BY <1>1 DEF Server!ActorMap
<1>3. \A a \in D : a = uuid[m[a].owner_id] /\ m[a].data \in OwnPoses(m[a].owner_id) \cup {None}
  BY HonestActors
<1> QED
  BY <1>2, <1>3 DEF HonestMap

\* The empty table is honest.
LEMMA HonestEmpty ==
  /\ EmptyMap \in HonestMap
  /\ Server!EmptyMap = EmptyMap /\ State!EmptyMap = EmptyMap
<1>1. EmptyMap \in [{} -> Server!Actor] /\ DOMAIN EmptyMap = {}
  BY DEF EmptyMap
<1>2. EmptyMap \in Server!ActorMap
  BY <1>1 DEF Server!ActorMap
<1>3. Server!EmptyMap = EmptyMap /\ State!EmptyMap = EmptyMap
  BY DEF EmptyMap, Server!EmptyMap, State!EmptyMap
<1> QED
  BY <1>1, <1>2, <1>3 DEF HonestMap

\* So is one with the player of a game entered under its id.
LEMMA HonestInsert ==
  ASSUME NEW m \in HonestMap, NEW c \in Conn, NEW d \in OwnPoses(c) \cup {None}
  PROVE  State!Insert(m, uuid[c], State!NewActor(c, d)) \in HonestMap
<1> DEFINE new == State!NewActor(c, d)
           E == DOMAIN m \cup {uuid[c]}
<1>1. new \in Server!Actor /\ new.owner_id = c /\ new.data = d
  BY PosesAreData DEF State!NewActor, Server!Actor
<1>2. E \in SUBSET ActorId
  BY HonestActors, UuidAssumption
<1>3. State!Insert(m, uuid[c], new) = [a \in E |-> IF a = uuid[c] THEN new ELSE m[a]]
  BY DEF State!Insert
<1> HIDE DEF new
<1>4. [a \in E |-> IF a = uuid[c] THEN new ELSE m[a]] \in [E -> Server!Actor]
  BY <1>1, HonestActors
<1>5. State!Insert(m, uuid[c], new) \in Server!ActorMap
  BY <1>2, <1>3, <1>4 DEF Server!ActorMap
<1>6. \A a \in E : LET actor == IF a = uuid[c] THEN new ELSE m[a]
                   IN a = uuid[actor.owner_id] /\ actor.data \in OwnPoses(actor.owner_id) \cup {None}
  BY <1>1, HonestActors
<1> QED
  BY <1>3, <1>5, <1>6 DEF HonestMap, new

---------------------------------------------------------------------------
(* The runtime *)

\* Steps of the game and of the server leave the runtime's view alone.
RuntimeSame == UNCHANGED <<connected, client_id, remote_actors>>

\* Registering and updating actors does.
LEMMA CallsKeepView ==
  ASSUME NEW c \in Conn
  PROVE  /\ \A a : register_actor(c, a) \/ NetworkSyncRegisterActor(c, a) => RuntimeSame
         /\ \A a, d : send_actor_update(c, a, d) => RuntimeSame
         /\ \A p : ActorSyncUpdate(c, p) => RuntimeSame
         /\ \A s : join_session(c, s) => RuntimeSame
  BY DEF register_actor, NetworkSyncRegisterActor, send_actor_update, ActorSyncUpdate,
     join_session, RuntimeSame

\* Only the welcome, a snapshot and the end of the game change it.
LEMMA ViewChanges ==
  ASSUME NEW c \in Conn,
         \/ Load(c) \/ PlayerInit(c) \/ PlayFrame(c) \/ PlayerActs(c)
         \/ Dispatch(c) \/ NotifyDisconnect(c) \/ Cleanup(c)
  PROVE  RuntimeSame
<1>1. CASE Load(c)
  BY <1>1, CallsKeepView DEF Load, AlreadyConnected, ConnectFails, ConnectAndJoin, runtimeVars,
     RuntimeSame
<1>2. CASE PlayerInit(c)
  <2>1. ASSUME NEW p, OnPlayerInit(c, p) PROVE RuntimeSame
    BY <2>1, CallsKeepView DEF OnPlayerInit, SpawnRegistered
  <2>2. ASSUME NEW p, DemoPlayerInit(c, p) PROVE RuntimeSame
    BY <2>2 DEF DemoPlayerInit, runtimeVars, RuntimeSame
  <2> QED
    BY <1>2, <2>1, <2>2 DEF PlayerInit
<1>3. CASE PlayFrame(c)
  <2>1. CASE ActorsUpdate(c)
    BY <2>1, CallsKeepView DEF ActorsUpdate, runtimeVars, RuntimeSame
  <2>2. CASE on_play_main(c) \/ ProcessRemoteIds(c) \/ ProcessRemoteData(c)
    BY <2>2 DEF on_play_main, ProcessRemoteIds, ProcessRemoteData, Does, runtimeVars, RuntimeSame
  <2> QED
    BY <1>3, <2>1, <2>2 DEF PlayFrame, Frame
<1>4. CASE PlayerActs(c)
  BY <1>4 DEF PlayerActs, OnFileSelect_LoadGame, LeaveScene, Move, runtimeVars, RuntimeSame
<1>5. CASE Dispatch(c)
  BY <1>5 DEF Dispatch, RuntimeSame
<1>6. CASE NotifyDisconnect(c) \/ Cleanup(c)
  BY <1>6 DEF NotifyDisconnect, Cleanup, gameVars, runtimeVars, RuntimeSame
<1> QED
  BY <1>1, <1>2, <1>3, <1>4, <1>5, <1>6

\* The runtime takes from an honest snapshot what is not its own.
LEMMA RuntimeStep ==
  ASSUME RuntimeInv, SessionInv, [GameNext]_allVars
  PROVE  RuntimeInv'
<1>1. CASE RuntimeSame
  BY <1>1 DEF RuntimeInv, RuntimeSame
<1>2. ASSUME NEW c \in Conn, Welcome(c) PROVE RuntimeInv'
  BY <1>2 DEF Welcome, process_welcome, RuntimeInv
<1>3. ASSUME NEW c \in Conn, Quit(c) PROVE RuntimeInv'
  <2>1. /\ connected' = [connected EXCEPT ![c] = FALSE]
        /\ remote_actors' = [remote_actors EXCEPT ![c] = EmptyMap]
        /\ client_id' = client_id
    BY <1>3 DEF Quit
  <2>2. DOMAIN EmptyMap = {}
    BY DEF EmptyMap
  <2> QED
    BY <2>1, <2>2, HonestEmpty DEF RuntimeInv
<1>4. ASSUME NEW c \in Conn, Receive(c) PROVE RuntimeInv'
  <2>1. PICK x \in snapshots[c] : process_sync(c, x)
    BY <1>4 DEF Receive
  <2>2. x \in HonestMap
    BY DEF SessionInv
  <2> DEFINE others == {a \in DOMAIN x : x[a].owner_id # c}
             seen == [a \in others |-> x[a]]
  <2>3. client_id[c] = c /\ UNCHANGED <<connected, client_id>>
    BY <2>1 DEF process_sync, RuntimeInv
  <2>4. DOMAIN x \ {a \in DOMAIN x : x[a].owner_id = client_id[c]} = others
    BY <2>3
  <2>5. remote_actors' = [remote_actors EXCEPT ![c] = seen]
    BY <2>1, <2>4 DEF process_sync, Restrict
  <2>6. seen \in HonestMap /\ \A a \in DOMAIN seen : seen[a].owner_id # c
    BY <2>2, HonestPart
  <2> QED
    BY <2>3, <2>5, <2>6 DEF RuntimeInv
<1>5. CASE UNCHANGED allVars
  BY <1>1, <1>5 DEF allVars, gameVars, runtimeVars, RuntimeSame
<1> QED
  BY <1>1, <1>2, <1>3, <1>4, <1>5, ViewChanges DEF GameNext

---------------------------------------------------------------------------
(* The server *)

\* The critical sections of the server are those of its theorems.
LEMMA SameServer ==
  /\ \A c : Server!register_connection(c) => State!register_connection(c)
  /\ \A c, s : Server!join_session(c, s) => State!join_session(c, s)
  /\ \A c : Server!remove_connection(c) => State!remove_connection(c)
  /\ \A c, s, a : Server!register_actor(c, s, a) => State!SetActor(c, s, a, None)
  /\ \A c, s, a, d : Server!update_actor(c, s, a, d) \/ Server!create_actor(c, s, a, d)
                       => State!SetActor(c, s, a, d)
  /\ \A c, s : Server!leave_session(c, s) => State!leave_session(c, s)
  /\ \A c, scene : Server!handle_update_state(c, scene) => State!handle_update_state(c, scene)
  /\ \A c, s : Server!InSession(c, s) = State!InSession(c, s)
  /\ \A c, s : Server!MayJoin(c, s) => State!MayJoin(c, s)
  /\ \A s : Server!get_session_members(s) = State!get_session_members(s)
  /\ \A c, s, a : Server!register_actor(c, s, a) => State!register_actor(c, s, a)
  /\ \A c, s, a, d : Server!update_actor(c, s, a, d) => State!update_actor(c, s, a, d)
  /\ \A c, s, a, d : Server!create_actor(c, s, a, d) => State!create_actor(c, s, a, d)
<1>1. /\ \A m, k, v : Server!Insert(m, k, v) = State!Insert(m, k, v)
      /\ \A m, k : Server!RemoveKey(m, k) = State!RemoveKey(m, k)
      /\ \A m, k, d : Server!GetOr(m, k, d) = State!GetOr(m, k, d)
  BY DEF Server!Insert, State!Insert, Server!RemoveKey, State!RemoveKey, Server!Restrict,
     State!Restrict, Server!GetOr, State!GetOr
<1>2. /\ \A s : Server!get_session_members(s) = State!get_session_members(s)
      /\ \A s : Server!get_session_actors(s) = State!get_session_actors(s)
      /\ \A c, s : Server!InSession(c, s) = State!InSession(c, s)
      /\ \A m, c : Server!RetainOthers(m, c) = State!RetainOthers(m, c)
  BY <1>1, HonestEmpty DEF Server!get_session_members, State!get_session_members,
     Server!get_session_actors, State!get_session_actors, Server!InSession, State!InSession,
     Server!RetainOthers, State!RetainOthers, Server!Restrict, State!Restrict
<1>3. ASSUME NEW c, NEW s
      PROVE  Server!DropFromSession(c, s) = State!DropFromSession(c, s)
  BY <1>1, <1>2 DEF Server!DropFromSession, State!DropFromSession
<1>4. \A c : Server!register_connection(c) => State!register_connection(c)
  BY <1>1 DEF Server!register_connection, State!register_connection
<1>5. \A c, s : Server!join_session(c, s) => State!join_session(c, s)
  BY <1>1, <1>2 DEF Server!join_session, State!join_session
<1>6. \A c : Server!remove_connection(c) => State!remove_connection(c)
  BY <1>1, <1>2, <1>3 DEF Server!remove_connection, State!remove_connection
<1>7. /\ \A c, s, a : Server!register_actor(c, s, a) => State!SetActor(c, s, a, None)
      /\ \A c, s, a, d : Server!update_actor(c, s, a, d) \/ Server!create_actor(c, s, a, d)
                           => State!SetActor(c, s, a, d)
  BY <1>1, <1>2, SameActors DEF Server!register_actor, Server!update_actor, Server!create_actor,
     State!SetActor
<1>8. /\ \A c, s : Server!leave_session(c, s) => State!leave_session(c, s)
      /\ \A c, scene : Server!handle_update_state(c, scene) => State!handle_update_state(c, scene)
      /\ \A c, s : Server!MayJoin(c, s) => State!MayJoin(c, s)
  BY <1>1, <1>2, <1>3 DEF Server!leave_session, State!leave_session, Server!handle_update_state,
     State!handle_update_state, Server!MayJoin, State!MayJoin
<1>9. /\ \A c, s, a : Server!register_actor(c, s, a) => State!register_actor(c, s, a)
      /\ \A c, s, a, d : Server!update_actor(c, s, a, d) => State!update_actor(c, s, a, d)
      /\ \A c, s, a, d : Server!create_actor(c, s, a, d) => State!create_actor(c, s, a, d)
  BY <1>1, <1>2, SameActors DEF Server!register_actor, Server!update_actor, Server!create_actor,
     State!register_actor, State!update_actor, State!create_actor
<1> QED
  BY <1>2, <1>4, <1>5, <1>6, <1>7, <1>8, <1>9

HonestTables == \A s \in DOMAIN session_actors : session_actors[s] \in HonestMap

\* A snapshot that is honest leaves those under way honest.
LEMMA BroadcastHonest ==
  ASSUME snapshots \in [Conn -> SUBSET HonestMap], NEW members, NEW m \in HonestMap,
         Broadcast(members, m)
  PROVE  snapshots' \in [Conn -> SUBSET HonestMap]
  BY DEF Broadcast

\* A client joins: no table changes.
LEMMA JoinHonest ==
  ASSUME SessionInv, NEW c \in Conn, NEW s \in SessionId, Server!join_session(c, s)
  PROVE  State!IndInv' /\ HonestTables' /\ s \in DOMAIN session_actors'
<1>1. State!join_session(c, s) /\ State!IndInv
  BY SameServer DEF SessionInv
<1>2. State!IndInv'
  BY <1>1, State!JoinKeeps, ServerAssumption
<1>3. session_actors' = State!Insert(session_actors, s, State!get_session_actors(s))
  BY <1>1 DEF State!join_session
<1>4. State!get_session_actors(s) \in HonestMap
  BY HonestEmpty DEF State!get_session_actors, State!GetOr, SessionInv
<1>5. DOMAIN session_actors' = DOMAIN session_actors \cup {s}
  BY <1>3 DEF State!Insert
<1>6. \A t \in DOMAIN session_actors' : session_actors'[t] \in HonestMap
  BY <1>3, <1>4 DEF State!Insert, SessionInv
<1> QED
  BY <1>2, <1>5, <1>6 DEF HonestTables

\* A client enters the player of its game, or its new pose.
LEMMA EnterHonest ==
  ASSUME SessionInv, NEW c \in Conn, NEW s \in SessionId, NEW d \in OwnPoses(c) \cup {None},
         State!SetActor(c, s, uuid[c], d)
  PROVE  State!IndInv' /\ HonestTables' /\ s \in DOMAIN session_actors'
<1>1. State!IndInv /\ uuid[c] \in ActorId /\ d \in Data \cup {None}
  BY UuidAssumption, PosesAreData DEF SessionInv
<1>2. State!IndInv'
  BY <1>1, State!SetActorKeeps, ServerAssumption
<1>3. /\ DOMAIN session_actors' = DOMAIN session_actors
      /\ session_actors'[s] = State!Insert(session_actors[s], uuid[c], State!NewActor(c, d))
      /\ \A t \in DOMAIN session_actors : t # s => session_actors'[t] = session_actors[t]
  BY <1>1, State!SetActorEffect, ServerAssumption DEF State!IndInv
<1>4. s \in DOMAIN session_actors /\ session_actors[s] \in HonestMap
  BY DEF State!SetActor, SessionInv
<1>5. session_actors'[s] \in HonestMap
  BY <1>3, <1>4, HonestInsert
<1> QED
  BY <1>2, <1>3, <1>4, <1>5 DEF HonestTables, SessionInv

\* A connection ends: tables lose actors.
LEMMA RemoveHonest ==
  ASSUME SessionInv, NEW c \in Conn, Server!remove_connection(c)
  PROVE  State!IndInv' /\ HonestTables'
<1>1. State!remove_connection(c) /\ State!IndInv /\ State!StateTypeOK
  BY SameServer DEF SessionInv, State!IndInv
<1>2. State!IndInv'
  BY <1>1, State!RemoveConnectionKeeps, ServerAssumption
<1>3. CASE UNCHANGED session_actors
  BY <1>2, <1>3 DEF HonestTables, SessionInv
<1>4. ASSUME NEW s \in SessionId, State!DropFromSession(c, s) PROVE HonestTables'
  <2>1. session_actors' =
          IF s \notin DOMAIN session_actors THEN session_actors
          ELSE State!Insert(session_actors, s, State!RetainOthers(session_actors[s], c))
    BY <1>4 DEF State!DropFromSession
  <2>2. s \in DOMAIN session_actors => State!RetainOthers(session_actors[s], c) \in HonestMap
    <3>1. s \in DOMAIN session_actors => session_actors[s] \in HonestMap
      BY DEF SessionInv
    <3> QED
      BY <3>1, HonestPart DEF State!RetainOthers, State!Restrict
  <2> QED
    BY <2>1, <2>2 DEF State!Insert, SessionInv, HonestTables
<1> QED
  BY <1>1, <1>2, <1>3, <1>4 DEF State!remove_connection

\* What the requests of the games hold
LEMMA SentFields ==
  ASSUME NEW c \in Conn, NEW r \in SentBy(c)
  PROVE  /\ r.kind = "register" => r.actor = uuid[c]
         /\ r.kind = "update" => r.actor = uuid[c] /\ r.data \in OwnPoses(c)
  BY DEF SentBy, Speaks, JoinRequest, RegisterRequest, UpdateRequest

\* The first request under way
LEMMA FirstRequest ==
  ASSUME UpInv, NEW c \in Conn, up[c] # <<>>
  PROVE  /\ Head(up[c]) \in SentBy(c)
         /\ Tail(up[c]) \in Seq(SentBy(c)) /\ Len(Tail(up[c])) <= MaxUp[c] + 1
<1>1. up[c] \in Seq(SentBy(c)) /\ Len(up[c]) <= MaxUp[c] + 1
  BY DEF UpInv
<1>2. /\ Head(up[c]) \in SentBy(c) /\ Tail(up[c]) \in Seq(SentBy(c))
      /\ Len(Tail(up[c])) = Len(up[c]) - 1 /\ Len(up[c]) \in Nat
  BY <1>1, HeadTailProperties, LenProperties
<1> QED
  BY <1>1, <1>2, SessionAssumption

\* Steps that touch neither the server nor a snapshot
SessionSame == UNCHANGED <<serverVars, snapshots>>

LEMMA SessionUnchanged ==
  ASSUME NEW c \in Conn, PlayerInit(c) \/ PlayFrame(c) \/ PlayerActs(c) \/ Welcome(c)
  PROVE  SessionSame
  BY DEF PlayerInit, PlayFrame, PlayerActs, Welcome, SessionSame

\* Every snapshot that is sent is a table of the server.
LEMMA DispatchSession ==
  ASSUME SessionInv, UpInv, NEW c \in Conn, Dispatch(c)
  PROVE  SessionInv'
<1> DEFINE req == Head(up[c])
<1>1. req \in SentBy(c) /\ snapshots \in [Conn -> SUBSET HonestMap] /\ State!IndInv
  BY FirstRequest DEF Dispatch, SessionInv
<1>2. PICK s \in SessionId :
        \/ /\ Server!join_session(c, s)
           /\ Broadcast(sessions'[s], session_actors'[s])
        \/ /\ req.kind = "register"
           /\ UNCHANGED serverVars \/ Server!register_actor(c, s, req.actor)
           /\ UNCHANGED snapshots
        \/ /\ req.kind = "update"
           /\ \/ Server!update_actor(c, s, req.actor, req.data)
              \/ Server!create_actor(c, s, req.actor, req.data)
           /\ Broadcast(sessions'[s], session_actors'[s])
  BY DEF Dispatch
<1> HIDE DEF req
<1>3. ASSUME s \in DOMAIN session_actors', State!IndInv', HonestTables',
             Broadcast(sessions'[s], session_actors'[s])
      PROVE  SessionInv'
  BY <1>1, <1>3, BroadcastHonest DEF SessionInv, HonestTables
<1>4. CASE Server!join_session(c, s) /\ Broadcast(sessions'[s], session_actors'[s])
  BY <1>3, <1>4, JoinHonest
<1>5. CASE /\ req.kind = "register"
           /\ UNCHANGED serverVars \/ Server!register_actor(c, s, req.actor)
           /\ UNCHANGED snapshots
  <2>1. CASE UNCHANGED serverVars
    <3>1. State!IndInv'
      <4>1. UNCHANGED State!stateVars
        BY <2>1 DEF serverVars, State!stateVars
      <4> QED
        BY <1>1, <4>1, State!NextKeeps, ServerAssumption
    <3> QED
      BY <1>1, <1>5, <2>1, <3>1 DEF serverVars, SessionInv
  <2>2. CASE Server!register_actor(c, s, req.actor)
    <3>1. State!SetActor(c, s, uuid[c], None)
      BY <1>1, <1>5, <2>2, SentFields, SameServer
    <3> QED
      BY <1>1, <1>5, <3>1, EnterHonest DEF SessionInv, HonestTables
  <2> QED
    BY <1>5, <2>1, <2>2
<1>6. CASE /\ req.kind = "update"
           /\ \/ Server!update_actor(c, s, req.actor, req.data)
              \/ Server!create_actor(c, s, req.actor, req.data)
           /\ Broadcast(sessions'[s], session_actors'[s])
  <2>1. State!SetActor(c, s, uuid[c], req.data) /\ req.data \in OwnPoses(c)
    BY <1>1, <1>6, SentFields, SameServer
  <2>2. State!IndInv' /\ HonestTables' /\ s \in DOMAIN session_actors'
    BY <2>1, EnterHonest
  <2> QED
    BY <1>3, <1>6, <2>2
<1> QED
  BY <1>2, <1>4, <1>5, <1>6

LEMMA SessionStep ==
  ASSUME SessionInv, UpInv, [GameNext]_allVars
  PROVE  SessionInv'
<1>1. State!IndInv /\ HonestTables /\ snapshots \in [Conn -> SUBSET HonestMap]
  BY DEF SessionInv, HonestTables
<1>2. ASSUME UNCHANGED serverVars, snapshots' \in [Conn -> SUBSET HonestMap] PROVE SessionInv'
  <2>1. UNCHANGED State!stateVars
    BY <1>2 DEF serverVars, State!stateVars
  <2>2. State!IndInv'
    BY <1>1, <2>1, State!NextKeeps, ServerAssumption
  <2> QED
    BY <1>2, <2>2 DEF serverVars, SessionInv
<1>3. ASSUME NEW c \in Conn, Load(c) PROVE SessionInv'
  <2>1. CASE UNCHANGED serverVars
    BY <1>1, <1>2, <1>3, <2>1 DEF Load
  <2>2. CASE Server!register_connection(c)
    <3>1. State!register_connection(c)
      BY <2>2, SameServer
    <3>2. State!IndInv'
      BY <1>1, <3>1, State!RegisterConnectionKeeps, ServerAssumption
    <3>3. UNCHANGED <<session_actors, snapshots>>
      BY <1>3, <2>2 DEF Load, Server!register_connection
    <3> QED
      BY <3>2, <3>3 DEF SessionInv
  <2> QED
    BY <1>3, <2>1, <2>2 DEF Load
<1>4. ASSUME NEW c \in Conn, NotifyDisconnect(c) PROVE SessionInv'
  <2>1. UNCHANGED serverVars
    BY <1>4 DEF NotifyDisconnect
  <2>2. CASE UNCHANGED snapshots
    BY <1>1, <1>2, <2>1, <2>2
  <2>3. ASSUME NEW s \in SessionId, Server!InSession(c, s),
               Broadcast(Server!get_session_members(s), session_actors[s])
        PROVE  SessionInv'
    <3>1. c \in DOMAIN connections /\ connections[c] = s /\ s # None
      BY <2>3, ServerAssumption DEF Server!InSession
    <3>2. s \in DOMAIN session_actors
      BY <1>1, <3>1 DEF State!IndInv, State!CurrentSessionListsIt
    <3>3. snapshots' \in [Conn -> SUBSET HonestMap]
      BY <1>1, <2>3, <3>2, BroadcastHonest DEF HonestTables
    <3> QED
      BY <1>2, <2>1, <3>3
  <2> QED
    BY <1>4, <2>2, <2>3 DEF NotifyDisconnect
<1>5. ASSUME NEW c \in Conn, Cleanup(c) PROVE SessionInv'
  BY <1>1, <1>5, RemoveHonest DEF Cleanup, SessionInv, HonestTables
<1>6. ASSUME NEW c \in Conn, Quit(c) \/ Receive(c) PROVE SessionInv'
  <2>1. UNCHANGED serverVars
    BY <1>6 DEF Quit, Receive
  <2>2. snapshots' \in [Conn -> SUBSET HonestMap]
    BY <1>1, <1>6 DEF Quit, Receive
  <2> QED
    BY <1>2, <2>1, <2>2
<1>7. CASE SessionSame
  BY <1>1, <1>2, <1>7 DEF SessionSame
<1>8. CASE UNCHANGED allVars
  BY <1>7, <1>8 DEF allVars, SessionSame
<1> QED
  BY <1>3, <1>4, <1>5, <1>6, <1>7, <1>8, DispatchSession, SessionUnchanged DEF GameNext

---------------------------------------------------------------------------
(* The requests *)

\* One or two requests of the game of c, once there is room
LEMMA Sent ==
  ASSUME UpInv, NEW c \in Conn, NEW q \in Seq(SentBy(c)), Len(q) <= 2,
         up' = [up EXCEPT ![c] = up[c] \o q], HasRoom(c) \/ (Len(up[c]) = 0 /\ Len(q) = 1)
  PROVE  /\ DOMAIN up' = Conn /\ \A x \in Conn : x # c => up'[x] = up[x]
         /\ up'[c] \in Seq(SentBy(c)) /\ Len(up'[c]) <= MaxUp[c] + 1
<1>1. /\ up[c] \in Seq(SentBy(c)) /\ Len(up[c]) <= MaxUp[c] + 1 /\ DOMAIN up = Conn
      /\ MaxUp[c] \in Nat /\ up'[c] = up[c] \o q
  BY SessionAssumption DEF UpInv
<1>2. /\ up[c] \o q \in Seq(SentBy(c)) /\ Len(up[c] \o q) = Len(up[c]) + Len(q)
      /\ Len(up[c]) \in Nat /\ Len(q) \in Nat
  BY <1>1, ConcatProperties, LenProperties
<1> SUFFICES Len(up'[c]) <= MaxUp[c] + 1
  BY <1>1, <1>2
<1>3. CASE up'[c] = up[c]
  BY <1>1, <1>3
<1>4. CASE up'[c] # up[c] /\ HasRoom(c)
  <2>1. Len(up[c]) < MaxUp[c]
    BY <1>4 DEF HasRoom
  <2> QED
    BY <1>1, <1>2, <2>1
<1>5. CASE Len(up[c]) = 0 /\ Len(q) = 1
  <2> DEFINE l == Len(up[c])
             k == Len(q)
             n == Len(up'[c])
             M == MaxUp[c]
  <2>1. n = l + k /\ l = 0 /\ k = 1 /\ M \in Nat
    BY <1>1, <1>2, <1>5
  <2> HIDE DEF l, k, n, M
  <2>2. n <= M + 1
    BY <2>1
  <2> QED
    BY <2>2 DEF n, M
<1> QED
  BY <1>3, <1>4, <1>5

\* What the calls of the mod send: nothing, or requests about the player, over
\* a runtime that is connected
SendsOwn(c) ==
  \/ UNCHANGED up
  \/ /\ connected[c]
     /\ \E q \in Seq(Speaks(c)) : Len(q) <= 2 /\ up' = [up EXCEPT ![c] = up[c] \o q]

LEMMA CallsSend ==
  ASSUME NEW c \in Conn
  PROVE  /\ NetworkSyncRegisterActor(c, uuid[c]) => SendsOwn(c)
         /\ \A d \in OwnPoses(c) : send_actor_update(c, uuid[c], d) => SendsOwn(c)
<1> DEFINE r == RegisterRequest(uuid[c])
<1>1. r \in Speaks(c)
  BY DEF Speaks
<1>2. ASSUME NetworkSyncRegisterActor(c, uuid[c]) PROVE SendsOwn(c)
  <2>1. CASE register_actor(c, uuid[c])
    <3>1. connected[c] /\ up' = [up EXCEPT ![c] = up[c] \o <<r>>]
      BY <2>1 DEF register_actor, Send
    <3> DEFINE q == <<r>>
    <3>2. q \in Seq(Speaks(c)) /\ Len(q) <= 2 /\ up' = [up EXCEPT ![c] = up[c] \o q]
      BY <1>1, <3>1
    <3> HIDE DEF q
    <3> QED
      BY <3>1, <3>2 DEF SendsOwn
  <2>2. CASE UNCHANGED up
    BY <2>2 DEF SendsOwn
  <2> QED
    BY <1>2, <2>1, <2>2 DEF NetworkSyncRegisterActor
<1>3. ASSUME NEW d \in OwnPoses(c), send_actor_update(c, uuid[c], d) PROVE SendsOwn(c)
  <2> DEFINE u == UpdateRequest(uuid[c], d)
  <2>1. u \in Speaks(c)
    BY DEF Speaks
  <2> HIDE DEF u, r
  <2>2. /\ <<>> \in Seq(Speaks(c)) /\ Len(<<>>) = 0
        /\ <<r>> \in Seq(Speaks(c)) /\ Len(<<r>>) = 1
        /\ <<u>> \in Seq(Speaks(c)) /\ Len(<<u>>) = 1
    BY <1>1, <2>1
  <2>3. \A p \in {<<>>, <<r>>}, q \in {<<>>, <<u>>} :
          p \o q \in Seq(Speaks(c)) /\ Len(p \o q) <= 2
    <3> TAKE p \in {<<>>, <<r>>}, q \in {<<>>, <<u>>}
    <3>1. /\ p \in Seq(Speaks(c)) /\ q \in Seq(Speaks(c))
          /\ Len(p) = 0 \/ Len(p) = 1
          /\ Len(q) = 0 \/ Len(q) = 1
      BY <2>2
    <3>2. p \o q \in Seq(Speaks(c)) /\ Len(p \o q) = Len(p) + Len(q)
      BY <3>1, ConcatProperties
    <3> DEFINE m == Len(p)
               n == Len(q)
    <3>3. (m = 0 \/ m = 1) /\ (n = 0 \/ n = 1)
      BY <3>1
    <3> HIDE DEF m, n
    <3>4. m + n <= 2
      BY <3>3
    <3> QED
      BY <3>2, <3>4 DEF m, n
  <2>4. PICK p \in {<<>>, <<r>>}, q \in {<<>>, <<u>>} :
          up' = [up EXCEPT ![c] = up[c] \o (p \o q)]
    BY <1>3 DEF send_actor_update, Send, r, u
  <2>5. connected[c]
    BY <1>3 DEF send_actor_update
  <2> QED
    BY <2>3, <2>4, <2>5 DEF SendsOwn
<1> QED
  BY <1>2, <1>3

LEMMA SpokenIsSent ==
  ASSUME NEW c \in Conn, NEW q \in Seq(Speaks(c))
  PROVE  q \in Seq(SentBy(c)) /\ \A i \in DOMAIN q : q[i].kind # "join"
<1>1. q \in [1..Len(q) -> Speaks(c)] /\ Len(q) \in Nat
  OBVIOUS
<1>2. q \in [1..Len(q) -> SentBy(c)]
  BY <1>1 DEF SentBy
<1>3. \A r \in Speaks(c) : r.kind # "join"
  BY DEF Speaks, RegisterRequest, UpdateRequest
<1> QED
  BY <1>1, <1>2, <1>3

\* Requests that a connected game sends in its frames keep the invariant.
LEMMA SendingKeeps ==
  ASSUME UpInv, NEW c \in Conn, SendsOwn(c), HasRoom(c), UNCHANGED <<link, has_connected>>,
         RuntimeSame
  PROVE  UpInv'
<1>1. CASE UNCHANGED up
  BY <1>1 DEF UpInv, Connected, RuntimeSame
<1>2. CASE connected[c] /\ \E q \in Seq(Speaks(c)) : Len(q) <= 2 /\ up' = [up EXCEPT ![c] = up[c] \o q]
  <2>1. PICK q \in Seq(SentBy(c)) : Len(q) <= 2 /\ up' = [up EXCEPT ![c] = up[c] \o q]
    BY <1>2, SpokenIsSent
  <2>2. has_connected[c]
    BY <1>2 DEF UpInv
  <2>3. /\ DOMAIN up' = Conn /\ \A x \in Conn : x # c => up'[x] = up[x]
        /\ up'[c] \in Seq(SentBy(c)) /\ Len(up'[c]) <= MaxUp[c] + 1
    BY <2>1, Sent
  <2> QED
    BY <2>2, <2>3 DEF UpInv, Connected, RuntimeSame
<1> QED
  BY <1>1, <1>2 DEF SendsOwn

\* The player that a scene registers
LEMMA RegisteredPlayer ==
  ASSUME PlayerIdInv, NEW c \in Conn
  PROVE  LET player == Register(c, Spawned("player", StartPose[c]), local_player_id[c], TRUE)
         IN /\ player \in GameActor /\ player.kind = "player" /\ player.pose \in OwnPoses(c)
            /\ player.actor_id = uuid[c]
<1> DEFINE r == Spawned("player", StartPose[c])
           id == local_player_id[c]
           player == Register(c, r, id, TRUE)
<1>1. id \in {None, uuid[c]} /\ uuid[c] \in ActorId /\ StartPose[c] \in Data
  BY UuidAssumption, TestModAssumption DEF PlayerIdInv
<1>2. player = [r EXCEPT !.is_synced = TRUE, !.is_owned_locally = TRUE,
                         !.actor_id = IF id = None THEN uuid[c] ELSE id]
  BY DEF Register
<1>3. r \in GameActor /\ r.kind = "player" /\ r.pose \in OwnPoses(c)
  BY <1>1, PosesAreData DEF Spawned, GameActor
<1> HIDE DEF r, id, player
<1>4. player = [r EXCEPT !.is_synced = TRUE, !.is_owned_locally = TRUE, !.actor_id = uuid[c]]
  <2>1. (IF id = None THEN uuid[c] ELSE id) = uuid[c]
    BY <1>1
  <2> QED
    BY <1>2, <2>1
<1>5. /\ player \in GameActor /\ player.kind = "player" /\ player.pose \in OwnPoses(c)
      /\ player.actor_id = uuid[c]
  BY <1>1, <1>3, <1>4 DEF GameActor
<1> QED
  BY <1>5 DEF player, r, id

\* The player of the title screen, and a puppet for an id
LEMMA SpawnedActors ==
  ASSUME NEW c \in Conn
  PROVE  /\ LET player == Spawned("player", StartPose[c])
            IN player \in GameActor /\ player.kind = "player" /\ ~player.is_owned_locally
         /\ \A a \in ActorId :
              LET puppet == Register(c, RemotePlayer, a, FALSE)
              IN /\ puppet \in GameActor /\ puppet.kind = "remote" /\ puppet.actor_id = a
                 /\ ~puppet.is_owned_locally /\ puppet.pose = None
<1>1. /\ Spawned("player", StartPose[c]) \in GameActor
      /\ Spawned("player", StartPose[c]).kind = "player"
      /\ ~Spawned("player", StartPose[c]).is_owned_locally
  BY TestModAssumption DEF Spawned, GameActor
<1>2. ASSUME NEW a \in ActorId
      PROVE  LET puppet == Register(c, RemotePlayer, a, FALSE)
             IN /\ puppet \in GameActor /\ puppet.kind = "remote" /\ puppet.actor_id = a
                /\ ~puppet.is_owned_locally /\ puppet.pose = None
  <2> DEFINE r == RemotePlayer
             puppet == Register(c, r, a, FALSE)
  <2>1. r \in GameActor /\ r.kind = "remote" /\ r.pose = None
    BY DEF RemotePlayer, Spawned, GameActor
  <2>2. a # None
    BY PointerAssumption
  <2>3. puppet = [r EXCEPT !.is_synced = TRUE, !.is_owned_locally = FALSE, !.actor_id = a]
    BY <2>2 DEF Register
  <2> HIDE DEF r, puppet
  <2>4. /\ puppet \in GameActor /\ puppet.kind = "remote" /\ puppet.actor_id = a
        /\ ~puppet.is_owned_locally /\ puppet.pose = None
    BY <2>1, <2>3 DEF GameActor
  <2> QED
    BY <2>4 DEF r, puppet
<1> QED
  BY <1>1, <1>2

\* The player is registered under the game's id, and sent with it.
LEMMA FramesSend ==
  ASSUME ActorsInv, PlayerIdInv, NEW c \in Conn, PlayerInit(c) \/ PlayFrame(c)
  PROVE  SendsOwn(c) /\ HasRoom(c) /\ UNCHANGED <<link, has_connected>>
<1>1. HasRoom(c) /\ UNCHANGED link
  BY DEF PlayerInit, PlayFrame
<1>2. CASE PlayerInit(c)
  <2>1. ASSUME NEW p, OnPlayerInit(c, p) PROVE SendsOwn(c) /\ UNCHANGED has_connected
    <3>1. Register(c, Spawned("player", StartPose[c]), local_player_id[c], TRUE).actor_id = uuid[c]
      BY RegisteredPlayer
    <3>2. NetworkSyncRegisterActor(c, uuid[c])
      BY <2>1, <3>1 DEF OnPlayerInit, SpawnRegistered
    <3> QED
      BY <2>1, <3>2, CallsSend DEF OnPlayerInit, SpawnPlayer
  <2>2. ASSUME NEW p, DemoPlayerInit(c, p) PROVE SendsOwn(c) /\ UNCHANGED has_connected
    BY <2>2 DEF DemoPlayerInit, SpawnPlayer, runtimeVars, SendsOwn
  <2> QED
    BY <1>1, <1>2, <2>1, <2>2 DEF PlayerInit
<1>3. CASE PlayFrame(c)
  <2>1. CASE ActorsUpdate(c)
    <3>1. UNCHANGED has_connected
      BY <2>1 DEF ActorsUpdate
    <3>2. ASSUME UNCHANGED runtimeVars PROVE SendsOwn(c)
      BY <3>2 DEF runtimeVars, SendsOwn
    <3>3. ASSUME NEW p \in DOMAIN actors[c], Sends(c, p), ActorSyncUpdate(c, p) PROVE SendsOwn(c)
      <4>1. actors[c][p].actor_id = uuid[c] /\ actors[c][p].pose \in OwnPoses(c)
        BY <3>3 DEF Sends, ActorsInv, ListInv, Fits
      <4>2. send_actor_update(c, uuid[c], actors[c][p].pose) \/ UNCHANGED up
        BY <3>3, <4>1 DEF ActorSyncUpdate
      <4> QED
        BY <4>1, <4>2, CallsSend DEF SendsOwn
    <3> QED
      BY <1>1, <2>1, <3>1, <3>2, <3>3 DEF ActorsUpdate
  <2>2. CASE on_play_main(c) \/ ProcessRemoteIds(c)
    BY <1>1, <2>2 DEF on_play_main, ProcessRemoteIds, Does, runtimeVars, SendsOwn
  <2>3. CASE ProcessRemoteData(c)
    BY <1>1, <2>3 DEF ProcessRemoteData, runtimeVars, modVars, SendsOwn
  <2> QED
    BY <1>3, <2>1, <2>2, <2>3 DEF PlayFrame, Frame
<1> QED
  BY <1>2, <1>3

\* Steps that neither send a request nor connect
UpSame == UNCHANGED <<up, has_connected>>

\* What is under way is what the game sent, in each step.
LEMMA UpStep ==
  ASSUME RuntimeInv, UpInv, ActorsInv, PlayerIdInv, [GameNext]_allVars
  PROVE  UpInv'
<1> DEFINE Links == {"none", "accepted", "welcomed", "closing", "notified", "done"}
<1>1. /\ DOMAIN up = Conn /\ has_connected \in [Conn -> BOOLEAN] /\ link \in [Conn -> Links]
      /\ \A c \in Conn : /\ up[c] \in Seq(SentBy(c)) /\ Len(up[c]) <= MaxUp[c] + 1
                         /\ ~has_connected[c] => up[c] = <<>> /\ ~connected[c] /\ ~Connected(c)
  BY DEF UpInv
<1>2. ASSUME UpSame, UNCHANGED <<link, connected>> PROVE UpInv'
  BY <1>1, <1>2 DEF UpSame, UpInv, Connected
<1>3. ASSUME NEW c \in Conn, Load(c) PROVE UpInv'
  <2>1. RuntimeSame
    BY <1>3, ViewChanges
  <2>2. CASE (AlreadyConnected(c) \/ ConnectFails(c)) /\ UNCHANGED link
    BY <1>2, <2>1, <2>2 DEF AlreadyConnected, ConnectFails, runtimeVars, RuntimeSame, UpSame
  <2>3. CASE ConnectAndJoin(c) /\ Goto(c, "accepted")
    <3>1. PICK s \in SessionId : join_session(c, s)
      BY <2>3 DEF ConnectAndJoin
    <3> DEFINE q == <<JoinRequest(s)>>
    <3>2. JoinRequest(s) \in SentBy(c) /\ q \in Seq(SentBy(c)) /\ Len(q) = 1
      BY DEF SentBy
    <3>3. up' = [up EXCEPT ![c] = up[c] \o q]
      BY <3>1 DEF join_session, Send
    <3> HIDE DEF q
    <3>4. Len(up[c]) = 0
      BY <1>1, <2>3 DEF ConnectAndJoin
    <3>5. /\ DOMAIN up' = Conn /\ \A x \in Conn : x # c => up'[x] = up[x]
          /\ up'[c] \in Seq(SentBy(c)) /\ Len(up'[c]) <= MaxUp[c] + 1
      <4>1. Len(q) <= 2
        BY <3>2
      <4> QED
        BY <3>2, <3>3, <3>4, <4>1, Sent
    <3>6. /\ has_connected' = [has_connected EXCEPT ![c] = TRUE]
          /\ link' = [link EXCEPT ![c] = "accepted"] /\ connected' = connected
      BY <2>1, <2>3 DEF ConnectAndJoin, Goto, RuntimeSame
    <3> QED
      BY <1>1, <3>5, <3>6 DEF UpInv, Connected
  <2> QED
    BY <1>3, <2>2, <2>3 DEF Load
<1>4. ASSUME NEW c \in Conn, PlayerInit(c) \/ PlayFrame(c) PROVE UpInv'
  BY <1>4, FramesSend, SendingKeeps, ViewChanges
<1>5. ASSUME NEW c \in Conn, PlayerActs(c) PROVE UpInv'
  BY <1>2, <1>5 DEF PlayerActs, OnFileSelect_LoadGame, LeaveScene, Move, runtimeVars, modVars,
     UpSame
<1>6. ASSUME NEW c \in Conn, Dispatch(c) PROVE UpInv'
  <2>1. /\ up' = [up EXCEPT ![c] = Tail(up[c])] /\ up[c] # <<>>
        /\ UNCHANGED <<link, connected, has_connected>>
    BY <1>6 DEF Dispatch, modVars
  <2>2. Tail(up[c]) \in Seq(SentBy(c)) /\ Len(Tail(up[c])) <= MaxUp[c] + 1
    BY <2>1, FirstRequest
  <2> QED
    BY <1>1, <2>1, <2>2 DEF UpInv, Connected
<1>7. ASSUME NEW c \in Conn, Quit(c) PROVE UpInv'
  <2>1. /\ up' = [up EXCEPT ![c] = <<>>] /\ link' = [link EXCEPT ![c] = "closing"]
        /\ connected' = [connected EXCEPT ![c] = FALSE]
        /\ has_connected' = [has_connected EXCEPT ![c] = FALSE]
    BY <1>7 DEF Quit, Goto
  <2>2. \A S : <<>> \in Seq(S) /\ Len(<<>>) = 0
    OBVIOUS
  <2>3. /\ up'[c] \in Seq(SentBy(c)) /\ Len(up'[c]) = 0 /\ up'[c] = <<>>
    BY <1>1, <2>1, <2>2
  <2>4. Len(up'[c]) <= MaxUp[c] + 1
    BY <2>3, SessionAssumption
  <2>5. ~connected'[c] /\ ~Connected(c)'
    BY <1>1, <2>1 DEF Connected, RuntimeInv
  <2> QED
    BY <1>1, <2>1, <2>3, <2>4, <2>5 DEF UpInv, Connected
<1>8. ASSUME NEW c \in Conn, NotifyDisconnect(c) \/ Cleanup(c) PROVE UpInv'
  <2>1. UpSame /\ UNCHANGED connected
    BY <1>8 DEF NotifyDisconnect, Cleanup, gameVars, runtimeVars, modVars, UpSame
  <2>2. PICK l \in {"notified", "done"} : link' = [link EXCEPT ![c] = l]
    BY <1>8 DEF NotifyDisconnect, Cleanup, Goto
  <2> QED
    BY <1>1, <2>1, <2>2 DEF UpInv, UpSame, Connected
<1>9. ASSUME NEW c \in Conn, Welcome(c) PROVE UpInv'
  <2>1. UpSame /\ connected' = [connected EXCEPT ![c] = TRUE]
    BY <1>9 DEF Welcome, process_welcome, modVars, UpSame
  <2>2. link[c] = "accepted" /\ link' = [link EXCEPT ![c] = "welcomed"]
    BY <1>9 DEF Welcome, Goto
  <2>3. has_connected[c]
    BY <1>1, <2>2 DEF Connected
  <2> QED
    BY <1>1, <2>1, <2>2, <2>3 DEF UpInv, UpSame, Connected
<1>10. ASSUME NEW c \in Conn, Receive(c) PROVE UpInv'
  BY <1>2, <1>10 DEF Receive, process_sync, modVars, UpSame
<1>11. CASE UNCHANGED allVars
  BY <1>2, <1>11 DEF allVars, gameVars, runtimeVars, modVars, UpSame
<1> QED
  BY <1>3, <1>4, <1>5, <1>6, <1>7, <1>8, <1>9, <1>10, <1>11 DEF GameNext

---------------------------------------------------------------------------
(* The lists of actors *)

LEMMA EmptyList ==
  ASSUME NEW c \in Conn
  PROVE  ListInv(c, EmptyMap)
  BY EmptyMapIsMap DEF ListInv

\* One list changes.
LEMMA ListChanged ==
  ASSUME ActorsInv, NEW c \in Conn, NEW list, ListInv(c, list),
         actors' = [actors EXCEPT ![c] = list]
  PROVE  ActorsInv'
<1>1. DOMAIN actors' = Conn
  BY DEF ActorsInv
<1>2. \A d \in Conn : actors'[d] = IF d = c THEN list ELSE actors[d]
  BY DEF ActorsInv
<1>3. \A d \in Conn : ListInv(d, actors'[d])
  BY <1>2 DEF ActorsInv
<1> QED
  BY <1>1, <1>3 DEF ActorsInv, ListInv, Fits

\* Actors go, are killed, or get a pose.
LEMMA ListKept ==
  ASSUME NEW c \in Conn, NEW old, ListInv(c, old),
         NEW list, DOMAIN list \subseteq DOMAIN old, list = [p \in DOMAIN list |-> list[p]],
         \A p \in DOMAIN list :
           /\ list[p] \in GameActor
           /\ list[p].kind = old[p].kind /\ list[p].actor_id = old[p].actor_id
           /\ list[p].is_owned_locally = old[p].is_owned_locally
           /\ list[p].pose = old[p].pose \/ Fits(c, old[p], list[p].pose)
  PROVE  ListInv(c, list)
<1>1. IsMap(list, Pointer, GameActor)
  BY DEF IsMap, ListInv
<1>2. \A p \in DOMAIN list :
        /\ Fits(c, list[p], list[p].pose)
        /\ list[p].is_owned_locally => list[p].actor_id = uuid[c]
        /\ list[p].kind = "remote" =>
             ~list[p].is_owned_locally /\ list[p].actor_id \in ActorId \ {EmptyId, uuid[c]}
  <2> TAKE p \in DOMAIN list
  <2>1. /\ Fits(c, old[p], old[p].pose)
        /\ old[p].is_owned_locally => old[p].actor_id = uuid[c]
        /\ old[p].kind = "remote" =>
             ~old[p].is_owned_locally /\ old[p].actor_id \in ActorId \ {EmptyId, uuid[c]}
    BY DEF ListInv
  <2> QED
    BY <2>1 DEF Fits
<1>3. ASSUME NEW p \in DOMAIN list, NEW q \in DOMAIN list,
             list[p].kind = "remote", list[q].kind = "remote",
             list[p].actor_id = list[q].actor_id
      PROVE  p = q
  <2>1. old[p].kind = "remote" /\ old[q].kind = "remote" /\ old[p].actor_id = old[q].actor_id
    BY <1>3
  <2> QED
    BY <2>1 DEF ListInv
<1> QED
  BY <1>1, <1>2, <1>3 DEF ListInv

\* A player is spawned.
LEMMA ListWithPlayer ==
  ASSUME NEW c \in Conn, NEW old, ListInv(c, old), NEW p \in Pointer, NEW new \in GameActor,
         new.kind = "player",
         new.is_owned_locally => new.actor_id = uuid[c] /\ new.pose \in OwnPoses(c)
  PROVE  ListInv(c, Insert(old, p, new))
<1> DEFINE list == Insert(old, p, new)
<1>1. IsMap(list, Pointer, GameActor)
  BY InsertIsMap DEF ListInv
<1>2. /\ DOMAIN list = DOMAIN old \cup {p} /\ list[p] = new
      /\ \A q \in DOMAIN list : q # p => q \in DOMAIN old /\ list[q] = old[q]
  BY DEF Insert
<1> HIDE DEF list
<1>3. \A q \in DOMAIN list :
        /\ Fits(c, list[q], list[q].pose)
        /\ list[q].is_owned_locally => list[q].actor_id = uuid[c]
        /\ list[q].kind = "remote" =>
             ~list[q].is_owned_locally /\ list[q].actor_id \in ActorId \ {EmptyId, uuid[c]}
  BY <1>2 DEF ListInv, Fits
<1>4. ASSUME NEW q \in DOMAIN list, NEW r \in DOMAIN list,
             list[q].kind = "remote", list[r].kind = "remote",
             list[q].actor_id = list[r].actor_id
      PROVE  q = r
  <2>1. q # p /\ r # p
    BY <1>2, <1>4
  <2> QED
    BY <1>2, <1>4, <2>1 DEF ListInv
<1> QED
  BY <1>1, <1>3, <1>4 DEF ListInv, list

\* Puppets at free addresses, for ids of others that have none
NewPuppets(c, old, new) ==
  /\ new = [p \in DOMAIN new |-> new[p]]
  /\ DOMAIN new \subseteq Pointer \ DOMAIN old
  /\ \A p \in DOMAIN new :
       /\ new[p] \in GameActor /\ new[p].kind = "remote" /\ ~new[p].is_owned_locally
       /\ new[p].pose = None
       /\ new[p].actor_id \in ActorId \ {EmptyId, uuid[c]}
       /\ \A q \in DOMAIN old : old[q].kind = "remote" => old[q].actor_id # new[p].actor_id
       /\ \A q \in DOMAIN new : new[q].actor_id = new[p].actor_id => p = q

LEMMA ListWithPuppets ==
  ASSUME NEW c \in Conn, NEW old, ListInv(c, old), NEW new, NewPuppets(c, old, new)
  PROVE  ListInv(c, [p \in DOMAIN old \cup DOMAIN new |->
                       IF p \in DOMAIN new THEN new[p] ELSE old[p]])
<1> DEFINE list == [p \in DOMAIN old \cup DOMAIN new |->
                      IF p \in DOMAIN new THEN new[p] ELSE old[p]]
<1> USE DEF NewPuppets
<1>1. /\ DOMAIN list = DOMAIN old \cup DOMAIN new
      /\ \A p \in DOMAIN new : p \in DOMAIN list /\ list[p] = new[p]
      /\ \A p \in DOMAIN list : p \notin DOMAIN new => p \in DOMAIN old /\ list[p] = old[p]
  OBVIOUS
<1>2. IsMap(list, Pointer, GameActor)
  <2>1. \A p \in DOMAIN old : old[p] \in GameActor /\ p \in Pointer
    BY MapValue DEF ListInv
  <2> QED
    BY <2>1 DEF IsMap
<1> HIDE DEF list
<1>3. \A p \in DOMAIN list :
        /\ Fits(c, list[p], list[p].pose)
        /\ list[p].is_owned_locally => list[p].actor_id = uuid[c]
        /\ list[p].kind = "remote" =>
             ~list[p].is_owned_locally /\ list[p].actor_id \in ActorId \ {EmptyId, uuid[c]}
  BY <1>1 DEF ListInv, Fits
<1>4. ASSUME NEW p \in DOMAIN list, NEW q \in DOMAIN list,
             list[p].kind = "remote", list[q].kind = "remote",
             list[p].actor_id = list[q].actor_id
      PROVE  p = q
  <2>1. CASE p \in DOMAIN new /\ q \in DOMAIN new
    BY <1>1, <1>4, <2>1
  <2>2. CASE p \in DOMAIN new /\ q \notin DOMAIN new
    BY <1>1, <1>4, <2>2
  <2>3. CASE p \notin DOMAIN new /\ q \in DOMAIN new
    BY <1>1, <1>4, <2>3
  <2>4. CASE p \notin DOMAIN new /\ q \notin DOMAIN new
    BY <1>1, <1>4, <2>4 DEF ListInv
  <2> QED
    BY <2>1, <2>2, <2>3, <2>4
<1> QED
  BY <1>2, <1>3, <1>4 DEF ListInv, list

\* Killing changes nothing that ListInv reads.
LEMMA KillKeeps ==
  ASSUME NEW c \in Conn, NEW ids, NEW old, ListInv(c, old)
  PROVE  ListInv(c, Kill(c, ids, old))
<1> DEFINE list == Kill(c, ids, old)
<1>1. /\ DOMAIN list = DOMAIN old /\ list = [p \in DOMAIN list |-> list[p]]
      /\ \A p \in DOMAIN list : list[p] = old[p] \/ list[p] = [old[p] EXCEPT !.life = "killed"]
  BY DEF Kill
<1>2. \A p \in DOMAIN old : old[p] \in GameActor
  BY MapValue DEF ListInv
<1> HIDE DEF list
<1>3. \A p \in DOMAIN list :
        /\ list[p] \in GameActor
        /\ list[p].kind = old[p].kind /\ list[p].actor_id = old[p].actor_id
        /\ list[p].is_owned_locally = old[p].is_owned_locally
        /\ list[p].pose = old[p].pose
  <2> TAKE p \in DOMAIN list
  <2>1. CASE list[p] = old[p]
    BY <1>1, <1>2, <2>1
  <2>2. CASE list[p] = [old[p] EXCEPT !.life = "killed"]
    BY <1>1, <1>2, <2>2 DEF GameActor
  <2> QED
    BY <1>1, <2>1, <2>2
<1> QED
  BY <1>1, <1>3, ListKept DEF list

\* What the runtime lists are ids of other games.
LEMMA ListedIds ==
  ASSUME RuntimeInv, NEW c \in Conn, NEW slots, NEW ids \in GetRemoteActorIDs(c, slots)
  PROVE  ids \subseteq ActorId \ {EmptyId, uuid[c]}
<1>1. remote_actors[c] \in HonestMap
      /\ \A a \in DOMAIN remote_actors[c] : remote_actors[c][a].owner_id # c
  BY DEF RuntimeInv
<1>2. ids \subseteq DOMAIN remote_actors[c]
  BY DEF GetRemoteActorIDs
<1>3. ASSUME NEW a \in ids PROVE a \in ActorId \ {EmptyId, uuid[c]}
  <2>1. PICK d \in Conn : a = uuid[d] /\ d # c
    BY <1>1, <1>2, HonestActors
  <2> QED
    BY <2>1, UuidAssumption
<1> QED
  BY <1>3

\* remote_actors_update spawns no second puppet.
LEMMA PuppetsUpdate ==
  ASSUME RuntimeInv, ActorsInv, NEW c \in Conn, remote_actors_update(c)
  PROVE  ActorsInv' /\ DOMAIN actors[c] \subseteq DOMAIN actors'[c]
<1> DEFINE old == actors[c]
<1>1. PICK ids \in GetRemoteActorIDs(c, MAX_REMOTE_ACTORS),
           spawned \in SUBSET ActorId :
        /\ spawned \subseteq {a \in ids : PuppetsOf(c, a) = {}}
        /\ Addresses(c, spawned) # {}
        /\ LET at  == CHOOSE at \in Addresses(c, spawned) : TRUE
               new == [p \in {at[a] : a \in spawned} |->
                         Register(c, RemotePlayer, CHOOSE a \in spawned : at[a] = p, FALSE)]
           IN actors' = [actors EXCEPT ![c] = Kill(c, ids,
                [p \in DOMAIN old \cup DOMAIN new |->
                   IF p \in DOMAIN new THEN new[p] ELSE old[p]])]
  <2>1. PICK ids \in GetRemoteActorIDs(c, MAX_REMOTE_ACTORS) :
         \E spawned \in {some \in SUBSET {a \in ids : PuppetsOf(c, a) = {}} :
                          Addresses(c, some) # {}} :
           LET at  == CHOOSE at \in Addresses(c, spawned) : TRUE
               new == [p \in {at[a] : a \in spawned} |->
                         Register(c, RemotePlayer, CHOOSE a \in spawned : at[a] = p, FALSE)]
           IN actors' = [actors EXCEPT ![c] = Kill(c, ids,
                [p \in DOMAIN old \cup DOMAIN new |->
                   IF p \in DOMAIN new THEN new[p] ELSE old[p]])]
    BY DEF remote_actors_update
  <2>2. ids \subseteq ActorId
    BY ListedIds
  <2> QED
    BY <2>1, <2>2
<1> DEFINE at == CHOOSE at \in Addresses(c, spawned) : TRUE
           who(p) == CHOOSE a \in spawned : at[a] = p
           new == [p \in {at[a] : a \in spawned} |-> Register(c, RemotePlayer, who(p), FALSE)]
           both == [p \in DOMAIN old \cup DOMAIN new |->
                      IF p \in DOMAIN new THEN new[p] ELSE old[p]]
<1>2. /\ actors' = [actors EXCEPT ![c] = Kill(c, ids, both)]
      /\ \A a \in spawned : a \in ids /\ PuppetsOf(c, a) = {}
  BY <1>1
<1>3. at \in Addresses(c, spawned)
  BY <1>1
<1> HIDE DEF at
<1>4. /\ \A a \in spawned : at[a] \in Pointer \ DOMAIN old
      /\ \A a, b \in spawned : at[a] = at[b] => a = b
  BY <1>3 DEF Addresses
<1>5. \A p \in DOMAIN new : who(p) \in spawned /\ at[who(p)] = p
  OBVIOUS
<1> HIDE DEF who
<1>6. spawned \subseteq ActorId \ {EmptyId, uuid[c]}
  BY <1>2, ListedIds
<1>7. ListInv(c, old)
  BY DEF ActorsInv
<1>8. \A p \in DOMAIN new :
        /\ new[p] \in GameActor /\ new[p].kind = "remote" /\ ~new[p].is_owned_locally
        /\ new[p].pose = None /\ new[p].actor_id = who(p)
  BY <1>5, <1>6, SpawnedActors
<1>9. ASSUME NEW p \in DOMAIN new, NEW q \in DOMAIN old, old[q].kind = "remote"
      PROVE  old[q].actor_id # new[p].actor_id
  <2>1. PuppetsOf(c, who(p)) = {} /\ who(p) # EmptyId
    BY <1>2, <1>5, <1>6
  <2>2. ActorSyncGetNetworkId(old[q]) # who(p)
    BY <1>9, <2>1 DEF PuppetsOf, Puppets
  <2> QED
    BY <1>8, <2>1, <2>2 DEF ActorSyncGetNetworkId
<1>10. /\ DOMAIN new \subseteq Pointer \ DOMAIN old
       /\ new = [p \in DOMAIN new |-> new[p]]
       /\ \A p, q \in DOMAIN new : new[q].actor_id = new[p].actor_id => p = q
  <2>1. DOMAIN new = {at[a] : a \in spawned} /\ new = [p \in DOMAIN new |-> new[p]]
    OBVIOUS
  <2> HIDE DEF new
  <2>2. DOMAIN new \subseteq Pointer \ DOMAIN old
    BY <1>4, <2>1
  <2>3. \A p, q \in DOMAIN new : new[q].actor_id = new[p].actor_id => p = q
    BY <1>5, <1>8
  <2> QED
    BY <2>1, <2>2, <2>3
<1> HIDE DEF new
<1>11. NewPuppets(c, old, new)
  <2>1. \A p \in DOMAIN new : new[p].actor_id \in ActorId \ {EmptyId, uuid[c]}
    BY <1>5, <1>6, <1>8
  <2> QED
    BY <1>8, <1>9, <1>10, <2>1 DEF NewPuppets
<1> HIDE DEF old
<1>12. ListInv(c, both)
  BY <1>7, <1>11, ListWithPuppets
<1>13. DOMAIN old \subseteq DOMAIN both /\ DOMAIN Kill(c, ids, both) = DOMAIN both
  BY DEF Kill
<1> HIDE DEF both
<1>14. ActorsInv'
  BY <1>2, <1>12, KillKeeps, ListChanged
<1>15. DOMAIN actors = Conn /\ actors'[c] = Kill(c, ids, both)
  BY <1>2 DEF ActorsInv
<1> QED
  BY <1>13, <1>14, <1>15 DEF old

\* The actors that one part of the frame leaves
LEMMA UpdateKeeps ==
  ASSUME NEW c \in Conn, NEW old, ListInv(c, old), NEW drawn
  PROVE  ListInv(c, AfterUpdate(old, drawn))
<1> DEFINE list == AfterUpdate(old, drawn)
<1>1. /\ DOMAIN list \subseteq DOMAIN old /\ list = [p \in DOMAIN list |-> list[p]]
      /\ \A p \in DOMAIN list :
           list[p] = old[p] \/ list[p] = [old[p] EXCEPT !.life = "destroyed"]
  BY DEF AfterUpdate
<1>2. \A p \in DOMAIN old : old[p] \in GameActor
  BY MapValue DEF ListInv
<1> HIDE DEF list
<1>3. \A p \in DOMAIN list :
        /\ list[p] \in GameActor
        /\ list[p].kind = old[p].kind /\ list[p].actor_id = old[p].actor_id
        /\ list[p].is_owned_locally = old[p].is_owned_locally
        /\ list[p].pose = old[p].pose
  <2> TAKE p \in DOMAIN list
  <2>1. CASE list[p] = old[p]
    BY <1>1, <1>2, <2>1
  <2>2. CASE list[p] = [old[p] EXCEPT !.life = "destroyed"]
    BY <1>1, <1>2, <2>2 DEF GameActor
  <2> QED
    BY <1>1, <2>1, <2>2
<1> QED
  BY <1>1, <1>3, ListKept DEF list

\* An actor takes a pose of the player it stands for.
LEMMA PosedKeeps ==
  ASSUME ActorsInv, NEW c \in Conn, NEW p \in DOMAIN actors[c], NEW pose \in Data,
         Fits(c, actors[c][p], pose),
         actors' = [actors EXCEPT ![c][p].pose = pose]
  PROVE  ActorsInv'
<1> DEFINE old == actors[c]
           posed == [old[p] EXCEPT !.pose = pose]
           list == [old EXCEPT ![p] = posed]
<1>1. ListInv(c, old) /\ DOMAIN actors = Conn
  BY DEF ActorsInv
<1>2. actors' = [actors EXCEPT ![c] = list]
  OBVIOUS
<1>3. \A q \in DOMAIN old : old[q] \in GameActor
  BY <1>1, MapValue DEF ListInv
<1>4. /\ posed \in GameActor /\ posed.kind = old[p].kind /\ posed.actor_id = old[p].actor_id
      /\ posed.is_owned_locally = old[p].is_owned_locally /\ posed.pose = pose
  <2> DEFINE x == old[p]
  <2>1. x \in GameActor
    BY <1>3
  <2> HIDE DEF x
  <2>2. LET y == [x EXCEPT !.pose = pose]
        IN /\ y \in GameActor /\ y.kind = x.kind /\ y.actor_id = x.actor_id
           /\ y.is_owned_locally = x.is_owned_locally /\ y.pose = pose
    BY <2>1 DEF GameActor
  <2> QED
    BY <2>2 DEF x
<1> HIDE DEF posed
<1>5. /\ DOMAIN list = DOMAIN old /\ list = [q \in DOMAIN list |-> list[q]]
      /\ \A q \in DOMAIN list : list[q] = IF q = p THEN posed ELSE old[q]
  <2>1. old = [q \in DOMAIN old |-> old[q]]
    BY <1>1 DEF ListInv, IsMap
  <2> QED
    BY <2>1
<1> HIDE DEF list
<1>6. \A q \in DOMAIN list :
        /\ list[q] \in GameActor
        /\ list[q].kind = old[q].kind /\ list[q].actor_id = old[q].actor_id
        /\ list[q].is_owned_locally = old[q].is_owned_locally
        /\ list[q].pose = old[q].pose \/ Fits(c, old[q], list[q].pose)
  BY <1>3, <1>4, <1>5
<1>7. ListInv(c, list)
  BY <1>1, <1>5, <1>6, ListKept
<1> QED
  BY <1>2, <1>7, ListChanged

\* No step gives a game a second puppet for an actor.
LEMMA ActorsStep ==
  ASSUME RuntimeInv, ActorsInv, FrameInv, PlayerIdInv, [GameNext]_allVars
  PROVE  ActorsInv'
<1>1. ASSUME UNCHANGED actors PROVE ActorsInv'
  BY <1>1 DEF ActorsInv
<1>2. ASSUME NEW c \in Conn, PlayerInit(c) PROVE ActorsInv'
  <2>1. ASSUME NEW p \in Pointer, NEW new \in GameActor, new.kind = "player",
               new.is_owned_locally => new.actor_id = uuid[c] /\ new.pose \in OwnPoses(c),
               actors' = [actors EXCEPT ![c] = Insert(actors[c], p, new)]
        PROVE  ActorsInv'
    <3>1. ListInv(c, Insert(actors[c], p, new))
      BY <2>1, ListWithPlayer DEF ActorsInv
    <3> QED
      BY <2>1, <3>1, ListChanged
  <2>2. PICK p \in Pointer : OnPlayerInit(c, p) \/ DemoPlayerInit(c, p)
    BY <1>2, PointerAssumption DEF PlayerInit
  <2>3. CASE OnPlayerInit(c, p)
    <3>1. actors' = [actors EXCEPT ![c] = Insert(actors[c], p,
            Register(c, Spawned("player", StartPose[c]), local_player_id[c], TRUE))]
      BY <2>3 DEF OnPlayerInit, SpawnRegistered
    <3> QED
      BY <2>1, <3>1, RegisteredPlayer
  <2>4. CASE DemoPlayerInit(c, p)
    <3>1. actors' = [actors EXCEPT ![c] =
            Insert(actors[c], p, Spawned("player", StartPose[c]))]
      BY <2>4 DEF DemoPlayerInit
    <3> QED
      BY <2>1, <3>1, SpawnedActors
  <2> QED
    BY <2>2, <2>3, <2>4
<1>3. ASSUME NEW c \in Conn, PlayFrame(c) PROVE ActorsInv'
  <2>1. CASE on_play_main(c)
    BY <1>1, <2>1, PuppetsUpdate DEF on_play_main
  <2>2. CASE ProcessRemoteIds(c)
    BY <1>1, <2>2 DEF ProcessRemoteIds, ListRemoteActors
  <2>3. CASE ProcessRemoteData(c)
    <3>1. PICK p \in visiting[c] : ApplyRemoteData(c, p)
      BY <2>3 DEF ProcessRemoteData
    <3>2. PICK data : /\ data = GetRemoteActorData(c, actors[c][p].actor_id)
                      /\ actors' = IF data = None THEN actors
                                   ELSE [actors EXCEPT ![c][p].pose = data]
      BY <3>1 DEF ApplyRemoteData
    <3>3. p \in DOMAIN actors[c] /\ ~actors[c][p].is_owned_locally
      BY DEF FrameInv
    <3> DEFINE a == actors[c][p].actor_id
    <3>4. data # None => /\ a \in DOMAIN remote_actors[c]
                         /\ data = remote_actors[c][a].data
      BY <3>2 DEF GetRemoteActorData
    <3> HIDE DEF a
    <3>5. ASSUME data # None PROVE data \in Data /\ Fits(c, actors[c][p], data)
      <4>1. remote_actors[c] \in HonestMap
        BY DEF RuntimeInv
      <4>2. PICK o \in Conn : a = uuid[o] /\ data \in OwnPoses(o) \cup {None}
        BY <3>4, <3>5, <4>1, HonestActors
      <4>3. \A d \in Conn : a = uuid[d] => data \in OwnPoses(d)
        BY <3>5, <4>2, UuidAssumption
      <4> QED
        BY <3>3, <3>5, <4>2, <4>3, PosesAreData DEF Fits, a
    <3> QED
      BY <1>1, <3>2, <3>3, <3>5, PosedKeeps
  <2>4. CASE ActorsUpdate(c)
    <3>1. PICK drawn : actors' = [actors EXCEPT ![c] = AfterUpdate(actors[c], drawn)]
      BY <2>4 DEF ActorsUpdate
    <3>2. ListInv(c, AfterUpdate(actors[c], drawn))
      BY UpdateKeeps DEF ActorsInv
    <3> QED
      BY <3>1, <3>2, ListChanged
  <2> QED
    BY <1>3, <2>1, <2>2, <2>3, <2>4 DEF PlayFrame, Frame
<1>4. ASSUME NEW c \in Conn, actors' = [actors EXCEPT ![c] = EmptyMap] PROVE ActorsInv'
  BY <1>4, EmptyList, ListChanged
<1>5. ASSUME NEW c \in Conn, PlayerActs(c) PROVE ActorsInv'
  <2>1. CASE OnFileSelect_LoadGame(c)
    BY <1>1, <2>1 DEF OnFileSelect_LoadGame, actorVars
  <2>2. CASE LeaveScene(c)
    BY <1>4, <2>2 DEF LeaveScene
  <2>3. ASSUME NEW pose \in Data, Move(c, pose) PROVE ActorsInv'
    <3>1. PICK p \in DOMAIN actors[c] :
            /\ actors[c][p].kind = "player"
            /\ actors' = [actors EXCEPT ![c][p].pose = pose]
      BY <2>3 DEF Move
    <3>2. Fits(c, actors[c][p], pose)
      BY <2>3, <3>1, PosesAreData DEF Move, Fits
    <3> QED
      BY <3>1, <3>2, PosedKeeps
  <2> QED
    BY <1>5, <2>1, <2>2, <2>3 DEF PlayerActs
<1>6. ASSUME NEW c \in Conn,
             \/ Load(c) \/ Dispatch(c) \/ NotifyDisconnect(c) \/ Cleanup(c)
             \/ Welcome(c) \/ Receive(c)
      PROVE  ActorsInv'
  BY <1>1, <1>6 DEF Load, on_play_init, Dispatch, NotifyDisconnect, Cleanup, Welcome, Receive,
     gameVars, actorVars
<1>7. ASSUME NEW c \in Conn, Quit(c) PROVE ActorsInv'
  BY <1>4, <1>7 DEF Quit
<1>8. CASE UNCHANGED allVars
  BY <1>1, <1>8 DEF allVars, gameVars, actorVars
<1> QED
  BY <1>2, <1>3, <1>5, <1>6, <1>7, <1>8 DEF GameNext

---------------------------------------------------------------------------
(* The frame *)

\* While actors are visited, no actor leaves the list.
LEMMA FrameStep ==
  ASSUME RuntimeInv, ActorsInv, FrameInv, [GameNext]_allVars
  PROVE  FrameInv'
<1>1. /\ DOMAIN visiting = Conn /\ DOMAIN where = Conn /\ DOMAIN todo = Conn
      /\ DOMAIN actors = Conn
      /\ \A c \in Conn :
           /\ \A p \in visiting[c] : p \in DOMAIN actors[c] /\ ~actors[c][p].is_owned_locally
           /\ visiting[c] # {} => where[c] = "frame" /\ "remote" \notin todo[c]
  BY DEF FrameInv, ActorsInv
<1>2. ASSUME UNCHANGED <<visiting, where, todo, actors>> PROVE FrameInv'
  BY <1>1, <1>2 DEF FrameInv
\* One game changes, and visits nothing.
<1>3. ASSUME NEW c \in Conn,
             DOMAIN visiting' = Conn, visiting'[c] = {},
             DOMAIN where' = Conn, DOMAIN todo' = Conn,
             \A d \in Conn : d # c =>
               /\ visiting'[d] = visiting[d] /\ where'[d] = where[d] /\ todo'[d] = todo[d]
               /\ actors'[d] = actors[d]
      PROVE  FrameInv'
  BY <1>1, <1>3 DEF FrameInv
<1>4. ASSUME NEW c \in Conn, PlayerInit(c) PROVE FrameInv'
  <2>1. PICK p, new : /\ SpawnPlayer(c) /\ UNCHANGED visiting
                      /\ actors' = [actors EXCEPT ![c] = Insert(actors[c], p, new)]
    <3>1. ASSUME NEW p, OnPlayerInit(c, p) \/ DemoPlayerInit(c, p)
          PROVE  \E new : /\ SpawnPlayer(c) /\ UNCHANGED visiting
                          /\ actors' = [actors EXCEPT ![c] = Insert(actors[c], p, new)]
      BY <3>1 DEF OnPlayerInit, DemoPlayerInit, SpawnRegistered
    <3> QED
      BY <1>4, <3>1 DEF PlayerInit
  <2>2. visiting[c] = {}
    BY <1>1, <2>1 DEF SpawnPlayer
  <2> QED
    BY <1>1, <1>3, <2>1, <2>2 DEF SpawnPlayer
<1>5. ASSUME NEW c \in Conn, PlayFrame(c) PROVE FrameInv'
  <2>1. CASE on_play_main(c)
    <3>1. /\ todo' = [todo EXCEPT ![c] = @ \ {"puppets"}] /\ UNCHANGED <<visiting, where>>
          /\ visiting[c] = {} /\ (UNCHANGED actors \/ remote_actors_update(c))
      BY <2>1 DEF on_play_main, Does
    <3>2. \A d \in Conn : d # c => actors'[d] = actors[d]
      BY <1>1, <3>1 DEF remote_actors_update
    <3> QED
      BY <1>1, <1>3, <2>1, <3>1, <3>2 DEF on_play_main, Does
  <2>2. CASE ProcessRemoteIds(c)
    <3>1. PICK ids : visiting' = [visiting EXCEPT ![c] =
            {p \in DOMAIN actors[c] :
               /\ actors[c][p].category \in sSyncedActorCategories[c]
               /\ actors[c][p].is_synced
               /\ ~actors[c][p].is_owned_locally
               /\ ActorSyncGetNetworkId(actors[c][p]) \in ids}]
      BY <2>2 DEF ProcessRemoteIds, ListRemoteActors
    <3>2. \A p \in visiting'[c] : p \in DOMAIN actors[c] /\ ~actors[c][p].is_owned_locally
      BY <1>1, <3>1
    <3>3. \A d \in Conn : d # c => visiting'[d] = visiting[d]
      BY <1>1, <3>1
    <3>4. /\ UNCHANGED <<where, actors>> /\ where[c] = "frame"
          /\ todo' = [todo EXCEPT ![c] = @ \ {"remote"}]
      BY <2>2 DEF ProcessRemoteIds, ListRemoteActors, Does
    <3>5. DOMAIN visiting' = Conn
      BY <1>1, <3>1
    <3> QED
      BY <1>1, <3>2, <3>3, <3>4, <3>5 DEF FrameInv
  <2>3. CASE ProcessRemoteData(c)
    <3>1. PICK p \in visiting[c] : ApplyRemoteData(c, p)
      BY <2>3 DEF ProcessRemoteData
    <3>2. visiting' = [visiting EXCEPT ![c] = @ \ {p}] /\ UNCHANGED <<where, todo>>
      BY <2>3, <3>1 DEF ApplyRemoteData, ProcessRemoteData, modVars
    <3>3. \A d \in Conn : \A q \in DOMAIN actors[d] :
            q \in DOMAIN actors'[d]
              /\ actors'[d][q].is_owned_locally = actors[d][q].is_owned_locally
      <4>1. PICK data : actors' = IF data = None THEN actors
                                  ELSE [actors EXCEPT ![c][p].pose = data]
        BY <3>1 DEF ApplyRemoteData
      <4>2. CASE data = None
        BY <4>1, <4>2
      <4>3. CASE data # None
        <5> DEFINE posed == [actors[c][p] EXCEPT !.pose = data]
        <5>1. p \in DOMAIN actors[c] /\ actors[c][p] \in GameActor
          BY <1>1, MapValue DEF ActorsInv, ListInv
        <5>2. posed.is_owned_locally = actors[c][p].is_owned_locally
          BY <5>1 DEF GameActor
        <5>3. /\ \A d \in Conn : DOMAIN actors'[d] = DOMAIN actors[d]
              /\ \A d \in Conn : \A q \in DOMAIN actors[d] :
                   actors'[d][q] = IF d = c /\ q = p THEN posed ELSE actors[d][q]
          BY <1>1, <4>1, <4>3
        <5> HIDE DEF posed
        <5> QED
          BY <5>2, <5>3
      <4> QED
        BY <4>2, <4>3
    <3> QED
      BY <1>1, <3>2, <3>3 DEF FrameInv
  <2>4. CASE ActorsUpdate(c)
    <3>1. PICK list : /\ actors' = [actors EXCEPT ![c] = list] /\ visiting[c] = {}
                      /\ todo' = [todo EXCEPT ![c] = AllOfFrame] /\ UNCHANGED <<visiting, where>>
      BY <2>4 DEF ActorsUpdate
    <3> QED
      BY <1>1, <1>3, <3>1
  <2> QED
    BY <1>5, <2>1, <2>2, <2>3, <2>4 DEF PlayFrame, Frame
<1>6. ASSUME NEW c \in Conn, PlayerActs(c) PROVE FrameInv'
  <2>1. CASE OnFileSelect_LoadGame(c)
    BY <1>2, <2>1 DEF OnFileSelect_LoadGame, actorVars
  <2>2. CASE LeaveScene(c)
    <3>1. visiting[c] = {}
      BY <1>1, <2>2 DEF LeaveScene, AllOfFrame
    <3> QED
      BY <1>1, <1>3, <2>2, <3>1 DEF LeaveScene
  <2>3. ASSUME NEW pose \in Data, Move(c, pose) PROVE FrameInv'
    <3>1. PICK p \in DOMAIN actors[c] : actors' = [actors EXCEPT ![c][p].pose = pose]
      BY <2>3 DEF Move
    <3>2. visiting[c] = {} /\ UNCHANGED <<visiting, where, todo>>
      BY <1>1, <2>3 DEF Move, AllOfFrame, modVars
    <3> QED
      BY <1>1, <1>3, <3>1, <3>2
  <2> QED
    BY <1>6, <2>1, <2>2, <2>3 DEF PlayerActs
<1>7. ASSUME NEW c \in Conn, Load(c) PROVE FrameInv'
  <2>1. /\ where[c] = "menu" /\ where' = [where EXCEPT ![c] = "loading"]
        /\ UNCHANGED <<visiting, actors, todo>>
    BY <1>7 DEF Load, on_play_init, actorVars
  <2> QED
    BY <1>1, <1>3, <2>1
<1>8. ASSUME NEW c \in Conn, Quit(c) PROVE FrameInv'
  BY <1>1, <1>3, <1>8 DEF Quit
<1>9. ASSUME NEW c \in Conn,
             Dispatch(c) \/ NotifyDisconnect(c) \/ Cleanup(c) \/ Welcome(c) \/ Receive(c)
      PROVE  FrameInv'
  BY <1>2, <1>9 DEF Dispatch, NotifyDisconnect, Cleanup, Welcome, Receive, gameVars, actorVars,
     modVars
<1>10. CASE UNCHANGED allVars
  BY <1>2, <1>10 DEF allVars, gameVars, actorVars, modVars
<1> QED
  BY <1>4, <1>5, <1>6, <1>7, <1>8, <1>9, <1>10 DEF GameNext

\* A game keeps the one id it generated.
LEMMA PlayerIdStep ==
  ASSUME PlayerIdInv, [GameNext]_allVars
  PROVE  PlayerIdInv'
<1>1. CASE UNCHANGED local_player_id
  BY <1>1 DEF PlayerIdInv
<1>2. ASSUME NEW c \in Conn, NEW id \in {None, uuid[c]},
             local_player_id' = [local_player_id EXCEPT ![c] = id]
      PROVE  PlayerIdInv'
  BY <1>2 DEF PlayerIdInv
<1>3. ASSUME NEW c \in Conn, PlayerInit(c) PROVE PlayerIdInv'
  <2>1. ASSUME NEW p, OnPlayerInit(c, p) PROVE PlayerIdInv'
    <3> DEFINE player == Register(c, Spawned("player", StartPose[c]), local_player_id[c], TRUE)
    <3>1. ActorSyncGetNetworkId(player) \in {None, uuid[c]}
      BY RegisteredPlayer DEF ActorSyncGetNetworkId
    <3>2. local_player_id' = [local_player_id EXCEPT ![c] = ActorSyncGetNetworkId(player)]
      BY <2>1 DEF OnPlayerInit
    <3> QED
      BY <1>2, <3>1, <3>2
  <2>2. ASSUME NEW p, DemoPlayerInit(c, p) PROVE UNCHANGED local_player_id
    BY <2>2 DEF DemoPlayerInit
  <2> QED
    BY <1>1, <1>3, <2>1, <2>2 DEF PlayerInit
<1>4. ASSUME NEW c \in Conn, PlayFrame(c) PROVE UNCHANGED local_player_id
  BY <1>4 DEF PlayFrame, Frame, on_play_main, ProcessRemoteIds, ProcessRemoteData, ActorsUpdate,
     Does, modVars
<1>5. ASSUME NEW c \in Conn, Quit(c) PROVE PlayerIdInv'
  BY <1>2, <1>5 DEF Quit
<1>6. ASSUME NEW c \in Conn,
             \/ Load(c) \/ PlayerActs(c) \/ Dispatch(c) \/ NotifyDisconnect(c) \/ Cleanup(c)
             \/ Welcome(c) \/ Receive(c)
      PROVE  UNCHANGED local_player_id
  BY <1>6 DEF Load, on_play_init, PlayerActs, OnFileSelect_LoadGame, LeaveScene, Move, Dispatch,
     NotifyDisconnect, Cleanup, Welcome, Receive, gameVars, modVars
<1>7. CASE UNCHANGED allVars
  BY <1>1, <1>7 DEF allVars, gameVars, modVars
<1> QED
  BY <1>1, <1>3, <1>4, <1>5, <1>6, <1>7 DEF GameNext

---------------------------------------------------------------------------
(* What the games ask of the server *)

\* Handling a request keeps connections, and changes the session of its
\* sender only.
LEMMA HandlingKeeps ==
  ASSUME NEW c \in Conn, c \in DOMAIN connections, Dispatch(c)
  PROVE  /\ DOMAIN connections' = DOMAIN connections
         /\ \A d \in DOMAIN connections : d # c => connections'[d] = connections[d]
<1>1. CASE UNCHANGED connections
  BY <1>1
<1>2. ASSUME NEW s, Server!join_session(c, s)
      PROVE  /\ DOMAIN connections' = DOMAIN connections
             /\ \A d \in DOMAIN connections : d # c => connections'[d] = connections[d]
  <2>1. connections' = Server!Insert(connections, c, s)
    BY <1>2 DEF Server!join_session
  <2> QED
    BY <2>1 DEF Server!Insert
<1>3. \/ UNCHANGED connections
      \/ \E s \in SessionId : Server!join_session(c, s)
  BY DEF Dispatch, Server!register_actor, Server!update_actor, Server!create_actor, serverVars
<1> QED
  BY <1>1, <1>2, <1>3

\* A request that is added to others is behind them.
LEMMA AddedAreBehind ==
  ASSUME NEW c \in Conn, up[c] \in Seq(SentBy(c)), NEW q \in Seq(Speaks(c)),
         NEW i \in DOMAIN (up[c] \o q), (up[c] \o q)[i].kind = "join"
  PROVE  i \in DOMAIN up[c] /\ (up[c] \o q)[i] = up[c][i]
<1> DEFINE l == Len(up[c])
           k == Len(q)
<1>1. q \in Seq(SentBy(c)) /\ \A j \in DOMAIN q : q[j].kind # "join"
  BY SpokenIsSent
<1>2. /\ l \in Nat /\ k \in Nat /\ DOMAIN up[c] = 1..l /\ DOMAIN q = 1..k
      /\ DOMAIN (up[c] \o q) = 1..(l + k)
      /\ (up[c] \o q)[i] = IF i <= l THEN up[c][i] ELSE q[i - l]
  BY <1>1, ConcatProperties, LenProperties
<1>3. i \in 1..(l + k)
  BY <1>2
<1>4. CASE i <= l
  BY <1>2, <1>3, <1>4
<1>5. CASE ~(i <= l)
  <2>1. i - l \in 1..k
    BY <1>2, <1>3, <1>5
  <2> QED
    BY <1>1, <1>2, <1>5, <2>1
<1> QED
  BY <1>4, <1>5

\* A game asks to join once, when its connection has just been registered.
LEMMA AskStep ==
  ASSUME UpInv, ActorsInv, PlayerIdInv, AskInv, [GameNext]_allVars
  PROVE  AskInv'
<1>1. /\ DOMAIN up = Conn /\ DOMAIN link = Conn /\ DOMAIN has_connected = Conn
      /\ \A c \in Conn : /\ Asks(c) /\ up[c] \in Seq(SentBy(c))
                         /\ ~has_connected[c] => up[c] = <<>> /\ ~Connected(c)
  BY DEF UpInv, AskInv
<1>2. ASSUME UNCHANGED <<up, has_connected, link, connections>> PROVE AskInv'
  BY <1>1, <1>2 DEF AskInv, Asks, Connected, Server!InSession
\* One game and its connection change.
<1>3. ASSUME NEW c \in Conn, Asks(c)',
             \A d \in Conn : d # c =>
               /\ up'[d] = up[d] /\ has_connected'[d] = has_connected[d] /\ link'[d] = link[d]
               /\ d \in DOMAIN connections' <=> d \in DOMAIN connections
               /\ d \in DOMAIN connections => connections'[d] = connections[d]
      PROVE  AskInv'
  <2>1. ASSUME NEW d \in Conn, d # c PROVE Asks(d)'
    BY <1>1, <1>3, <2>1 DEF Asks, Connected, Server!InSession
  <2> QED
    BY <1>3, <2>1 DEF AskInv
<1>4. ASSUME NEW c \in Conn, Load(c) PROVE AskInv'
  <2>1. CASE (AlreadyConnected(c) \/ ConnectFails(c)) /\ UNCHANGED <<serverVars, link>>
    BY <1>2, <2>1 DEF AlreadyConnected, ConnectFails, runtimeVars, serverVars
  <2>2. CASE ConnectAndJoin(c) /\ Server!register_connection(c) /\ Goto(c, "accepted")
    <3>1. PICK s : up' = [up EXCEPT ![c] = up[c] \o <<JoinRequest(s)>>]
      BY <2>2 DEF ConnectAndJoin, join_session, Send
    <3>2. up[c] = <<>> /\ has_connected' = [has_connected EXCEPT ![c] = TRUE]
      BY <1>1, <2>2 DEF ConnectAndJoin
    <3>3. up'[c] = <<JoinRequest(s)>> /\ DOMAIN up'[c] = {1}
      BY <1>1, <3>1, <3>2
    <3>4. link' = [link EXCEPT ![c] = "accepted"]
      BY <2>2 DEF Goto
    <3>5. /\ DOMAIN connections' = DOMAIN connections \cup {c} /\ connections'[c] = None
          /\ \A d \in Conn : d # c /\ d \in DOMAIN connections => connections'[d] = connections[d]
      BY <2>2 DEF Server!register_connection, Server!Insert
    <3>6. Asks(c)'
      BY <1>1, <3>2, <3>3, <3>4, <3>5 DEF Asks, Connected, Server!InSession
    <3>7. ASSUME NEW d \in Conn, d # c PROVE Asks(d)'
      BY <1>1, <3>1, <3>2, <3>4, <3>5, <3>7 DEF Asks, Connected, Server!InSession
    <3> QED
      BY <3>6, <3>7 DEF AskInv
  <2> QED
    BY <1>4, <2>1, <2>2 DEF Load
<1>5. ASSUME NEW c \in Conn, PlayerInit(c) \/ PlayFrame(c) PROVE AskInv'
  <2>1. SendsOwn(c) /\ UNCHANGED <<link, has_connected, connections>>
    <3>1. UNCHANGED connections
      BY <1>5 DEF PlayerInit, PlayFrame, serverVars
    <3> QED
      BY <1>5, <3>1, FramesSend
  <2>2. CASE UNCHANGED up
    BY <1>2, <2>1, <2>2
  <2>3. ASSUME NEW q \in Seq(Speaks(c)), up' = [up EXCEPT ![c] = up[c] \o q] PROVE AskInv'
    <3>1. up'[c] = up[c] \o q /\ \A d \in Conn : d # c => up'[d] = up[d]
      BY <1>1, <2>3
    <3>2. \A i \in DOMAIN up'[c] :
            up'[c][i].kind = "join" => i \in DOMAIN up[c] /\ up[c][i].kind = "join"
      BY <1>1, <3>1, AddedAreBehind
    <3>3. Asks(c)'
      BY <1>1, <2>1, <3>2 DEF Asks, Connected, Server!InSession
    <3> QED
      BY <1>3, <2>1, <3>1, <3>3
  <2> QED
    BY <2>1, <2>2, <2>3 DEF SendsOwn
<1>6. ASSUME NEW c \in Conn, Dispatch(c) PROVE AskInv'
  <2>1. /\ Connected(c) /\ up[c] # <<>> /\ up' = [up EXCEPT ![c] = Tail(up[c])]
        /\ UNCHANGED <<link, has_connected>>
    BY <1>6 DEF Dispatch, modVars
  <2>2. c \in DOMAIN connections
    BY <1>1, <2>1 DEF Asks, Connected
  <2>3. /\ DOMAIN connections' = DOMAIN connections
        /\ \A d \in DOMAIN connections : d # c => connections'[d] = connections[d]
    BY <1>6, <2>2, HandlingKeeps
  <2>4. \A i \in DOMAIN up'[c] : up'[c][i].kind # "join"
    <3>1. up'[c] = Tail(up[c]) /\ up[c] \in Seq(SentBy(c))
      BY <1>1, <2>1
    <3>2. ASSUME NEW i \in DOMAIN Tail(up[c])
          PROVE  i + 1 \in DOMAIN up[c] /\ i + 1 # 1 /\ Tail(up[c])[i] = up[c][i + 1]
      <4> DEFINE l == Len(up[c])
      <4>1. /\ l \in Nat /\ DOMAIN up[c] = 1..l /\ DOMAIN Tail(up[c]) = 1..(l - 1)
            /\ Tail(up[c])[i] = up[c][i + 1]
        BY <2>1, <3>1, <3>2, HeadTailProperties, LenProperties
      <4> HIDE DEF l
      <4> QED
        BY <3>2, <4>1
    <3> QED
      BY <1>1, <3>1, <3>2 DEF Asks
  <2>5. Asks(c)'
    BY <1>1, <2>1, <2>3, <2>4 DEF Asks, Connected
  <2> QED
    BY <1>1, <1>3, <2>1, <2>3, <2>5
<1>7. ASSUME NEW c \in Conn, Quit(c) PROVE AskInv'
  <2>1. /\ Connected(c) /\ link' = [link EXCEPT ![c] = "closing"]
        /\ up' = [up EXCEPT ![c] = <<>>]
        /\ has_connected' = [has_connected EXCEPT ![c] = FALSE]
        /\ UNCHANGED connections
    BY <1>7 DEF Quit, Goto, serverVars
  <2>2. up'[c] = <<>> /\ DOMAIN up'[c] = {}
    BY <1>1, <2>1
  <2>3. Asks(c)'
    BY <1>1, <2>1, <2>2 DEF Asks, Connected
  <2> QED
    BY <1>1, <1>3, <2>1, <2>3
<1>8. ASSUME NEW c \in Conn, NotifyDisconnect(c) \/ Welcome(c) PROVE AskInv'
  <2>1. UNCHANGED <<up, has_connected, connections>>
    BY <1>8 DEF NotifyDisconnect, Welcome, process_welcome, gameVars, runtimeVars, modVars,
       serverVars
  <2>2. \/ link[c] = "closing" /\ link' = [link EXCEPT ![c] = "notified"]
        \/ link[c] = "accepted" /\ link' = [link EXCEPT ![c] = "welcomed"]
    BY <1>8 DEF NotifyDisconnect, Welcome, Goto
  <2>3. Asks(c)'
    BY <1>1, <2>1, <2>2 DEF Asks, Connected, Server!InSession
  <2> QED
    BY <1>1, <1>3, <2>1, <2>2, <2>3
<1>9. ASSUME NEW c \in Conn, Cleanup(c) PROVE AskInv'
  <2>1. /\ link[c] = "notified" /\ link' = [link EXCEPT ![c] = "done"]
        /\ UNCHANGED <<up, has_connected>>
        /\ connections' = Server!RemoveKey(connections, c)
    BY <1>9 DEF Cleanup, Goto, gameVars, runtimeVars, modVars, Server!remove_connection
  <2>2. /\ DOMAIN connections' = DOMAIN connections \ {c}
        /\ \A d \in Conn : d # c /\ d \in DOMAIN connections => connections'[d] = connections[d]
    BY <2>1 DEF Server!RemoveKey, Server!Restrict
  <2>3. ~has_connected[c] /\ up[c] = <<>>
    BY <1>1, <2>1 DEF Asks, Connected
  <2>4. Asks(c)'
    BY <1>1, <2>1, <2>2, <2>3 DEF Asks, Connected
  <2>5. ASSUME NEW d \in Conn, d # c PROVE Asks(d)'
    BY <1>1, <2>1, <2>2, <2>5 DEF Asks, Connected, Server!InSession
  <2> QED
    BY <2>4, <2>5 DEF AskInv
<1>10. ASSUME NEW c \in Conn, PlayerActs(c) \/ Receive(c) PROVE AskInv'
  BY <1>2, <1>10 DEF PlayerActs, OnFileSelect_LoadGame, LeaveScene, Move, Receive, process_sync,
     runtimeVars, modVars, serverVars
<1>11. CASE UNCHANGED allVars
  BY <1>2, <1>11 DEF allVars, gameVars, runtimeVars, modVars, serverVars
<1> QED
  BY <1>4, <1>5, <1>6, <1>7, <1>8, <1>9, <1>10, <1>11 DEF GameNext

\* A step of the games is a critical section of the server that a task of its
\* own would take, or none.
LEMMA StepUsesServer ==
  ASSUME UpInv, AskInv, [GameNext]_allVars
  PROVE  [Server!StateNext]_Server!stateVars
<1> USE DEF Server!stateVars
<1>1. ASSUME UNCHANGED serverVars PROVE UNCHANGED Server!stateVars
  BY <1>1 DEF serverVars
<1>2. ASSUME NEW c \in Conn, Load(c) PROVE Server!StateNext \/ UNCHANGED serverVars
  BY <1>2 DEF Load, Server!StateNext
<1>3. ASSUME NEW c \in Conn, Cleanup(c) PROVE Server!StateNext
  <2>1. c \in DOMAIN connections
    BY <1>3 DEF AskInv, Asks, Cleanup
  <2> QED
    BY <1>3, <2>1 DEF Cleanup, Server!Section, Server!StateNext
<1>4. ASSUME NEW c \in Conn, Dispatch(c) PROVE Server!StateNext \/ UNCHANGED serverVars
  <2> DEFINE req == Head(up[c])
  <2>1. req \in SentBy(c) /\ c \in DOMAIN connections
    BY <1>4, FirstRequest DEF Dispatch, AskInv, Asks, Connected
  <2>2. req.kind = "join" => Server!InSession(c, None)
    <3>1. up[c] \in Seq(SentBy(c)) /\ up[c] # <<>>
      BY <1>4 DEF UpInv, Dispatch
    <3>2. 1 \in DOMAIN up[c] /\ req = up[c][1]
      BY <3>1
    <3> QED
      BY <3>2 DEF AskInv, Asks
  <2>3. PICK s \in SessionId :
          \/ req = JoinRequest(s) /\ Server!join_session(c, s)
          \/ /\ req.kind = "register"
             /\ UNCHANGED serverVars \/ Server!register_actor(c, s, req.actor)
          \/ /\ req.kind = "update"
             /\ \/ Server!update_actor(c, s, req.actor, req.data)
                \/ Server!create_actor(c, s, req.actor, req.data)
    BY <1>4 DEF Dispatch
  <2> HIDE DEF req
  <2>4. uuid[c] \in ActorId /\ OwnPoses(c) \subseteq Data
    BY UuidAssumption, PosesAreData
  <2>5. CASE req = JoinRequest(s) /\ Server!join_session(c, s)
    <3>1. Server!MayJoin(c, s)
      BY <2>2, <2>5 DEF JoinRequest, Server!MayJoin
    <3> QED
      BY <2>1, <2>5, <3>1 DEF Server!Section, Server!StateNext
  <2>6. CASE req.kind = "register" /\ Server!register_actor(c, s, req.actor)
    BY <2>1, <2>4, <2>6, SentFields DEF Server!Section, Server!StateNext
  <2>7. CASE /\ req.kind = "update"
             /\ \/ Server!update_actor(c, s, req.actor, req.data)
                \/ Server!create_actor(c, s, req.actor, req.data)
    <3>1. req.actor \in ActorId /\ req.data \in Data
      BY <2>1, <2>4, <2>7, SentFields
    <3> QED
      BY <2>1, <2>7, <3>1 DEF Server!Section, Server!StateNext
  <2> QED
    BY <2>3, <2>5, <2>6, <2>7
<1>5. ASSUME NEW c \in Conn,
             \/ PlayerInit(c) \/ PlayFrame(c) \/ PlayerActs(c) \/ Quit(c)
             \/ NotifyDisconnect(c) \/ Welcome(c) \/ Receive(c)
      PROVE  UNCHANGED serverVars
  BY <1>5 DEF PlayerInit, PlayFrame, PlayerActs, Quit, NotifyDisconnect, Welcome, Receive
<1>6. CASE UNCHANGED allVars
  BY <1>1, <1>6 DEF allVars
<1> QED
  BY <1>1, <1>2, <1>3, <1>4, <1>5, <1>6 DEF GameNext

---------------------------------------------------------------------------
(* The games *)

LEMMA InitGameInv ==
  ASSUME GameInit
  PROVE  GameInv
<1>1. /\ ModInit /\ ActorSyncInit /\ Init /\ Server!StateInit
      /\ link = [c \in Conn |-> "none"] /\ snapshots = [c \in Conn |-> {}]
  BY DEF GameInit, ModInit
<1>2. RuntimeInv
  <2>1. DOMAIN EmptyMap = {}
    BY DEF EmptyMap
  <2> QED
    BY <1>1, <2>1, HonestEmpty DEF Init, RuntimeInv
<1>3. UpInv
  <2>1. \A S : <<>> \in Seq(S) /\ Len(<<>>) = 0
    OBVIOUS
  <2>2. \A c \in Conn : /\ up[c] \in Seq(SentBy(c)) /\ Len(up[c]) <= MaxUp[c] + 1
                        /\ up[c] = <<>> /\ ~connected[c] /\ ~Connected(c)
    <3> TAKE c \in Conn
    <3>1. up[c] = <<>> /\ ~connected[c] /\ link[c] = "none"
      BY <1>1 DEF Init
    <3>2. up[c] \in Seq(SentBy(c)) /\ Len(up[c]) = 0
      BY <2>1, <3>1
    <3>3. Len(up[c]) <= MaxUp[c] + 1
      BY <3>2, SessionAssumption
    <3> QED
      BY <3>1, <3>2, <3>3 DEF Connected
  <2> QED
    BY <1>1, <2>2 DEF Init, ModInit, UpInv
<1>4. ActorsInv
  BY <1>1, EmptyList DEF ActorSyncInit, ActorsInv
<1>5. FrameInv /\ PlayerIdInv
  BY <1>1 DEF ActorSyncInit, ModInit, FrameInv, PlayerIdInv
<1>6. SessionInv
  <2>1. State!StateInit
    BY <1>1, HonestEmpty DEF Server!StateInit, State!StateInit
  <2>2. State!IndInv
    BY <2>1, State!InitIndInv, ServerAssumption
  <2>3. session_actors = EmptyMap /\ DOMAIN EmptyMap = {}
    BY <2>1, HonestEmpty DEF State!StateInit, EmptyMap
  <2> QED
    BY <1>1, <2>2, <2>3 DEF SessionInv
<1>7. AskInv
  <2>1. connections = EmptyMap /\ DOMAIN EmptyMap = {}
    BY <1>1, HonestEmpty DEF Server!StateInit, EmptyMap
  <2>2. ASSUME NEW c \in Conn PROVE Asks(c)
    <3>1. link[c] = "none" /\ ~has_connected[c] /\ up[c] = <<>>
      BY <1>1, <2>2 DEF ModInit, Init
    <3> QED
      BY <2>1, <3>1 DEF Asks
  <2> QED
    BY <2>2 DEF AskInv
<1> QED
  BY <1>2, <1>3, <1>4, <1>5, <1>6, <1>7 DEF GameInv

LEMMA NextGameInv ==
  ASSUME GameInv, [GameNext]_allVars
  PROVE  GameInv'
  BY RuntimeStep, UpStep, ActorsStep, FrameStep, PlayerIdStep, SessionStep, AskStep DEF GameInv

\* The inductive invariant
THEOREM GameInvHolds == GameSpec => []GameInv
<1>1. GameInit => GameInv
  BY InitGameInv
<1>2. GameInv /\ [GameNext]_allVars => GameInv'
  BY NextGameInv
<1> QED
  BY <1>1, <1>2, PTL DEF GameSpec

\* The state stays of its type, with any number of games: above all the frame
\* visits only actors that are still in the list, though its calls of the
\* runtime come between two of them (ActorSyncProcessRemoteData).
THEOREM GameTypeCorrect == GameSpec => []GameTypeOK
<1>1. GameInv => GameTypeOK
  <2> SUFFICES ASSUME GameInv PROVE GameTypeOK
    OBVIOUS
  <2>1. \A c \in Conn :
          /\ IsMap(actors[c], Pointer, GameActor)
          /\ visiting[c] \subseteq DOMAIN actors[c]
          /\ local_player_id[c] \in {None, uuid[c]}
          /\ Len(up[c]) <= MaxUp[c] + 1
    BY DEF GameInv, ActorsInv, ListInv, FrameInv, PlayerIdInv, UpInv
  <2>2. Server!StateTypeOK
    <3>1. State!StateTypeOK
      BY DEF GameInv, SessionInv, State!IndInv
    <3> QED
      BY <3>1, SameActors DEF State!StateTypeOK, Server!StateTypeOK, State!IsMap, Server!IsMap
  <2> QED
    BY <2>1, <2>2 DEF GameTypeOK, GameInv, UpInv
<1> QED
  BY <1>1, GameInvHolds, PTL

\* Whatever the runtime replaces between the calls of a frame, a puppet shows no
\* pose but those of the player it stands for (ActorSyncProcessRemoteData).
THEOREM OwnPosesOnly == GameSpec => []PosesAreTheirs
<1>1. GameInv => PosesAreTheirs
  <2> SUFFICES ASSUME GameInv, NEW c \in Conn, NEW d \in Conn, NEW p \in PuppetsOf(d, uuid[c])
               PROVE  actors[d][p].pose \in OwnPoses(c) \cup {None}
    BY DEF PosesAreTheirs
  <2>1. ListInv(d, actors[d]) /\ p \in DOMAIN actors[d] /\ actors[d][p].kind = "remote"
    BY DEF GameInv, ActorsInv, PuppetsOf, Puppets
  <2>2. actors[d][p].actor_id = uuid[c]
    BY PointerAssumption, UuidAssumption DEF PuppetsOf, ActorSyncGetNetworkId
  <2> QED
    BY <2>1, <2>2 DEF ListInv, Fits
<1> QED
  BY <1>1, GameInvHolds, PTL

\* However snapshots overtake each other, no actor of another game has two
\* puppets, and the game's own player has none (remote_actors_update).
THEOREM OnePuppet == GameSpec => []OnePuppetPerActor
<1>1. GameInv => OnePuppetPerActor
  <2> SUFFICES ASSUME GameInv, NEW c \in Conn
               PROVE  /\ \A p, q \in Puppets(c) :
                           actors[c][p].actor_id = actors[c][q].actor_id => p = q
                      /\ PuppetsOf(c, uuid[c]) = {}
    BY DEF OnePuppetPerActor
  <2>1. ListInv(c, actors[c])
    BY DEF GameInv, ActorsInv
  <2>2. \A p, q \in Puppets(c) : actors[c][p].actor_id = actors[c][q].actor_id => p = q
    BY <2>1 DEF ListInv, Puppets
  <2>3. \A p \in Puppets(c) : actors[c][p].actor_id \in ActorId \ {EmptyId, uuid[c]}
    BY <2>1 DEF ListInv, Puppets
  <2>4. PuppetsOf(c, uuid[c]) = {}
    BY <2>3, PointerAssumption, UuidAssumption DEF PuppetsOf, ActorSyncGetNetworkId
  <2> QED
    BY <2>2, <2>4
<1> QED
  BY <1>1, GameInvHolds, PTL
---------------------------------------------------------------------------
(* What the server's theorems say of the games *)

\* The games use the server as its theorems suppose: they handle no request of
\* a connection that is not registered, and join a session only from none
\* (main.rs:747 and 763, mod.c:78).
THEOREM GamesUseServer == GameSpec => UsesServer
<1>1. GameInit => Server!StateInit
  BY DEF GameInit
<1>2. GameInv /\ [GameNext]_allVars => [Server!StateNext]_Server!stateVars
  BY StepUsesServer DEF GameInv
<1> QED
  BY <1>1, <1>2, GameInvHolds, PTL DEF GameSpec, UsesServer, Server!StateSpec

\* The specification of the server is that of its theorems.
LEMMA SameSteps ==
  /\ Server!StateInit <=> State!StateInit
  /\ [Server!StateNext]_Server!stateVars => [State!StateNext]_State!stateVars
<1>1. Server!StateInit <=> State!StateInit
  BY HonestEmpty DEF Server!StateInit, State!StateInit
<1>2. ASSUME UNCHANGED Server!stateVars PROVE UNCHANGED State!stateVars
  BY <1>2 DEF Server!stateVars, State!stateVars
<1>3. ASSUME NEW c \in Conn, Server!register_connection(c) PROVE State!StateNext
  BY <1>3, SameServer DEF State!StateNext
<1>4. ASSUME NEW c \in Conn, Server!Section(c) PROVE State!StateNext
  <2> SUFFICES State!Section(c)
    BY DEF State!StateNext
  <2>1. c \in DOMAIN connections
    BY <1>4 DEF Server!Section
  <2>2. CASE Server!remove_connection(c)
    BY <2>1, <2>2, SameServer DEF State!Section
  <2>3. ASSUME NEW scene \in Scene, Server!handle_update_state(c, scene) PROVE State!Section(c)
    <3>1. State!handle_update_state(c, scene)
      BY <2>3, SameServer
    <3> QED
      BY <2>1, <3>1 DEF State!Section
  <2>4. ASSUME NEW s \in SessionId,
               \/ Server!MayJoin(c, s) /\ Server!join_session(c, s)
               \/ Server!leave_session(c, s)
        PROVE  State!Section(c)
    <3>1. \/ State!MayJoin(c, s) /\ State!join_session(c, s)
          \/ State!leave_session(c, s)
      BY <2>4, SameServer
    <3> QED
      BY <2>1, <3>1 DEF State!Section
  <2>5. ASSUME NEW s \in SessionId, NEW a \in ActorId, Server!register_actor(c, s, a)
        PROVE  State!Section(c)
    <3>1. State!register_actor(c, s, a)
      BY <2>5, SameServer
    <3> QED
      BY <2>1, <3>1 DEF State!Section
  <2>6. ASSUME NEW s \in SessionId, NEW a \in ActorId, NEW d \in Data,
               Server!update_actor(c, s, a, d) \/ Server!create_actor(c, s, a, d)
        PROVE  State!Section(c)
    <3>1. /\ Server!update_actor(c, s, a, d) => State!update_actor(c, s, a, d)
          /\ Server!create_actor(c, s, a, d) => State!create_actor(c, s, a, d)
      BY SameServer
    <3>2. State!update_actor(c, s, a, d) \/ State!create_actor(c, s, a, d)
      BY <2>6, <3>1
    <3> QED
      BY <2>1, <3>2 DEF State!Section
  <2> QED
    BY <1>4, <2>2, <2>3, <2>4, <2>5, <2>6 DEF Server!Section
<1> QED
  BY <1>1, <1>2, <1>3, <1>4 DEF Server!StateNext

LEMMA GamesTakeServerSteps == GameSpec => State!StateSpec
  BY GamesUseServer, SameSteps, PTL DEF UsesServer, Server!StateSpec, State!StateSpec

\* In a session of games, nothing on the server outlives its game: the tables
\* agree on who is in the session (main.rs:49 and 51), and the owner of every
\* actor is connected.  The steps from which `MembershipAgrees` fails, a client
\* that joins a second session, are none of the games'.
THEOREM GamesLeaveNothing ==
  GameSpec => [](Server!MembershipAgrees /\ Server!OwnersAreConnected)
<1>1. State!StateSpec => []State!MembershipAgrees
  BY State!DisciplinedMembership, ServerAssumption
<1>2. State!StateSpec => []State!OwnersAreConnected
  BY State!DisciplinedOwners, ServerAssumption
<1>3. State!MembershipAgrees => Server!MembershipAgrees
  BY SameServer DEF State!MembershipAgrees, Server!MembershipAgrees
<1>4. State!OwnersAreConnected => Server!OwnersAreConnected
  BY DEF State!OwnersAreConnected, Server!OwnersAreConnected
<1> QED
  BY <1>1, <1>2, <1>3, <1>4, GamesTakeServerSteps, PTL

\* No snapshot or request out of turn takes a game's player over: on the server
\* it is the game's own until the game leaves (main.rs:386).
THEOREM PlayersStayTheirs == GameSpec => Server!OwnershipLasts
<1> DEFINE Kept == \A s \in SessionId, a \in ActorId :
              Server!HasActor(s, a) =>
                LET owner == session_actors[s][a].owner_id IN
                  \/ Server!HasActor(s, a)' /\ session_actors'[s][a].owner_id = owner
                  \/ ~Server!HasActor(s, a)' /\ owner \notin Server!get_session_members(s)'
<1>1. ASSUME GameInv, [GameNext]_allVars PROVE Kept
  <2> SUFFICES ASSUME NEW s \in SessionId, NEW a \in ActorId, Server!HasActor(s, a)
               PROVE  LET owner == session_actors[s][a].owner_id IN
                        \/ Server!HasActor(s, a)' /\ session_actors'[s][a].owner_id = owner
                        \/ ~Server!HasActor(s, a)' /\ owner \notin Server!get_session_members(s)'
    OBVIOUS
  <2>1. State!IndInv /\ [State!StateNext]_State!stateVars
    BY <1>1, StepUsesServer, SameSteps DEF GameInv, SessionInv
  <2>2. /\ Server!HasActor(s, a) <=> State!HasActor(s, a)
        /\ Server!HasActor(s, a)' <=> State!HasActor(s, a)'
    BY DEF Server!HasActor, State!HasActor
  <2>3. Server!get_session_members(s)' = State!get_session_members(s)'
    BY DEF Server!get_session_members, State!get_session_members, Server!GetOr, State!GetOr
  <2> QED
    BY <2>1, <2>2, <2>3, State!StepKeepsOwner, ServerAssumption
<1>2. GameInv /\ [GameNext]_allVars => [Kept]_Server!stateVars
  BY <1>1
<1> QED
  BY <1>2, GameInvHolds, PTL DEF GameSpec, Server!OwnershipLasts

\* Under games and runtimes, the server still implements exclusive ownership of
\* actors.
THEOREM GamesImplementOwnership == GameSpec => State!ImplementsOwnership
<1>1. State!StateSpec => State!ImplementsOwnership
  BY State!ServerImplementsOwnership, ServerAssumption
<1> QED
  BY <1>1, GamesTakeServerSteps, PTL
=============================================================================
