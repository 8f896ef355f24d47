---------------------------- MODULE GameSession ----------------------------
(***************************************************************************)
(* Games with the test mod in one session: what their players see of each  *)
(* other.  TestMod, ActorSync and SyncClient are the games, ServerState    *)
(* is the server.                                                          *)
(*                                                                         *)
(* A connection carries requests up in order.  A request is handled in one *)
(* step, snapshots it sends included; but snapshots reach a runtime in any *)
(* order, since in the server their sends overtake each other (see         *)
(* SyncServer).  A snapshot sent twice counts once.  The channel does not  *)
(* overflow, and no message is emitted: for these see SyncServer and       *)
(* MessageSystem.                                                          *)
(***************************************************************************)
EXTENDS TestMod

CONSTANTS
  Scene, NoScene,  \* see ServerState
  MaxUp,         \* bound on the requests under way of each game
  MaxSnapshots,  \* bound on the snapshots under way to each game
  MayQuit        \* the games that may end

ASSUME SessionAssumption ==
  MaxUp \in [Conn -> Nat] /\ MaxSnapshots \in [Conn -> Nat] /\ MayQuit \subseteq Conn

\* That of ServerState
ASSUME ServerAssumption == None \notin SessionId /\ None \notin Data /\ None \notin Conn

VARIABLES
  connections, sessions, client_metadata, session_actors, issued,  \* see ServerState
  link,       \* the connection of each game, see below
  snapshots   \* the snapshots under way to each game

\* The server, as it is used by clients that leave a session before they join
\* another
Server == INSTANCE ServerState WITH SwitchWithoutLeaving <- FALSE

serverVars == <<connections, sessions, client_metadata, session_actors, issued>>
gameVars   == <<runtimeVars, actorVars, modVars>>
allVars    == <<gameVars, serverVars, link, snapshots>>

GameInit ==
  /\ ModInit
  /\ Server!StateInit
  /\ link = [c \in Conn |-> "none"]
  /\ snapshots = [c \in Conn |-> {}]

---------------------------------------------------------------------------
(* The game's thread.  Sending waits for room. *)

HasRoom(c) == up'[c] # up[c] => Len(up[c]) < MaxUp[c]

Goto(c, label) == link' = [link EXCEPT ![c] = label]

Connected(c) == link[c] \in {"accepted", "welcomed"}

\* Mutation of Load: the connection is not registered before its requests are
\* read.
Load_Unregistered(c) ==
  /\ on_play_init(c)
  /\ \/ AlreadyConnected(c) /\ UNCHANGED link
     \/ ConnectFails(c) /\ UNCHANGED link
     \/ ConnectAndJoin(c) /\ Goto(c, "accepted")
  /\ UNCHANGED <<serverVars, snapshots>>

\* Loading a scene.  The server registers a connection before the client's
\* side of it is up.
Load(c) ==
  /\ on_play_init(c)
  /\ \/ AlreadyConnected(c) /\ UNCHANGED <<serverVars, link>>
     \/ ConnectFails(c) /\ UNCHANGED <<serverVars, link>>
     \/ ConnectAndJoin(c) /\ Server!register_connection(c) /\ Goto(c, "accepted")
  /\ UNCHANGED snapshots

PlayerInit(c) ==
  /\ \E p \in {CHOOSE p \in Pointer : TRUE} : OnPlayerInit(c, p) \/ DemoPlayerInit(c, p)
  /\ HasRoom(c)
  /\ UNCHANGED <<serverVars, link, snapshots>>

PlayFrame(c) ==
  /\ Frame(c)
  /\ HasRoom(c)
  /\ UNCHANGED <<serverVars, link, snapshots>>

PlayerActs(c) ==
  /\ \/ OnFileSelect_LoadGame(c) \/ LeaveScene(c)
     \/ \E pose \in Data : Move(c, pose)
  /\ UNCHANGED <<serverVars, link, snapshots>>

---------------------------------------------------------------------------
(* The server *)

\* The members that can still be reached get its actors.
Broadcast(members, actors_sent) ==
  LET reached == {m \in members : Connected(m)} IN
  /\ \A m \in reached : Cardinality(snapshots[m]) < MaxSnapshots[m]
  /\ snapshots' = [m \in Conn |->
       IF m \in reached THEN snapshots[m] \cup {actors_sent} ELSE snapshots[m]]

\* The server handles the next request of a connection.  What main.rs:346, 387
\* and 460 drop, requests outside a session and updates of another's actor, is
\* nothing these games send: they join first, and their ids are distinct.  Such
\* a request would wait for ever here.
Dispatch(c) ==
  /\ Connected(c)
  /\ up[c] # <<>>
  /\ up' = [up EXCEPT ![c] = Tail(@)]
  /\ \E req \in {Head(up[c])}, s \in SessionId :
       \/ /\ req = JoinRequest(s)
          /\ Server!join_session(c, s)
          /\ Broadcast(sessions'[s], session_actors'[s])
       \/ /\ req.kind = "register"
          /\ Server!InSession(c, s)
          /\ IF Server!HasActor(s, req.actor) THEN UNCHANGED serverVars
             ELSE Server!register_actor(c, s, req.actor)
          /\ UNCHANGED snapshots
       \/ /\ req.kind = "update"
          /\ Server!InSession(c, s)
          /\ IF Server!HasActor(s, req.actor)
             THEN Server!update_actor(c, s, req.actor, req.data)
             ELSE Server!create_actor(c, s, req.actor, req.data)
          /\ Broadcast(sessions'[s], session_actors'[s])
  /\ UNCHANGED <<connected, client_id, current_session_id, remote_actors, local_actors,
                 message_queue, actorVars, modVars, link>>

\* A game ends or crashes, and its memory goes with it.  What it sent and the
\* server has not read is lost.
Quit(c) ==
  /\ c \in MayQuit
  /\ Connected(c)
  /\ Goto(c, "closing")
  /\ snapshots' = [snapshots EXCEPT ![c] = {}]
  /\ where' = [where EXCEPT ![c] = "ended"]
  /\ connected'     = [connected EXCEPT ![c] = FALSE]
  /\ remote_actors' = [remote_actors EXCEPT ![c] = EmptyMap]
  /\ local_actors'  = [local_actors EXCEPT ![c] = {}]
  /\ up'       = [up EXCEPT ![c] = <<>>]
  /\ actors'   = [actors EXCEPT ![c] = EmptyMap]
  /\ visiting' = [visiting EXCEPT ![c] = {}]
  /\ todo'     = [todo EXCEPT ![c] = {}]
  /\ sSyncedActorCategories' = [sSyncedActorCategories EXCEPT ![c] = {}]
  /\ has_connected'   = [has_connected EXCEPT ![c] = FALSE]
  /\ has_loaded_save' = [has_loaded_save EXCEPT ![c] = FALSE]
  /\ local_player_id' = [local_player_id EXCEPT ![c] = None]
  /\ scenes'   = [scenes EXCEPT ![c] = 0]
  /\ failures' = [failures EXCEPT ![c] = 0]
  /\ UNCHANGED <<client_id, current_session_id, message_queue, serverVars>>

\* The notification with the actors as they are before the cleanup, and the
\* cleanup.
NotifyDisconnect(c) ==
  /\ link[c] = "closing"
  /\ Goto(c, "notified")
  /\ \/ \E s \in SessionId :
          /\ Server!InSession(c, s)
          /\ Broadcast(Server!get_session_members(s), session_actors[s])
     \/ (\A s \in SessionId : ~Server!InSession(c, s)) /\ UNCHANGED snapshots
  /\ UNCHANGED <<gameVars, serverVars>>

Cleanup(c) ==
  /\ link[c] = "notified"
  /\ Goto(c, "done")
  /\ Server!remove_connection(c)
  /\ UNCHANGED <<gameVars, snapshots>>

---------------------------------------------------------------------------
(* The runtime's thread *)

Welcome(c) ==
  /\ link[c] = "accepted"
  /\ process_welcome(c, c)
  /\ Goto(c, "welcomed")
  /\ UNCHANGED <<actorVars, modVars, serverVars, snapshots>>

Receive(c) ==
  /\ link[c] = "welcomed"
  /\ \E x \in snapshots[c] :
       /\ process_sync(c, x)
       /\ snapshots' = [snapshots EXCEPT ![c] = @ \ {x}]
  /\ UNCHANGED <<actorVars, modVars, serverVars, link>>

---------------------------------------------------------------------------
GameNext ==
  \E c \in Conn :
    \/ Load(c) \/ PlayerInit(c) \/ PlayFrame(c) \/ PlayerActs(c) \/ Quit(c)
    \/ Dispatch(c) \/ NotifyDisconnect(c) \/ Cleanup(c)
    \/ Welcome(c) \/ Receive(c)

GameSpec == GameInit /\ [][GameNext]_allVars

\* Frames go on, the server handles what it gets, and so does the runtime.
\* Nothing makes a player do anything.  A request waits while the bound on the
\* snapshots is reached, and its turn comes again and again.
FairGameSpec ==
  /\ GameSpec
  /\ \A c \in Conn :
       /\ WF_allVars(PlayFrame(c))
       /\ SF_allVars(Dispatch(c))
       /\ WF_allVars(NotifyDisconnect(c) \/ Cleanup(c))
       /\ WF_allVars(Welcome(c) \/ Receive(c))

---------------------------------------------------------------------------
(* Properties *)

GameActor ==
  [kind : {"player", "remote"}, category : {ACTORCAT_PLAYER},
   life : {"alive", "killed", "destroyed"}, pose : Data \cup {None},
   actor_id : ActorId \cup {EmptyId}, is_synced : BOOLEAN, is_owned_locally : BOOLEAN]

GameTypeOK ==
  /\ \A c \in Conn :
       /\ IsMap(actors[c], Pointer, GameActor)
       /\ visiting[c] \subseteq DOMAIN actors[c]
       /\ local_player_id[c] \in {None, uuid[c]}
       /\ Len(up[c]) <= MaxUp[c] + 1
  /\ link \in [Conn -> {"none", "accepted", "welcomed", "closing", "notified", "done"}]
  /\ Server!StateTypeOK

\* "Check if entity already has an actor" (mod.c:180): however snapshots
\* overtake each other and puppets linger after they are killed, no two actors
\* of a game stand for one actor of another, and none stands for the game's
\* own player.
OnePuppetPerActor ==
  \A c \in Conn :
    /\ \A p, q \in Puppets(c) : actors[c][p].actor_id = actors[c][q].actor_id => p = q
    /\ PuppetsOf(c, uuid[c]) = {}

\* The poses the player of c takes
OwnPoses(c) == {StartPose[c]} \cup Poses[c]

\* ActorSyncProcessRemoteData lists the ids, then gets the data of one actor
\* after the other (actor_sync.c:163-225), and test mod and server pass poses on
\* by id: though the remote actors are replaced meanwhile and there may be more
\* than the slots, no puppet ever shows a pose of another player than its own.
PosesAreTheirs ==
  \A c, d \in Conn : \A p \in PuppetsOf(d, uuid[c]) :
    actors[d][p].pose \in OwnPoses(c) \cup {None}

\* "Register connection" (main.rs:747) before the task is spawned, "On
\* disconnect, clean up" (main.rs:763) after it is over: whatever the games do
\* and wherever they end, the server is used as its own theorems suppose.  No
\* request is handled outside the time its connection is registered, and none
\* asks to join while the connection is in another session, though on_play_init
\* (mod.c:78) joins without waiting for the welcome or an earlier answer.
UsesServer == Server!StateSpec

\* A game that is in a scene, with a connection that is up
Watches(c) == where[c] = "frame" /\ Connected(c)

\* Its player is registered, and has this pose.
PlaysWith(c, pose) ==
  /\ Watches(c)
  /\ \E p \in DOMAIN actors[c] :
       actors[c][p].kind = "player" /\ actors[c][p].is_synced /\ actors[c][p].pose = pose

Plays(c) == \E pose \in Data : PlaysWith(c, pose)

\* d shows the player of c in this pose.
Shows(d, c, pose) ==
  \E p \in PuppetsOf(d, uuid[c]) :
    actors[d][p].life = "alive" /\ actors[d][p].pose = pose

\* "Synchronizing the player's position" and "Rendering remote player models"
\* (README.md:48-49): a player who keeps still is sooner or later where it is
\* in every other game, whether it was registered before the welcome or
\* after, and whatever old snapshots were under way.
PlayersMeet ==
  \A c, d \in Conn : \A pose \in Data :
    c # d => (<>[]PlaysWith(c, pose) /\ <>[]Watches(d) => <>[]Shows(d, c, pose))

\* "Check for entities that no longer exist and remove their actors"
\* (mod.c:208): the puppet of a player whose game ended is removed from every
\* game that plays on.  The server's last notification still lists the player;
\* what repairs it is the next update of any player.
GhostsVanish ==
  \A c, d \in Conn :
    c # d => (<>[](link[c] = "done") /\ <>[]Plays(d) => <>[](PuppetsOf(d, uuid[c]) = {}))
=============================================================================
