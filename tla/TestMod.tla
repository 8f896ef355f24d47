------------------------------ MODULE TestMod ------------------------------
(***************************************************************************)
(* A game with the test mod, network-sync-test/mod.c, on top of the mod:   *)
(* it connects and joins when the first scene is loaded, registers the     *)
(* player, and keeps one puppet for every actor of the other games.        *)
(*                                                                         *)
(* The game's thread loads a scene, runs frames and drops the scene.  A    *)
(* frame calls the on_play_main callbacks of both mods, in the order they  *)
(* were loaded in, and then updates the actors.  NS_LeaveSession is        *)
(* imported and never called.                                              *)
(***************************************************************************)
EXTENDS ActorSync

CONSTANTS
  MAX_REMOTE_ACTORS,
  StartPose,    \* the pose of the player of each game when a scene is loaded
  Poses,        \* the poses the player of each game takes
  TestModFirst, \* the games in which the test mod's callback is the first
  Saves,        \* the games in which a save may be loaded
  MaxScenes,    \* bound on the scenes each game loads
  MaxFailures   \* bound on the spawning that fails in each game

ASSUME TestModAssumption ==
  /\ MAX_REMOTE_ACTORS \in Nat
  /\ TestModFirst \subseteq Conn /\ Saves \subseteq Conn
  /\ MaxScenes \in [Conn -> Nat] /\ MaxFailures \in [Conn -> Nat]
  /\ StartPose \in [Conn -> Data] /\ Poses \in [Conn -> SUBSET Data]

VARIABLES
  has_connected,    \* whether NS_Connect succeeded
  has_loaded_save,  \* whether a save was loaded from the file select screen
  local_player_id,  \* the id of the local player; None: has_local_player is 0
  where,            \* what the game's thread is in: no scene, loading, a frame
  todo,             \* what is left of the frame
  scenes,           \* how many scenes were loaded
  failures          \* how often spawning failed

modVars == <<has_connected, has_loaded_save, local_player_id, where, todo, scenes, failures>>

runtimeVars ==
  <<connected, client_id, current_session_id, remote_actors, local_actors,
    message_queue, up>>

\* init_runtime
ModInit ==
  /\ Init
  /\ ActorSyncInit
  /\ has_connected   = [c \in Conn |-> FALSE]
  /\ has_loaded_save = [c \in Conn |-> FALSE]
  /\ local_player_id = [c \in Conn |-> None]
  /\ where    = [c \in Conn |-> "menu"]
  /\ todo     = [c \in Conn |-> {}]
  /\ scenes   = [c \in Conn |-> 0]
  /\ failures = [c \in Conn |-> 0]

Fails(c) == failures[c] < MaxFailures[c] /\ failures' = [failures EXCEPT ![c] = @ + 1]

---------------------------------------------------------------------------
(* Loading and leaving a scene *)

OnFileSelect_LoadGame(c) ==
  /\ c \in Saves /\ ~has_loaded_save[c]
  /\ where[c] = "menu"
  /\ has_loaded_save' = [has_loaded_save EXCEPT ![c] = TRUE]
  /\ UNCHANGED <<runtimeVars, actorVars, has_connected, local_player_id, where, todo,
                 scenes, failures>>

\* on_play_init, when a scene is loaded: until it succeeded, connecting is
\* tried again; joining does not wait for the welcome.
on_play_init(c) ==
  /\ where[c] = "menu"
  /\ scenes[c] < MaxScenes[c]
  /\ scenes' = [scenes EXCEPT ![c] = @ + 1]
  /\ where' = [where EXCEPT ![c] = "loading"]
  /\ UNCHANGED <<actorVars, has_loaded_save, local_player_id, todo>>

AlreadyConnected(c) ==
  /\ has_connected[c]
  /\ UNCHANGED <<runtimeVars, has_connected, failures>>

ConnectFails(c) ==
  /\ ~has_connected[c]
  /\ UNCHANGED <<runtimeVars, has_connected, failures>>

\* Joining fails only when the connection is broken again by then, and is not
\* tried again.  That failure is left out: here a connection breaks only with
\* its game, see GameSession.
ConnectAndJoin(c) ==
  /\ ~has_connected[c]
  /\ has_connected' = [has_connected EXCEPT ![c] = TRUE]
  /\ \E s \in SessionId : join_session(c, s)
  /\ UNCHANGED failures

AllOfFrame == {"puppets", "remote", "actors"}

\* The scene spawns its player.
SpawnPlayer(c) ==
  /\ where[c] = "loading"
  /\ where' = [where EXCEPT ![c] = "frame"]
  /\ todo' = [todo EXCEPT ![c] = AllOfFrame]
  /\ UNCHANGED <<has_connected, has_loaded_save, scenes, failures>>

\* Mutation of OnPlayerInit: only the first player is registered as owned.
OnPlayerInit_NotOwned(c, p) ==
  LET player == Spawned("player", StartPose[c]) IN
  /\ SpawnPlayer(c)
  /\ has_loaded_save[c]
  /\ SpawnRegistered(c, p, player, local_player_id[c], local_player_id[c] = None)
  /\ local_player_id[c] # None => UNCHANGED runtimeVars
  /\ local_player_id' = [local_player_id EXCEPT ![c] =
       ActorSyncGetNetworkId(Register(c, player, local_player_id[c], TRUE))]

\* OnPlayerInit at address p: the first player registers a new id, that of a
\* later scene is registered with the same.
OnPlayerInit(c, p) ==
  LET player == Spawned("player", StartPose[c]) IN
  /\ SpawnPlayer(c)
  /\ has_loaded_save[c]
  /\ SpawnRegistered(c, p, player, local_player_id[c], TRUE)
  /\ local_player_id' = [local_player_id EXCEPT ![c] =
       ActorSyncGetNetworkId(Register(c, player, local_player_id[c], TRUE))]

\* The player of the title screen is not registered.
DemoPlayerInit(c, p) ==
  /\ SpawnPlayer(c)
  /\ ~has_loaded_save[c]
  /\ actors' = [actors EXCEPT ![c] = Insert(@, p, Spawned("player", StartPose[c]))]
  /\ UNCHANGED <<runtimeVars, sSyncedActorCategories, visiting, local_player_id>>

\* Every actor goes with its scene.
LeaveScene(c) ==
  /\ where[c] = "frame" /\ todo[c] = AllOfFrame
  /\ where' = [where EXCEPT ![c] = "menu"]
  /\ todo' = [todo EXCEPT ![c] = {}]
  /\ actors' = [actors EXCEPT ![c] = EmptyMap]
  /\ UNCHANGED <<runtimeVars, sSyncedActorCategories, visiting, has_connected,
                 has_loaded_save, local_player_id, scenes, failures>>

---------------------------------------------------------------------------
(* A frame *)

\* part is what the frame does next, unless the last part is under way.
Does(c, part) ==
  /\ where[c] = "frame" /\ part \in todo[c] /\ visiting[c] = {}
  /\ todo' = [todo EXCEPT ![c] = @ \ {part}]
  /\ UNCHANGED <<runtimeVars, has_connected, has_loaded_save, local_player_id, where, scenes>>

\* A puppet as it is spawned, outside the scene and without a pose yet.
RemotePlayer == Spawned("remote", None)

Puppets(c) == {p \in DOMAIN actors[c] : actors[c][p].kind = "remote"}

\* Mutation of PuppetsOf: an actor that was killed is not looked at.
PuppetsOf_Alive(c, a) ==
  {p \in Puppets(c) : actors[c][p].life = "alive" /\ ActorSyncGetNetworkId(actors[c][p]) = a}

PuppetsOf(c, a) == {p \in Puppets(c) : ActorSyncGetNetworkId(actors[c][p]) = a}

\* The ways to give each of ids an address, none in use
Addresses(c, ids) ==
  {at \in [ids -> Pointer \ DOMAIN actors[c]] :
     \A a, b \in ids : at[a] = at[b] => a = b}

\* Mutation of Kill: nothing is killed while no remote actor is left.
Kill_NotTheLast(c, ids, list) ==
  [p \in DOMAIN list |->
    IF list[p].kind = "remote" /\ ids # {} /\ ActorSyncGetNetworkId(list[p]) \notin ids
       /\ list[p].life = "alive"
    THEN [list[p] EXCEPT !.life = "killed"] ELSE list[p]]

\* The second half of remote_actors_update: actors without an id in ids are
\* killed.
Kill(c, ids, list) ==
  [p \in DOMAIN list |->
    IF list[p].kind = "remote" /\ ActorSyncGetNetworkId(list[p]) \notin ids
       /\ list[p].life = "alive"
    THEN [list[p] EXCEPT !.life = "killed"] ELSE list[p]]

\* remote_actors_update: a puppet is spawned for every id that has none, and
\* one whose id is not listed is killed.  Spawning may fail, and does without
\* a free address; it is tried again in the next frame.
remote_actors_update(c) ==
  \E ids \in GetRemoteActorIDs(c, MAX_REMOTE_ACTORS) :
    LET missing == {a \in ids : PuppetsOf(c, a) = {}} IN
    \E spawned \in {some \in SUBSET missing : Addresses(c, some) # {}} :
      LET at  == CHOOSE at \in Addresses(c, spawned) : TRUE
          new == [p \in {at[a] : a \in spawned} |->
                    Register(c, RemotePlayer,
                             CHOOSE a \in spawned : at[a] = p, FALSE)]
      IN /\ actors' = [actors EXCEPT ![c] = Kill(c, ids,
              [p \in DOMAIN @ \cup DOMAIN new |-> IF p \in DOMAIN new THEN new[p] ELSE @[p]])]
         /\ sSyncedActorCategories' = [sSyncedActorCategories EXCEPT ![c] =
              IF spawned = {} THEN @ ELSE @ \cup {ACTORCAT_PLAYER}]
         /\ IF spawned = missing THEN UNCHANGED failures ELSE Fails(c)

\* The test mod's on_play_main
on_play_main(c) ==
  /\ c \notin TestModFirst => "remote" \notin todo[c]
  /\ Does(c, "puppets")
  /\ \/ has_connected[c] /\ remote_actors_update(c)
     \/ ~has_connected[c] /\ UNCHANGED <<actors, sSyncedActorCategories, failures>>
  /\ UNCHANGED visiting

\* The mod's on_play_main: the ids, then the data of each of them.
ProcessRemoteIds(c) ==
  /\ c \in TestModFirst => "puppets" \notin todo[c]
  /\ Does(c, "remote")
  /\ ListRemoteActors(c)
  /\ UNCHANGED failures

ProcessRemoteData(c) ==
  /\ \E p \in visiting[c] : ApplyRemoteData(c, p)
  /\ UNCHANGED <<runtimeVars, modVars>>

\* What Actor_Kill leaves to the next updates: a killed actor leaves the list
\* at once, or one frame later when it was being drawn.
AfterUpdate(list, drawn) ==
  [p \in {p \in DOMAIN list : list[p].life = "alive" \/ p \in drawn} |->
    IF p \in drawn THEN [list[p] EXCEPT !.life = "destroyed"] ELSE list[p]]

\* The actors are updated, the player's pose is sent, and the frame ends.
ActorsUpdate(c) ==
  /\ where[c] = "frame" /\ todo[c] = {"actors"} /\ visiting[c] = {}
  /\ todo' = [todo EXCEPT ![c] = AllOfFrame]
  /\ \/ \E p \in DOMAIN actors[c] : Sends(c, p) /\ ActorSyncUpdate(c, p)
     \/ (\A p \in DOMAIN actors[c] : ~Sends(c, p)) /\ UNCHANGED runtimeVars
  /\ \E drawn \in SUBSET {p \in DOMAIN actors[c] : actors[c][p].life = "killed"} :
       actors' = [actors EXCEPT ![c] = AfterUpdate(@, drawn)]
  /\ UNCHANGED <<sSyncedActorCategories, visiting, has_connected, has_loaded_save,
                 local_player_id, where, scenes, failures>>

\* The player moves, any time between two frames.
Move(c, pose) ==
  /\ pose \in Poses[c]
  /\ where[c] = "frame" /\ todo[c] = AllOfFrame
  /\ \E p \in DOMAIN actors[c] :
       /\ actors[c][p].kind = "player"
       /\ actors[c][p].pose # pose
       /\ actors' = [actors EXCEPT ![c][p].pose = pose]
  /\ UNCHANGED <<runtimeVars, sSyncedActorCategories, visiting, modVars>>

Frame(c) == on_play_main(c) \/ ProcessRemoteIds(c) \/ ProcessRemoteData(c) \/ ActorsUpdate(c)
=============================================================================
