----------------------------- MODULE ActorSync -----------------------------
(***************************************************************************)
(* The actor synchronisation of the mod, network-sync/actor_sync.c, over   *)
(* the runtime of SyncClient: per game, the actors of the current scene    *)
(* with the network data the mod keeps beside each.                        *)
(*                                                                         *)
(* All of this runs on the game's thread.  An actor's position, rotation,  *)
(* joints, mask and shield are one value, its pose.                        *)
(***************************************************************************)
EXTENDS SyncClient

CONSTANTS
  Pointer,            \* addresses of actors
  EmptyId,            \* "", the id in fresh extension data
  uuid,               \* what NetworkSyncGenerateUUID returns in each game
  ACTORCAT_PLAYER,    \* the category of players and of their puppets
  MAX_SYNCED_ACTORS

\* No id is generated twice; a game of the test mod generates one.
ASSUME UuidAssumption ==
  /\ uuid \in [Conn -> ActorId \ {EmptyId}]
  /\ \A c, d \in Conn : uuid[c] = uuid[d] => c = d

ASSUME SlotsAssumption == MAX_SYNCED_ACTORS \in Nat

\* NULL is no id, and there is memory.
ASSUME PointerAssumption == None \notin ActorId /\ Pointer # {}

VARIABLES
  actors,                  \* the actor lists: address -> actor
  sSyncedActorCategories,  \* the categories with synced actors
  visiting                 \* the actors whose remote data is still to be got

actorVars == <<actors, sSyncedActorCategories, visiting>>

\* An actor as it is spawned; the game zeroes extension data.  life is what
\* Actor_Kill starts, see ActorsUpdate of TestMod.
Spawned(kind, pose) ==
  [kind |-> kind, category |-> ACTORCAT_PLAYER, life |-> "alive", pose |-> pose,
   actor_id |-> EmptyId, is_synced |-> FALSE, is_owned_locally |-> FALSE]

ActorSyncInit ==
  /\ actors = [c \in Conn |-> EmptyMap]
  /\ sSyncedActorCategories = [c \in Conn |-> {}]
  /\ visiting = [c \in Conn |-> {}]

---------------------------------------------------------------------------
\* None stands for NULL.
ActorSyncGetNetworkId(actor) ==
  IF actor.actor_id = EmptyId THEN None ELSE actor.actor_id

\* Mutation of Register: no id is generated for NULL.
Register_NoId(c, actor, playerId, isOwnedLocally) ==
  [actor EXCEPT !.is_synced = TRUE, !.is_owned_locally = isOwnedLocally,
                !.actor_id = playerId]

\* What ActorSyncRegister writes beside the actor: the id it is given, or a
\* new one for NULL.
Register(c, actor, playerId, isOwnedLocally) ==
  [actor EXCEPT !.is_synced = TRUE, !.is_owned_locally = isOwnedLocally,
                !.actor_id = IF playerId = None THEN uuid[c] ELSE playerId]

\* The runtime refuses before the welcome, and an actor it knows already; the
\* caller does not look at the result.
NetworkSyncRegisterActor(c, a) ==
  \/ register_actor(c, a)
  \/ /\ ~(connected[c] /\ Registrable(c, a))
     /\ UNCHANGED <<connected, client_id, current_session_id, remote_actors, local_actors,
                    message_queue, up>>

\* ActorSyncRegister of a new actor at p.
SpawnRegistered(c, p, actor, playerId, isOwnedLocally) ==
  LET registered == Register(c, actor, playerId, isOwnedLocally) IN
  /\ actors' = [actors EXCEPT ![c] = Insert(@, p, registered)]
  /\ sSyncedActorCategories' = [sSyncedActorCategories EXCEPT ![c] = @ \cup {actor.category}]
  /\ isOwnedLocally => NetworkSyncRegisterActor(c, registered.actor_id)
  /\ UNCHANGED visiting

\* Mutation of Sends: an actor the runtime did not register is not sent.
Sends_Registered(c, p) ==
  /\ actors[c][p].is_synced /\ actors[c][p].is_owned_locally
  /\ actors[c][p].actor_id \in local_actors[c]

\* ActorSyncUpdate of the actor at p, after each update of an actor.
Sends(c, p) == actors[c][p].is_synced /\ actors[c][p].is_owned_locally

\* An update is sent unless the runtime refuses it, before the welcome or for
\* an actor of another client.
ActorSyncUpdate(c, p) ==
  \E actor \in {actors[c][p]} :
    \/ send_actor_update(c, actor.actor_id, actor.pose)
    \/ /\ ~connected[c] \/ actor.actor_id \in DOMAIN remote_actors[c]
       /\ UNCHANGED <<connected, client_id, current_session_id, remote_actors, local_actors,
                      message_queue, up>>

\* ActorSyncProcessRemoteData gets the ids of the remote actors; the synced
\* actors with one of them that are not owned here are to be updated.
ListRemoteActors(c) ==
  /\ \E ids \in GetRemoteActorIDs(c, MAX_SYNCED_ACTORS) :
       visiting' = [visiting EXCEPT ![c] =
         {p \in DOMAIN actors[c] :
            /\ actors[c][p].category \in sSyncedActorCategories[c]
            /\ actors[c][p].is_synced
            /\ ~actors[c][p].is_owned_locally
            /\ ActorSyncGetNetworkId(actors[c][p]) \in ids}]
  /\ UNCHANGED <<actors, sSyncedActorCategories>>

\* It gets the data of each in a call of its own.  In between, the runtime's
\* thread may have replaced the remote actors.
ApplyRemoteData(c, p) ==
  /\ p \in visiting[c]
  /\ \E data \in {GetRemoteActorData(c, actors[c][p].actor_id)} :
       actors' = IF data = None THEN actors
                 ELSE [actors EXCEPT ![c][p].pose = data]
  /\ visiting' = [visiting EXCEPT ![c] = @ \ {p}]
  /\ UNCHANGED sSyncedActorCategories
=============================================================================
