# A formal model of mm-network-sync

TLA+ modules, TLC configurations and TLAPS proofs for the network
synchronisation of this repository: the WebSocket session server
(`network-sync-server`), the runtime in the game (`network-sync-runtime`), the
messages between them (`network-sync-rs`), the mod that games call
(`network-sync`) and the test mod on top of it (`network-sync-test`). Every
definition is translated from the source; `PROJECT.json` maps each to its lines.

    tlc -config state_switching.cfg MCServerState     # check one configuration
    tlapm ServerStateProofs.tla                       # check one proof module

## 1. The system

| Component | Source | State | Operations |
|---|---|---|---|
| Session tables | `network-sync-server/src/main.rs` 47-162 | connection -> session, session -> members, session -> actor -> owner and data, connection -> scene; one mutex | register, remove, join, leave, register actor, update actor, update scene |
| Connection tasks | `main.rs` 164-771 | per connection: a serve task, a forward task with its receiver; one broadcast channel (capacity 100, rounded up to 128) | accept, handshake, six handlers, forward, disconnect notification, cleanup |
| Wire protocol | `network-sync-rs/src` | none | nine message types as JSON text |
| Client runtime | `network-sync-runtime/src/network.rs` | connected, client id, current session, remote actors, local actors, message queue; one mutex | calls of the game, handler of server messages |
| C interface | `network-sync-runtime/src/lib.rs`, `utils.rs` | the singleton | thirteen exported functions, copying to and from console memory |
| Message system | `network-sync/message_system.c` | table of 32 handlers | register, emit, empty the queue once a frame |
| Actor sync | `network-sync/actor_sync.c` | extension data per game actor, categories in use | register, send every actor's update, apply remote data |
| Exports, callbacks | `network-sync/exports.c`, `callbacks.c` | none | delegation; per-frame order |
| Test mod | `network-sync-test` | connected, local player's id, puppets | connect and join, register the player, spawn and kill puppets |

How they interact: the game calls the mod's C functions, which call the
runtime's; the runtime writes requests to its connection. The server's serve
task of that connection reads one request at a time, runs its critical section
under the mutex, takes a copy of the session (members and actors), **releases
the lock** and then sends that copy to each member in turn, through the one
broadcast channel every forward task receives from. A forward task writes to
its socket what is addressed to its connection. In the game, a thread of the
runtime's own handles what arrives, under the runtime's mutex.

What is hard here:

* **interleaving**: handlers of different connections, the forward tasks and the
  end of connections run on several threads; the order of critical sections is
  not the order of sends;
* **stale copies**: a handler's member list and actors are old when it sends
  them; the disconnect notification is taken before the cleanup;
* **overflow**: a receiver that falls behind the channel gets an error, which
  ends its forward task but not its connection;
* **partial failure**: a handshake that fails after the connection was
  registered; a send that fails after the tables were changed; a call that fails
  after it has registered an actor;
* **legal sequences of calls**: joining a second session without leaving the
  first; leaving with a snapshot still under way; registering outside a session;
  registering the player before the welcome, and again in every later scene;
* **two calls where one is meant**: the mod asks the runtime for the size of a
  message and then for the message, for the ids of the remote actors and then for
  the data of each; the runtime's thread works in between;
* **lingering actors**: a puppet that was killed stays in the game's actor list
  for one or two frames, with its network id.

What makes each component correct:

* tables: the two membership tables agree; every actor's owner is in the member
  list of its session, and is connected; ownership is exclusive and lasts until the owner
  leaves; an abandoned session is clean;
* tasks: the tables are touched only on behalf of registered connections;
  the members and actors of a snapshot belong together; texts keep the order of their sender; broken
  connections are cleaned up; members' views catch up with the session;
* runtime: its session is what the server will have once it has handled the
  requests under way; the server holds no actor for it that it does not know of;
  its updates create their actors whatever became of the registration;
  after leaving it sees nobody;
* message system: a message goes to the handler last registered for its name;
  handlers get the messages of each sender in order, once and whole; the queue is
  emptied again and again;
* actor sync and test mod: one puppet per remote actor, where that actor is, never
  where another is, and none for an actor that is gone.

## 2. Modules

    HashMap ── ServerState ── SyncServer ── NetworkSync ── MCNetworkSync
       │          │   │            │            │
       │ ActorOwnership│            │        SyncClient (INSTANCE)
       │    (INSTANCE) │            └─ MCSyncServer
       │               └─ MCServerState
       │
    SyncClient ─┬─ MessageSystem ── MCMessageSystem
                └─ ActorSync ── TestMod ── GameSession ── MCGameSession
                                                │
                                           ServerState (INSTANCE)

Proofs: `HashMapLemmas`; on it `ServerStateProofs`, then in a line
`OwnershipProofs`, `SyncServerProofs`, `WireProofs`, `NetworkSyncProofs`;
`GameSessionProofs` takes OwnershipProofs as an instance; `MessageSystemProofs`
stands alone.

**HashMap**: `std::collections::HashMap` as a function with its keys as domain.

**ServerState**: the tables and one action per critical section. A handler takes
the mutex around all its reads and writes, so its early returns are guards and
the section is atomic. `join_session`, `leave_session`, `remove_connection`,
`register_connection` and `handle_update_state` are the methods of the same
names; `register_actor`, `update_actor` and `create_actor` are the inserting
branches of `handle_register_actor` and `handle_actor_update`. The other
branches change nothing and are no actions here. `DropFromSession` is what
leaving does to the two session tables and is shared by leaving and removing.
`issued` is Uuid::new_v4's promise never to repeat an id. The constant
`SwitchWithoutLeaving` says whether clients may join a session while they are in
another: the server does not stop them.

**ActorOwnership**: what the server promises, without tables, locks or messages:
per session, who is present, who holds each actor, what its holder last wrote.

**SyncServer**: extends ServerState with the tasks. `pc` follows the task of a
connection:

    absent -Accept-> handshake -Handshake-> serving -EndOfStream-> closing
           -NotifyDisconnect-> notifying -Cleanup-> done
    handshake -HandshakeFails-> cleanup -Cleanup-> done

A handler is its critical section and, in the same action, the copy it takes,
put into `outbox`; then `SendOne` (or `SendFails`) takes one member at a time,
interleaved with everything else, before the loop reads the next request.
`Publish` is `tx.send`: the message enters the slice of the ring (`rx`) of every
receiver. `Forward` is the loop of a forward task, `wire` what it has written.
`posted`, `requests` and `issued` are history.

**SyncClient**: the runtime, one per connection, as functions indexed by the
connection. **NetworkSync** composes it with the server: `Dispatch` is the serve
loop reading the next request of the runtime, `Receive` the runtime handling the
next message of its connection, `GameStep` a call of the game.

**MessageSystem**: `message_system.c` in every game, extending SyncClient.
`MessageSystemRegisterHandler` and `MessageSystemEmit` are the calls that do
something; `where` follows the game's thread through the loop of
`MessageSystemProcessPending`:

    game -CheckPending-> sized -TakeMessage-> taken -CallHandler-> handler
    taken -DropMessage-> dropped;  handler, dropped -CheckPending-> sized or game

Each call of the loop takes the runtime's mutex by itself and is a step of its
own; `Hear` is the runtime's thread putting a message into the queue between any
two of them. In `handler` the game's code may register and emit. `up` is kept as
the log of what a game sent; what the server does with a text is `Hear`'s choice
(to pass it on or not, in the log's order), which is what `TextsInOrder` and
`NoHoles` of SyncServer allow.

**ActorSync**: `actor_sync.c`, extending SyncClient. An actor is a record with
the mod's extension data. `Register` is what `ActorSyncRegister` writes beside
the actor, `SpawnRegistered` the whole of it with the call of the runtime;
`ActorSyncUpdate` sends the pose; `ListRemoteActors` and `ApplyRemoteData` are
the two halves of `ActorSyncProcessRemoteData`, one step for the ids and one for
the data of each actor.

**TestMod**: a game with the test mod. `where` and `todo` follow the game's
thread: a scene is loaded (`on_play_init`), its player initialised
(`OnPlayerInit`, or `DemoPlayerInit` on the title screen), then frames of three
parts: the test mod's `on_play_main` (`remote_actors_update`), the mod's
(`ProcessRemoteIds`, `ProcessRemoteData`), and the update of the actors
(`ActorsUpdate`, which calls `on_actor_update`). Which mod's callback comes first
is a constant. `AfterUpdate` is the game's side of `Actor_Kill`: a killed actor
leaves the list in the next update, or one later when it was being drawn.

**GameSession** composes games of TestMod with the tables of ServerState (an
instance, with FALSE for `SwitchWithoutLeaving`, which `UsesServer` shows to be
right). A request is one step of the server, the snapshots it sends included;
they reach a game in any order, which is what the separate sends of SyncServer
amount to. `Quit` is the end of a game at any moment, with what it had sent and
the server had not read; `NotifyDisconnect` and `Cleanup` are the server's two
steps after it.

Abstractions, and why they are sound for the properties:

* The `Vec` of members is a set, so the order in which a snapshot is sent is
  arbitrary; the code uses the order of joining, which is one of these.
* Data, ids, sessions and scenes are members of small sets; no code compares
  data, and ids are only tested for equality (and for being empty, `EmptyId`).
* A receiver that overflows ends in the step that overflows it. In the code its
  next `recv` returns Lagged; it receives nothing in between.
* Accepting the WebSocket, sending the welcome and subscribing are one step: no
  message can be addressed to the connection before it has joined a session,
  which the serve loop handles after all three.
* `lost` is the moment the server can notice that the client is gone. Requests
  sent before may still be handled after it, and writes may succeed or fail.
* Registered messages carry their sender and its request count, so that two
  texts of one sender can be told apart. A payload is its size: no code of the
  repository looks into it.
* A pose stands for position, rotation, joints, mask and shield, which are always
  copied together. Puppets start without one.
* In GameSession, snapshots under way to a game are a set: one that was sent
  twice with the same content counts once. Receiving it twice in a row would
  change nothing the second time, but other orders of two equal snapshots around a
  third are among the orders of the set and its next elements.
* In TestMod, joining succeeds once connecting has. It fails only when the
  connection broke in between; the game then stays connected in its own eyes and
  never tries again (`mod.c` 98-104). In GameSession a connection breaks only with
  its game (`Quit`), so such a game is not in the model.
* GameSession's `Dispatch` has no branch for a request outside a session or an
  update of another's actor, which the server drops. These games join first and
  their ids are distinct, so neither comes up; if one did, it would stay in `up`
  for ever and the run would not have `PlayersMeet`. SyncServer and NetworkSync
  have these branches.
* A game's `up` that is full (`MaxUp`) makes the game wait, and a game with
  `MaxSnapshots` under way makes the server wait. The code waits in neither place;
  both bounds only delay.

## 3. What is checked

Safety and action properties, refinement and liveness, all on small instances.
Deadlock checking is off everywhere: clients are free to stop and requests are
bounded, so every instance may end.

| Run | Instance | Properties | What it shows |
|---|---|---|---|
| `state_switching` | 3 connections, 2 sessions, 2 actor ids; clients switch as they like | `StateTypeOK`, `OwnerIsMember`, `CurrentSessionListsIt`, `AbandonedSessionIsClean`, `OwnershipLasts`, `ImplementsOwnership` | ownership is exclusive and lasting whatever clients do |
| `sync_messages` | 2 connections, channel of 2, joins, leaves, updates, texts, 3 requests each | `SyncTypeOK`, `TextsInOrder`, `NoHoles`, `SnapshotsAreConsistent`, `SnapshotsNameTheirReceiver` | texts keep their order, are not repeated or echoed; an overrun cuts off a suffix only; the actors of a snapshot are owned by members it names (no connection breaks here), and it reaches only those |
| `sync_live` | 2 connections, no overflow, joins, registrations, texts; one breaks, handshakes fail, fair tasks; leave before join | `MembershipAgrees`, `OwnersAreConnected`, `UsesServerState`, `LostIsForgotten`, `PostedIsDelivered` | cleanup and delivery happen, and leave nothing of the connection in any table |
| `net_calls` | 2 runtimes, 2 sessions, every call, switching, channel of 2, up to 3 requests of one and 4 in all | `NetTypeOK`, `OwnedIsLocal`, `SessionFollowsRequests`, `SnapshotsAddNothing`, `UpdatesTakeEffect` | the runtime's optimistic session is right once its requests are handled; the server knows no actor of a runtime that the runtime does not, and tells it of none, however late; no update sent in a session is lost for want of a session or a registration |
| `messages` | 2 games, 3 names, tables of 2, messages with and without payload, 3 requests each | `MessageTypeOK`, `LatestHandlerIsCalled`, `AnnouncedSizeHolds`, `HandledInOrder`, `QueueIsEmptied` | from the emitting call to the handler: last handler, in order, whole, once; the loop does empty the queue |
| `game_session` | 2 games from the title screen to the end of one of them, one scene each | `GameTypeOK`, `OnePuppetPerActor`, `PlayersMeet`, `GhostsVanish`, `UsesServer` | players see each other where they are, once, and no longer when one is gone, even with its ghost in the server's last notification; every step is one that ServerState allows for clients that leave before they join |
| `game_scenes` | 2 games; the first loads two scenes and its player moves, the second watches and may fail to spawn | `OnePuppetPerActor`, `PlayersMeet` | the id outlives the scene, the last pose arrives although an older snapshot may arrive after a newer one |
| `game_three` | 3 games, one slot for remote actors in each, the third on the title screen | `OnePuppetPerActor`, `PosesAreTheirs` | with more players than slots the runtime's choice changes from call to call; puppets are killed and spawned again, each is one, and shows no pose but its own player's |

Bounds. Two members are enough for a snapshot to be overtaken and for
ownership to be contested; `state_switching` has three, since the tables alone
are small. With one session switching is joining the same name again, with two
it is moving. `MaxRequests` bounds the requests of one connection: join, act and
leave (or act twice) need three; where two are enough for every branch to be
taken, two are used. In `net_calls` three are needed by `UpdatesTakeEffect` (register
outside a session, which the server ignores; join; update), and `FewRequests`
bounds both clients' requests to four: 3 and 1, or 2 and 2. `Cap` is the channel's capacity: 1 to 3 where overflow
must happen (two joins already send three messages), 8 or 10, more than the
instance can send, where it must not. `net_*` use a
VIEW that drops the history `posted` and the messages a runtime has already
handled; no action of NetworkSync and none of its invariants reads them. No
connection breaks in them: the end of a connection is the server's business and
in the `sync_*` runs. The symmetric runs check invariants or step properties
only, and treat all connections alike; no liveness is checked under symmetry.

In `messages` a table of two is full with three names, so replacing, adding and
being refused all happen; g2 registers one name with two sizes and two handlers,
g1 one without payload. In the `game_*` runs three addresses allow a player, a
puppet and the spare that a killed puppet may need for a frame. One game may have
two snapshots under way, so that an older one can arrive last; the other has one.
`MaxScenes`, `MaxFailures` bound the scenes and the spawns that fail; connecting
may fail any number of times.

In `game_three` each player has a pose of its own and stands still. Every game sees
two others (the third sees both registered players, the first two see each
other), and one slot is less than the third one needs. The first two games are alike
but for their names: exchanging them together with their players' ids and poses is
the symmetry `Alike`. No definition chooses among what it permutes, because with
one slot at most one puppet is spawned at a time. A second puppet of one actor would need a
fourth address, so there are four.

Fairness. In `sync_live` and `sync_deaf`: weak fairness of each
connection's `Task` and `ForwardTask`. Every task is spawned on tokio's
multi-threaded runtime, which polls each task that was woken; a task waits only
for the mutex (held for a few map operations, never across an await), for its
socket or for its receiver. In `messages`: weak fairness of the loop; the game
runs it once a frame, and a handler returns. In the `game_*` runs: weak fairness
of a game's frames (a game that is in a scene goes on with its frames), of the
runtime's thread and of the end of a connection; strong fairness of the server's
`Dispatch`, only because the bound on snapshots under way disables it now and
then, which the code does not do. Nothing makes a client send, stay, load or
leave, and nothing makes the server accept a connection; so the liveness
properties of games speak of games that keep playing (`<>[]Watches`).

### Where the code does something else than it says

Each of these runs checks one statement of a comment, a log message or API.md,
and TLC shows how the code breaks it.

| Run | Statement | What happens |
|---|---|---|
| `state_ghost_owner` | "On disconnect, clean up" (`main.rs` 763) | a client that joins a second session without leaving the first stays in the first one's member list, and after its disconnect its actors there stay for ever |
| `sync_deaf` | "Sends a custom message to all other clients" (`API.md` 111) | one overflow, and the client is never sent anything again while it stays connected |
| `sync_ghost` | "Gets a list of connected remote player IDs" (`API.md` 75) | the last snapshot after a disconnect still lists the actors of the client that left |
| `net_left` | "Clear session state" (`network.rs` 117) | a snapshot under way fills the remote actors again |

More follow from the definitions without a run: `MembershipAgrees` fails on
the way to `state_ghost_owner` (it is checked for disciplined clients only);
`create_actor` accepts the empty actor id that registration rejects (`main.rs`
252 and 438); a registration is not broadcast, although `main.rs` 308 collects
the "updated actors and members for broadcast", so that other members learn of
the actor with its first update; and `NS_EmitMessage` returns 1 when it has sent
(`lib.rs` 317) as well as when it has not (`message_system.c` 67), where
`API.md` 117-118 documents 0 and 1.

`ViewHasNoGhosts` is about quiescent states of the server: no message under way,
no task with anything to do. A handler sends its snapshot after it has released
the lock, so an older snapshot may also be sent after a newer one and stay the
last one a member gets; GameSession lets snapshots arrive in any order for that
reason. `PlayersMeet` and `GhostsVanish` show what repairs both: a registered
player's game sends an update every frame, so that a newer snapshot follows.

## 4. What is proved

For every value of the constants that meets the named assumptions
(`NoneAssumption`, `ServerAssumption`: None is none of the values it stands beside;
`SwitchAssumption`, `CapAssumption`, `RequestsAssumption`, `HangUpAssumption`:
types; `MessageAssumption`: None is neither a handler nor a message, and what is
registered has the types of the call; `KindsAssumption`: the server reads every
kind of request the runtimes send; `PointerAssumption`: there is an address, and
None is no actor id; `SlotsAssumption`, `SessionAssumption`,
`TestModAssumption`: types and numbers; `UuidAssumption`: the ids the games
generate are distinct and not empty, which is what a UUID is for). No set is
assumed finite.

* **HashMapLemmas**: what insert, remove and lookup with a default keep and
  return.
* **ServerStateProofs**: the invariant is
  `IndInv == StateTypeOK /\ OwnerIsMember /\ CurrentSessionListsIt /\
  AbandonedSessionIsClean`. None of the last three is inductive alone. A new
  actor's owner is a member only because the connection's session lists it;
  removing a connection keeps the owners members only because leaving drops both
  at once; a session that empties is clean only because each actor left in it
  had a member for owner. Hence `TypeCorrect`, `OwnersAreMembers`,
  `SessionTableExists`, `NothingLeftBehind`. Under `~SwitchWithoutLeaving` the
  invariant is strengthened by `MembershipAgrees` and by the connected ids being
  issued ones (a fresh id is in no member list), which gives
  `DisciplinedMembership` and `DisciplinedOwners`.
* **OwnershipProofs**: `ServerImplementsOwnership`, the refinement of
  ActorOwnership under the mapping `Present`, `Holder`, `Content`: joining is
  Enter, registering and creating are Claim, updating is Write, leaving and
  removing are Leave, the rest stutters. From the same invariant
  `OwnersKeepTheirActors`, the action property `OwnershipLasts`.
* **SyncServerProofs**: a task that is alive has its connection in the table
  (`AliveIsRegistered`), so every step of SyncServer is a step of ServerState or
  changes no table: `ServerUsesState`. With it every theorem about ServerState
  holds of the concurrent server; `ConcurrentServerImplementsOwnership` and
  `ConcurrentOwnersAreMembers` say so of the two that matter most.

* **MessageSystemProofs**: all four invariants of the message system, for any
  number of games, names, handlers, sizes and messages.
  `LatestHandler` rests on `TableInv`: a name has one row, and each row holds the
  last handler of its name. Without the first part a search that stops at the
  first row would not find the newest.
  `AnnouncedSize`: the property is inductive by itself, because only the loop
  takes from the queue and the runtime's thread adds at its end.
  `MessagesInOrder` rests on `MailInv`, which follows a message on its way: in
  the sender's log each text has its own place (`LogInv`); what is in the queue,
  what is in the loop's hands and what was handled are, in that order from new to
  old, increasing in those places for each sender, and all of it was heard.
  `HandledInOrder` alone says nothing of the queue and is not inductive.

* **WireProofs**: every invariant of what SyncServer sends, from one inductive
  invariant, `ServerInv`. `WireInv` says that what a socket was written, after the
  welcome, is a prefix of what was posted for its connection, and that while the
  receiver listens, the rest is what waits for it in its slice of the ring, in
  that order (`Waits` names the places by an increasing function; no operator
  that filters a sequence is needed, and so no induction over data). Hence
  `NothingIsSkipped`, and the other theorems are about `posted` only. `PostedInv`
  and `OutboxInv` follow a message from the handler's copy to the channel: a
  snapshot names the one it is for; the owners of its actors are members it
  names, or their connections broke (the notification of a disconnect has the
  actors of before the cleanup); the texts of one sender are posted in order. `OutboxInv`
  needs OwnerIsMember for the snapshots and, for the notification of a disconnect,
  that a task that closes has lost its connection (`ClosingInv`). `ReadyInv` says that nothing is sent for a
  connection before its handshake is done, which is why it may subscribe as late
  as it does. Hence `ServerTypeCorrect`, `TextsStayInOrder`,
  `SnapshotOwnersAreNamed`, `SnapshotsReachMembers`.
* **NetworkSyncProofs**: `NetUsesServer`, each step of server and runtimes is a
  step of SyncServer or none, so all of the above carries over (`NetSnapshots`).
  `SessionFollows`: the property `Follows` relates the runtime's session to the
  server's through all requests under way, and is kept by a request that is made
  (it is the last) and by one that is handled (it was the first); one also
  needs that nothing is under way before a connection is served (`FreshInv`).
  `OwnedAreLocal` rests on `AskedIsLocal`: a request under way names only
  actors its runtime has registered. `UpdatesArrive` needs to know of every update
  under way, not of the last request only, to which session the requests before
  it lead (`UpdatesFollow`). `NoSurprises` extends that to copies of the
  tables: `KnownInv` says that the actors of every snapshot in an outbox or posted
  are local to their owners, and no actor ceases to be local.
* **GameSessionProofs**: the whole stack, for any number of games, scenes, slots
  and addresses. `OnePuppet`: that no two puppets of a game have one id is
  inductive once it is known that no other step changes the id of a puppet
  (`ActorsInv`: what is owned here is no puppet, and a puppet's id is another
  player's), and that the actors a frame still visits are in its list and not its
  own (`FrameInv`).
  `OwnPosesOnly`: every table of actors anywhere, in the server, under way or in a
  runtime, is honest: an actor has the id of its owner and a pose of that player
  (`HonestMap`). The ids come from one table and the data from another, but both
  are honest, and the data are looked up under the id. `SessionInv` takes the
  invariant of ServerStateProofs along, through an instance of OwnershipProofs.
  `GamesUseServer`: the games refine ServerState. It rests on `AskInv`: a connection
  is registered exactly while its link is up and until it was cleaned up; what is
  under way to the server belongs to a game that is connected; and a join request is
  the first under way, from a connection in no session. So the games never do
  what `state_ghost_owner` shows, and the server's theorems hold with no
  assumption about its clients: `GamesLeaveNothing` (the membership tables agree, no
  actor outlives its connection), `PlayersStayTheirs` (`OwnershipLasts`) and
  `GamesImplementOwnership`.

Only model-checked: the liveness properties `LostIsForgotten`,
`PostedIsDelivered`, `QueueIsEmptied`, `PlayersMeet` and `GhostsVanish` (TLAPS has
no rules for fairness and ENABLED that the installed provers can use). Every
invariant and every action property of a passing run is proved.

## 5. What is not modelled, and why

* Text that is not valid JSON of a known type: the server and the runtime ignore
  it. JSON itself, logging, timestamps nobody reads, the port option.
* `NetworkSyncDisconnect` and a second `connect`: the mod imports no
  disconnect, and reconnecting is a matter of gamecore's NetworkModule, which is
  not in this repository. A client that goes away is `HangUp`.
* Copying between Rust and console memory, and the return codes of the C
  interface.
* Panics and the poisoned mutex they would leave: nothing in the critical
  sections panics.
* Of the mod: that creating the actor extension or a UUID fails (no later code
  recovers from either), and names longer than a row of the handler table.
* Of the test mod: notifications, and the look and drawing of puppets. Its
  `item_used` message is one of the names and calls of MessageSystem.
* More than three games over the whole stack, and the real number of slots
  (`MAX_REMOTE_ACTORS`, 32): out of TLC's reach; the theorems hold for any.
  `GetRemoteActorIDs` models the arbitrary choice the runtime makes when there are
  too few slots.
* The headers under `include/` declare the game, its assets and its modding
  interface. Most are third-party files that nothing here includes
  (`rt64_extended_gbi.h`, `recompdata.h`, `recompui.h`); there is no behaviour of
  this system in them. Build, container and CI: no behaviour to model.

## 6. Plan

Done: all modules and proofs above. To do, in this order:

1. An abstract specification of a session's broadcast (a member's view is some
   former state of the session) and SyncServer shown to implement it.
2. The composition of the message system with the server's channel, so that
   `HandledInOrder` rests on `TextsInOrder` instead of `Hear`'s choice.
