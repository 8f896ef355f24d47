--------------------------- MODULE MessageSystem ---------------------------
(***************************************************************************)
(* The message system of the mod, network-sync/message_system.c, in every  *)
(* game of one session, over the runtime of SyncClient.  Handlers are      *)
(* registered in a table of fixed size, messages are emitted with the      *)
(* payload size the table gives, and once a frame a loop empties the       *)
(* runtime's queue and calls the handlers.                                 *)
(*                                                                         *)
(* All of this runs on the game's thread.  The runtime's own thread puts   *)
(* messages into the queue meanwhile: each call of the loop holds the      *)
(* runtime's mutex by itself and is a step of its own.  A handler is game  *)
(* code and may register and emit.                                         *)
(*                                                                         *)
(* up[s], where SyncClient puts requests, is never shortened here: it is   *)
(* the log of what s sent.  The server passes texts on in their order      *)
(* (TextsInOrder of SyncServer); how fast, and to whom, is left open.      *)
(***************************************************************************)
EXTENDS SyncClient

CONSTANTS
  MessageId,              \* message names, strings
  Callback,               \* handlers, function pointers
  MAX_MESSAGE_CALLBACKS,
  Registrations,          \* the calls of NS_RegisterMessageHandler of each game
  MaxSent                 \* bound on the requests of one game

Registration == [message_id : MessageId, payload_size : Nat, callback : Callback \cup {None}]

\* A message on its way; from and n tell messages apart.
Letter == [message_id : MessageId, size : Nat, from : Conn, n : Nat]

ASSUME MessageAssumption ==
  /\ MAX_MESSAGE_CALLBACKS \in Nat
  /\ MaxSent \in Nat
  /\ None \notin Callback /\ None \notin Letter
  /\ Registrations \in [Conn -> SUBSET Registration]

VARIABLES
  gMessageCallbacks,  \* the table, gMessageCallbackCount its length
  where,              \* where the game's thread is: in game code outside the
                      \* loop, in a handler, or between two calls of the loop
  messageSize,        \* the size it was told the next message has
  taken,              \* the message it has taken, or None
  heard,              \* how much of each other's log reached its runtime
  handled,            \* history: the messages handlers were called with
  latest              \* history: the last handler registered for each name

mailVars == <<gMessageCallbacks, where, messageSize, taken, heard, handled, latest>>
messageVars ==
  <<connected, client_id, current_session_id, remote_actors, local_actors,
    message_queue, up, mailVars>>

MessageInit ==
  /\ Init
  /\ gMessageCallbacks = [g \in Conn |-> <<>>]
  /\ where       = [g \in Conn |-> "game"]
  /\ messageSize = [g \in Conn |-> 0]
  /\ taken       = [g \in Conn |-> None]
  /\ heard       = [g \in Conn |-> [s \in Conn |-> 0]]
  /\ handled     = [g \in Conn |-> <<>>]
  /\ latest      = [g \in Conn |-> [id \in MessageId |-> None]]

---------------------------------------------------------------------------
(* The table *)

\* The search of the table for a name stops at entry i.
Finds(g, id, i) ==
  /\ i \in DOMAIN gMessageCallbacks[g]
  /\ gMessageCallbacks[g][i].message_id = id
  /\ \A j \in 1..(i - 1) : gMessageCallbacks[g][j].message_id # id

Registered(g, id) == \E i \in DOMAIN gMessageCallbacks[g] : Finds(g, id, i)

\* Game code runs: a callback of the game, or a handler.
InGame(g) == where[g] \in {"game", "handler"}

\* Mutation of MessageSystemRegisterHandler: it does not look for the name.
MessageSystemRegisterHandler_Appends(g, r) ==
  /\ InGame(g)
  /\ Len(gMessageCallbacks[g]) < MAX_MESSAGE_CALLBACKS
  /\ r.callback # None
  /\ gMessageCallbacks' = [gMessageCallbacks EXCEPT ![g] = Append(@, r)]
  /\ latest' = [latest EXCEPT ![g][r.message_id] = r.callback]
  /\ UNCHANGED <<connected, client_id, current_session_id, remote_actors, local_actors,
                 message_queue, up, where, messageSize, taken, heard, handled>>

\* Mutation of MessageSystemRegisterHandler: the table grows without bound.
MessageSystemRegisterHandler_Unbounded(g, r) ==
  /\ InGame(g)
  /\ r.callback # None
  /\ \/ \E i \in DOMAIN gMessageCallbacks[g] :
          /\ Finds(g, r.message_id, i)
          /\ gMessageCallbacks' = [gMessageCallbacks EXCEPT ![g][i] = r]
     \/ /\ ~Registered(g, r.message_id)
        /\ gMessageCallbacks' = [gMessageCallbacks EXCEPT ![g] = Append(@, r)]
  /\ latest' = [latest EXCEPT ![g][r.message_id] = r.callback]
  /\ UNCHANGED <<connected, client_id, current_session_id, remote_actors, local_actors,
                 message_queue, up, where, messageSize, taken, heard, handled>>

\* The call when it returns 0.  A full table is looked at first, before the
\* name: then not even a registered handler can be replaced.
MessageSystemRegisterHandler(g, r) ==
  /\ InGame(g)
  /\ Len(gMessageCallbacks[g]) < MAX_MESSAGE_CALLBACKS
  /\ r.callback # None
  /\ \/ \E i \in DOMAIN gMessageCallbacks[g] :
          /\ Finds(g, r.message_id, i)
          /\ gMessageCallbacks' = [gMessageCallbacks EXCEPT ![g][i] = r]
     \/ /\ ~Registered(g, r.message_id)
        /\ gMessageCallbacks' = [gMessageCallbacks EXCEPT ![g] = Append(@, r)]
  /\ latest' = [latest EXCEPT ![g][r.message_id] = r.callback]
  /\ UNCHANGED <<connected, client_id, current_session_id, remote_actors, local_actors,
                 message_queue, up, where, messageSize, taken, heard, handled>>

---------------------------------------------------------------------------
(* Emitting *)

\* What is sent
Mail(g, id, size) ==
  [message_id |-> id, size |-> size, from |-> g, n |-> Len(up[g]) + 1]

\* Mutation of MessageSystemEmit: a message without payload is sent as well.
MessageSystemEmit_Empty(g, id) ==
  /\ InGame(g)
  /\ \E i \in DOMAIN gMessageCallbacks[g] :
       /\ Finds(g, id, i)
       /\ send_registered_message(g, Mail(g, id, gMessageCallbacks[g][i].payload_size))
  /\ UNCHANGED mailVars

\* The call when it sends.  Size 0 stands for a name that is not registered,
\* so a message registered without payload is never sent.
MessageSystemEmit(g, id) ==
  /\ InGame(g)
  /\ \E i \in DOMAIN gMessageCallbacks[g] :
       /\ Finds(g, id, i)
       /\ gMessageCallbacks[g][i].payload_size # 0
       /\ send_registered_message(g, Mail(g, id, gMessageCallbacks[g][i].payload_size))
  /\ UNCHANGED mailVars

---------------------------------------------------------------------------
(* MessageSystemProcessPending, once a frame *)

\* The loop asks for the size of the next message; 0 ends it.
CheckPending(g) ==
  /\ where[g] \in {"game", "handler", "dropped"}
  /\ messageSize' = [messageSize EXCEPT ![g] = get_pending_message_size(g)]
  /\ where' = [where EXCEPT ![g] = IF messageSize'[g] = 0 THEN "game" ELSE "sized"]
  /\ UNCHANGED <<connected, client_id, current_session_id, remote_actors, local_actors,
                 message_queue, up, gMessageCallbacks, taken, heard, handled, latest>>

\* It takes the message into a buffer of that size.  When the buffer is too
\* small the message is gone and the name read back is empty.
TakeMessage(g) ==
  /\ where[g] = "sized"
  /\ get_message(g)
  /\ taken' = [taken EXCEPT ![g] =
       IF Head(message_queue[g]).size <= messageSize[g] THEN Head(message_queue[g]) ELSE None]
  /\ where' = [where EXCEPT ![g] = "taken"]
  /\ UNCHANGED <<gMessageCallbacks, messageSize, heard, handled, latest>>

\* It calls the handler the search finds first.
CallHandler(g) ==
  /\ where[g] = "taken"
  /\ taken[g] # None
  /\ \E i \in DOMAIN gMessageCallbacks[g] :
       /\ Finds(g, taken[g].message_id, i)
       /\ handled' = [handled EXCEPT ![g] =
            Append(@, [mail |-> taken[g], callback |-> gMessageCallbacks[g][i].callback])]
  /\ taken' = [taken EXCEPT ![g] = None]
  /\ where' = [where EXCEPT ![g] = "handler"]
  /\ UNCHANGED <<connected, client_id, current_session_id, remote_actors, local_actors,
                 message_queue, up, gMessageCallbacks, messageSize, heard, latest>>

\* Without a handler for its name the message is dropped.
DropMessage(g) ==
  /\ where[g] = "taken"
  /\ ~(taken[g] # None /\ Registered(g, taken[g].message_id))
  /\ taken' = [taken EXCEPT ![g] = None]
  /\ where' = [where EXCEPT ![g] = "dropped"]
  /\ UNCHANGED <<connected, client_id, current_session_id, remote_actors, local_actors,
                 message_queue, up, gMessageCallbacks, messageSize, heard, handled, latest>>

---------------------------------------------------------------------------
(* Around it *)

\* The runtime's thread gets to the next request in s's log, when it is a
\* text the server passed on to g; or the server did not pass it on.
Hear(g, s) ==
  /\ s # g
  /\ heard[g][s] < Len(up[s])
  /\ heard' = [heard EXCEPT ![g][s] = @ + 1]
  /\ \/ \E req \in {up[s][heard[g][s] + 1]} :
          req.kind = "text" /\ process_text(g, req.message)
     \/ UNCHANGED <<connected, client_id, current_session_id, remote_actors, local_actors,
                    message_queue, up>>
  /\ UNCHANGED <<gMessageCallbacks, where, messageSize, taken, handled, latest>>

\* The welcome arrives; the game joins a session.
Welcomed(g) == ~connected[g] /\ process_welcome(g, g) /\ UNCHANGED mailVars

Join(g) ==
  /\ InGame(g)
  /\ current_session_id[g] = None
  /\ \E s \in SessionId : join_session(g, s)
  /\ UNCHANGED mailVars

GameCalls(g) ==
  \/ Join(g)
  \/ \E r \in Registrations[g] : MessageSystemRegisterHandler(g, r)
  \/ \E id \in MessageId : MessageSystemEmit(g, id)

Loop(g) == CheckPending(g) \/ TakeMessage(g) \/ CallHandler(g) \/ DropMessage(g)

MessageNext ==
  \E g \in Conn :
    \/ Welcomed(g)
    \/ GameCalls(g) /\ Len(up'[g]) <= MaxSent
    \/ Loop(g)
    \/ \E s \in Conn : Hear(g, s)

MessageSpec == MessageInit /\ [][MessageNext]_messageVars

\* A frame is always run again, and a handler returns.
FairMessageSpec == MessageSpec /\ \A g \in Conn : WF_messageVars(Loop(g))

---------------------------------------------------------------------------
(* Properties *)

\* A row of the table
Entry == [message_id : MessageId, payload_size : Nat, callback : Callback]

MessageTypeOK ==
  /\ connected \in [Conn -> BOOLEAN]
  /\ current_session_id \in [Conn -> SessionId \cup {None}]
  /\ gMessageCallbacks \in [Conn -> Seq(Entry)]
  /\ \A g \in Conn : Len(gMessageCallbacks[g]) <= MAX_MESSAGE_CALLBACKS
  /\ where \in [Conn -> {"game", "handler", "sized", "taken", "dropped"}]
  /\ messageSize \in [Conn -> Nat]
  /\ taken \in [Conn -> Letter \cup {None}]
  /\ message_queue \in [Conn -> Seq(Letter)]
  /\ handled \in [Conn -> Seq([mail : Letter, callback : Callback])]
  /\ heard \in [Conn -> [Conn -> Nat]]
  /\ latest \in [Conn -> [MessageId -> Callback \cup {None}]]

\* "Just update the existing handler" (message_system.c:36): a message goes to
\* the handler its name was last registered with, successfully, however often
\* that was and wherever the name is in the table; a name never registered has
\* none.
LatestHandlerIsCalled ==
  \A g \in Conn : \A id \in MessageId :
    IF latest[g][id] = None THEN ~Registered(g, id)
    ELSE \E i \in DOMAIN gMessageCallbacks[g] :
           Finds(g, id, i) /\ gMessageCallbacks[g][i].callback = latest[g][id]

\* The size the loop was told is still that of the message it takes: what the
\* runtime's thread puts into the queue between the two calls changes nothing,
\* and no message is lost to a buffer that is too small.
AnnouncedSizeHolds ==
  \A g \in Conn :
    /\ where[g] = "sized" => /\ message_queue[g] # <<>>
                             /\ Head(message_queue[g]).size = messageSize[g]
    /\ where[g] = "taken" => taken[g] # None

\* From the call of NS_EmitMessage in one game to the handler in another: the
\* handlers of a game are called with the messages of each other game in the
\* order these were emitted, with none twice, and never with the game's own.
HandledInOrder ==
  \A g \in Conn : \A i \in DOMAIN handled[g] :
    LET m == handled[g][i].mail IN
      /\ m.from # g
      /\ m.n \in DOMAIN up[m.from] /\ up[m.from][m.n] = TextRequest(m)
      /\ \A j \in (i + 1)..Len(handled[g]) :
           handled[g][j].mail.from = m.from => m.n < handled[g][j].mail.n

\* "No more messages" (message_system.c:78): the loop that stops at size 0
\* does empty the queue, again and again.
QueueIsEmptied == \A g \in Conn : []<>(message_queue[g] = <<>>)
=============================================================================
