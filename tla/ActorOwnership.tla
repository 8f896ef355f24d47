--------------------------- MODULE ActorOwnership ---------------------------
(***************************************************************************)
(* What the server promises about synchronised actors, with no connection  *)
(* table, no lock and no message: in every session an actor is held by at  *)
(* most one client, a client that is present.  A free actor is claimed, a  *)
(* held one is written only by its holder, it never passes directly from   *)
(* one client to another, and a client that leaves a session frees all it  *)
(* holds there in the same step.                                           *)
(***************************************************************************)
CONSTANTS Conn, SessionId, ActorId, Data, None

VARIABLES
  present,   \* present[s]   : the clients in session s
  holder,    \* holder[s][a] : the client that holds actor a of s, or None
  content    \* content[s][a]: the last data its holder wrote, or None

ownershipVars == <<present, holder, content>>

Free(s, a) == holder[s][a] = None

Init ==
  /\ present = [s \in SessionId |-> {}]
  /\ holder  = [s \in SessionId |-> [a \in ActorId |-> None]]
  /\ content = [s \in SessionId |-> [a \in ActorId |-> None]]

Enter(c, s) ==
  /\ present' = [present EXCEPT ![s] = @ \cup {c}]
  /\ UNCHANGED <<holder, content>>

\* Claiming may set the first data in the same step.
Claim(c, s, a, d) ==
  /\ c \in present[s]
  /\ Free(s, a)
  /\ holder'  = [holder  EXCEPT ![s][a] = c]
  /\ content' = [content EXCEPT ![s][a] = d]
  /\ UNCHANGED present

Write(c, s, a, d) ==
  /\ holder[s][a] = c
  /\ content' = [content EXCEPT ![s][a] = d]
  /\ UNCHANGED <<present, holder>>

Leave(c, s) ==
  /\ c \in present[s]
  /\ present' = [present EXCEPT ![s] = @ \ {c}]
  /\ holder'  = [holder EXCEPT ![s] =
                   [a \in ActorId |-> IF @[a] = c THEN None ELSE @[a]]]
  /\ content' = [content EXCEPT ![s] =
                   [a \in ActorId |-> IF holder[s][a] = c THEN None ELSE @[a]]]

Next ==
  \E c \in Conn, s \in SessionId :
    \/ Enter(c, s)
    \/ Leave(c, s)
    \/ \E a \in ActorId :
         \/ \E d \in Data \cup {None} : Claim(c, s, a, d)
         \/ \E d \in Data : Write(c, s, a, d)

OwnershipSpec == Init /\ [][Next]_ownershipVars
=============================================================================
