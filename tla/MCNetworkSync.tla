--------------------------- MODULE MCNetworkSync ---------------------------
(* Instances of NetworkSync for TLC. *)
EXTENDS NetworkSync

CONSTANTS c1, c2, s1, s2, empty, a1, d1

\* What actions and invariants depend on: the history posted and the messages
\* a runtime has handled already are left out, so that TLC takes states that
\* differ in nothing else for one.
Unread == [c \in Conn |-> SubSeq(wire[c], read[c] + 1, Len(wire[c]))]
Live   == <<stateVars, pc, outbox, listening, rx, requests, lost, clientVars, Unread>>

\* Bound: four requests in all, so that one client may make three (register
\* outside a session, join, update) while the other makes one.
FewRequests == requests[c1] + Len(up[c1]) + requests[c2] + Len(up[c2]) <= 4

Symmetric == Permutations({c1, c2})
=============================================================================
