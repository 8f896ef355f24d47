-------------------------- MODULE MCMessageSystem --------------------------
(* Instances of MessageSystem for TLC. *)
EXTENDS MessageSystem, TLC

CONSTANTS g1, g2, s1, ping, pong, hello, show, hide

Handler(id, size, cb) == [message_id |-> id, payload_size |-> size, callback |-> cb]

\* g1 registers a message without payload as well; g2 replaces its handler of
\* ping, tries to register none, and has one name more than its table holds.
Calls ==
  g1 :> {Handler(ping, 1, show), Handler(hello, 0, show)} @@
  g2 :> {Handler(ping, 2, show), Handler(ping, 1, hide), Handler(pong, 1, None),
         Handler(pong, 1, show), Handler(hello, 1, show)}
=============================================================================
