--------------------------- MODULE HashMapLemmas ---------------------------
(***************************************************************************)
(* What the operations of HashMap return, stated once so that the proofs   *)
(* about the components never expand them.                                 *)
(***************************************************************************)
EXTENDS HashMap, TLAPS

\* A new map is a map, whatever its keys and values are to be, and has no key.
LEMMA EmptyMapIsMap ==
  ASSUME NEW K, NEW V
  PROVE  IsMap(EmptyMap, K, V) /\ DOMAIN EmptyMap = {}
  BY DEF IsMap, EmptyMap

\* HashMap::insert yields a map with the key, the new value under the key and
\* the old values elsewhere.
LEMMA InsertIsMap ==
  ASSUME NEW K, NEW V, NEW m, IsMap(m, K, V), NEW k \in K, NEW v \in V
  PROVE  IsMap(Insert(m, k, v), K, V)
  BY DEF IsMap, Insert

\* HashMap::remove yields a map without the key, the rest unchanged.
LEMMA RemoveIsMap ==
  ASSUME NEW K, NEW V, NEW m, IsMap(m, K, V), NEW k
  PROVE  IsMap(RemoveKey(m, k), K, V)
  BY DEF IsMap, RemoveKey, Restrict

\* What a map holds under a key it has is one of its values.
LEMMA MapValue ==
  ASSUME NEW K, NEW V, NEW m, IsMap(m, K, V), NEW k \in DOMAIN m
  PROVE  m[k] \in V /\ k \in K
  BY DEF IsMap

\* A lookup with a default yields a value of the map or the default.
LEMMA GetOrValue ==
  ASSUME NEW K, NEW V, NEW m, IsMap(m, K, V), NEW k, NEW d \in V
  PROVE  GetOr(m, k, d) \in V
  BY DEF IsMap, GetOr
=============================================================================
