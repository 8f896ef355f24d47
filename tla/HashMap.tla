------------------------------ MODULE HashMap ------------------------------
(***************************************************************************)
(* std::collections::HashMap as a function whose domain is the set of keys *)
(* present.  Only the operations this repository calls are here; a lookup  *)
(* that may miss (get, get_mut, contains_key) is a test of DOMAIN followed *)
(* by an application.  Iteration order is arbitrary in Rust and is an \E   *)
(* over the domain where it matters.                                       *)
(***************************************************************************)
EXTENDS Functions

\* HashMap::new
EmptyMap == [k \in {} |-> k]

\* m is a map from keys in K to values in V
IsMap(m, K, V) == /\ DOMAIN m \subseteq K
                  /\ m \in [DOMAIN m -> V]

\* HashMap::insert: the value is replaced when the key is present
Insert(m, k, v) == [x \in DOMAIN m \cup {k} |-> IF x = k THEN v ELSE m[x]]

\* HashMap::remove: nothing happens when the key is absent
RemoveKey(m, k) == Restrict(m, DOMAIN m \ {k})

\* get(..).cloned().unwrap_or(default), and entry(..).or_insert(default)
GetOr(m, k, default) == IF k \in DOMAIN m THEN m[k] ELSE default
=============================================================================
