------------------------------ MODULE HashMaps ------------------------------
(***************************************************************************)
(* std::unordered_map as the bridge uses it: a function on the keys that   *)
(* are present.                                                            *)
(***************************************************************************)

EmptyMap == [k \in {} |-> k]

\* emplace() and try_emplace(): a key that is present keeps its value.
Emplace(map, key, value) ==
    [k \in DOMAIN map \cup {key} |-> IF k \in DOMAIN map THEN map[k] ELSE value]

\* operator[] on the left of an assignment: the value is replaced.
Assign(map, key, value) ==
    [k \in DOMAIN map \cup {key} |-> IF k = key THEN value ELSE map[k]]

\* erase() of each of a set of keys, present or not.
Erase(map, keys) == [k \in DOMAIN map \ keys |-> map[k]]
=============================================================================
