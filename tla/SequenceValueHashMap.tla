------------------------ MODULE SequenceValueHashMap ------------------------
(***************************************************************************)
(* The append-only map of the world's registries (src/src/collection/      *)
(* sequence_value_hash_map.rs): keys and values in the order they came,    *)
(* and an index for every key. The index is what others keep: a component  *)
(* id, an archetype id, the place of a query's spec.                       *)
(***************************************************************************)
EXTENDS Integers, Sequences

EmptyMap == [indices |-> [k \in {} |-> 0], keys |-> << >>, values |-> << >>]

ContainsKey(map, k) == k \in DOMAIN map.indices

IndexOf(map, k) == map.indices[k]

ValueOf(map, k) == map.values[map.indices[k]]

AppendEntry(map, k, val) ==
  [indices |-> [key \in DOMAIN map.indices \cup {k} |->
                  IF key = k THEN Len(map.values) + 1 ELSE map.indices[key]],
   keys    |-> Append(map.keys, k),
   values  |-> Append(map.values, val)]

(* Bug: a key that is there already comes a second time.                   *)
Insert_Again(map, k, val) == AppendEntry(map, k, val)

(* A key that is there keeps its index.                                    *)
Insert(map, k, val) ==
  IF ContainsKey(map, k)
  THEN [map EXCEPT !.values[IndexOf(map, k)] = val]
  ELSE AppendEntry(map, k, val)

GetOrInsert(map, k, val) == IF ContainsKey(map, k) THEN map ELSE AppendEntry(map, k, val)

(* keys runs in lockstep with values, and the indices say where.           *)
InLockstep(map) ==
  /\ Len(map.keys) = Len(map.values)
  /\ DOMAIN map.indices = {map.keys[i] : i \in DOMAIN map.keys}
  /\ \A i \in DOMAIN map.keys : map.indices[map.keys[i]] = i
=============================================================================
