---------------------------- MODULE OrderedMap ------------------------------
(***************************************************************************)
(* What a certified map promises its owner: it is a map.  The red-black    *)
(* tree implements this specification, whatever rotations it performs.     *)
(* `call` names the operation that made the step, so that an operation     *)
(* that should have changed the map and did not is a different behaviour.  *)
(***************************************************************************)
CONSTANTS
  Keys,    \* the keys that may be used
  Values,  \* the values that may be stored
  None     \* no value

VARIABLES
  map,  \* map[k] is the value of k, or None
  call  \* the last operation, with its arguments

Put(k, v) ==
  /\ call' = <<"insert", k, v>>
  /\ map' = [map EXCEPT ![k] = v]

Remove(k) ==
  /\ call' = <<"delete", k>>
  /\ map' = [map EXCEPT ![k] = None]

\* Modifying the value of a key that is not there changes nothing.
Update(k, v) ==
  /\ call' = <<"modify", k, v>>
  /\ map' = IF map[k] = None THEN map ELSE [map EXCEPT ![k] = v]

MapInit ==
  /\ map = [k \in Keys |-> None]
  /\ call = <<"new">>

MapNext ==
  \E k \in Keys : \/ Remove(k)
                  \/ \E v \in Values : Put(k, v) \/ Update(k, v)

MapSpec == MapInit /\ [][MapNext]_<<map, call>>
=============================================================================
