------------------------------ MODULE PathMap -------------------------------
(***************************************************************************)
(* What a nested tree promises: values at paths, no path of a value inside *)
(* another.  Storing a value drops what stood in its way, above it or      *)
(* below it, and deleting a path drops all there is at it or below it.     *)
(***************************************************************************)
EXTENDS SequencesExt

CONSTANTS
  Paths,   \* the paths that may be used
  Values,  \* the values that may be stored
  None     \* no value

VARIABLES
  at,   \* at[p] is the value at p, or None
  call  \* the last operation, with its arguments

Put(p, v) ==
  /\ call' = <<"insert", p, v>>
  /\ at' = [q \in Paths |-> IF q = p THEN v
                            ELSE IF IsPrefix(p, q) \/ IsPrefix(q, p) THEN None
                            ELSE at[q]]

Drop(p) ==
  /\ call' = <<"delete", p>>
  /\ at' = [q \in Paths |-> IF IsPrefix(p, q) THEN None ELSE at[q]]

Clear ==
  /\ call' = <<"clear">>
  /\ at' = [q \in Paths |-> None]

PathMapInit ==
  /\ at = [q \in Paths |-> None]
  /\ call = <<"new">>

PathMapNext ==
  \/ \E p \in Paths : Drop(p) \/ \E v \in Values : Put(p, v)
  \/ Clear

PathMapSpec == PathMapInit /\ [][PathMapNext]_<<at, call>>
=============================================================================
