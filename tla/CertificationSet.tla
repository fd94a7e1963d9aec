-------------------------- MODULE CertificationSet --------------------------
(***************************************************************************)
(* What an HTTP certification tree promises its canister: a set of         *)
(* certifications, each under a place (segments of a path, exact or        *)
(* wildcard), that are added and removed one by one or by place.           *)
(***************************************************************************)
CONSTANT Pairs  \* the pairs of a place and a certification that may be in the set

VARIABLES
  certified,  \* the pairs of a place and a certification
  call        \* the last operation, with its arguments

Add(pc) ==
  /\ call' = <<"insert", pc[1], pc[2]>>
  /\ certified' = certified \cup {pc}

Remove(pc) ==
  /\ call' = <<"delete", pc[1], pc[2]>>
  /\ certified' = certified \ {pc}

RemovePlace(p) ==
  /\ call' = <<"delete_by_path", p>>
  /\ certified' = {pc \in certified : pc[1] # p}

RemoveAll ==
  /\ call' = <<"clear">>
  /\ certified' = {}

SetInit == certified = {} /\ call = <<"new">>

SetNext ==
  \/ \E pc \in Pairs : Add(pc) \/ Remove(pc) \/ RemovePlace(pc[1])
  \/ RemoveAll

SetSpec == SetInit /\ [][SetNext]_<<certified, call>>
=============================================================================
