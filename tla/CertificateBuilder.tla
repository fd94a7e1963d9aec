------------------------- MODULE CertificateBuilder --------------------------
(***************************************************************************)
(* The builder of certificates for tests (ic-certification-testing and its *)
(* JavaScript bindings): a certificate for a canister or of any tree, with *)
(* a delegation or a delegation that is itself delegated, of any time, and *)
(* signed properly or not.  Each certificate is signed with a key of its   *)
(* own, here named for what it is the key of.                              *)
(***************************************************************************)
EXTENDS CertificateVerification

CONSTANTS
  DefaultCertificateTime, \* in nanoseconds
  MaxU64,                 \* the largest time in nanoseconds that a certificate can state
  NsPerMs                 \* nanoseconds in a millisecond

ASSUME TimeAssumption ==
  DefaultCertificateTime \in Nat /\ MaxU64 \in Nat /\ NsPerMs \in Nat /\ MaxU64 <= MaxU128

NewBuilder(canister, certifiedData) ==
  [time          |-> None,
   canister      |-> [canister_id |-> canister, certified_data |-> certifiedData],
   subnet        |-> None,
   nested_subnet |-> None,
   signature     |-> None,
   custom_tree   |-> None]

\* A tree is given by its contents.
FromCustomTree(contents) ==
  [NewBuilder(None, None) EXCEPT !.canister = None, !.custom_tree = contents]

SubnetData(subnet, ranges) == [subnet_id |-> subnet, canister_id_ranges |-> ranges]

WithDelegation(builder, subnet, ranges) ==
  [builder EXCEPT !.subnet = SubnetData(subnet, ranges)]

WithNestedDelegation(builder, subnet, ranges) ==
  [builder EXCEPT !.nested_subnet = SubnetData(subnet, ranges)]

WithTime(builder, ns) == [builder EXCEPT !.time = ns]

\* The bindings take milliseconds.
WithTimeJs(builder, ms) == WithTime(builder, ms * NsPerMs)

WithInvalidSignature(builder) == [builder EXCEPT !.signature = Garbled]

-----------------------------------------------------------------------------
\* The time that is encoded: what fits in 64 bits of it.
LebEncodeTimestamp(ns) == ns % (MaxU64 + 1)

CreateCertificateTree(canister, time) ==
  [p \in {TimePath, CertifiedDataPath(canister.canister_id)} |->
     IF p = TimePath THEN time ELSE canister.certified_data]

CreateDelegationTree(delegateeKey, time, subnet) ==
  LET ranges == CanisterRangesPath(subnet.subnet_id)
  IN  [p \in {TimePath, ranges, PublicKeyPath(subnet.subnet_id)} |->
         IF p = TimePath THEN time ELSE IF p = ranges THEN subnet.canister_id_ranges ELSE delegateeKey]

\* All of a tree is shown.
MixedHashTree(contents) == [contents |-> contents, shown |-> DOMAIN contents]

Sign(tree, key) == [by |-> key, of |-> Digest(tree)]

BuildCertificate(contents, key, delegation) ==
  LET tree == MixedHashTree(contents)
  IN  [tree |-> tree, signature |-> Sign(tree, key), delegation |-> delegation]

CreateDelegationData(delegateeKey, time, subnet, key, nestedDelegation) ==
  [subnet_id   |-> subnet.subnet_id,
   certificate |-> BuildCertificate(CreateDelegationTree(delegateeKey, time, subnet), key, nestedDelegation)]

BuildDelegation(builder, time) ==
  CreateDelegationData("key", time, builder.subnet, "subnet_key", None)

\* The delegation of the subnet is to the nested one, and is delegated by it.
BuildNestedDelegation(builder, time) ==
  CreateDelegationData("nested_key", time, builder.subnet, "subnet_key",
    CreateDelegationData("key", time, builder.nested_subnet, "nested_key", None))

\* The certificate and the key that is handed out as that of the root.  A nested
\* delegation alone counts as none, and time has no bearing on a tree of one's own.
Build(builder) ==
  LET time     == LebEncodeTimestamp(IF builder.time = None THEN DefaultCertificateTime ELSE builder.time)
      contents == IF builder.custom_tree # None THEN builder.custom_tree
                  ELSE CreateCertificateTree(builder.canister, time)
      Certified(delegation) ==
        LET built == BuildCertificate(contents, "key", delegation)
        IN  IF builder.signature = None THEN built ELSE [built EXCEPT !.signature = builder.signature]
      delegated == builder.subnet # None
      nested    == delegated /\ builder.nested_subnet # None
  IN  CASE nested    -> [certificate |-> Certified(BuildNestedDelegation(builder, time)), root_key |-> "nested_key"]
        [] delegated /\ ~nested ->
             [certificate |-> Certified(BuildDelegation(builder, time)), root_key |-> "subnet_key"]
        [] OTHER     -> [certificate |-> Certified(None), root_key |-> "key"]
=============================================================================
