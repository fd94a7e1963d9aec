---------------------- MODULE CertificateVerification -----------------------
(***************************************************************************)
(* Verification of a certificate of the Internet Computer                  *)
(* (certificate_verification.rs): its age, the delegation to the subnet    *)
(* that signed it, and its signature.                                      *)
(*                                                                         *)
(* The tree of a certificate is a function from paths to values of which   *)
(* some paths are shown and the others pruned; its digest is the function. *)
(* Garbled stands for a value, key or certificate that does not decode.    *)
(***************************************************************************)
EXTENDS Integers

CONSTANTS
  None,     \* no value
  Garbled,  \* bytes that do not decode
  MaxU128   \* the largest time in nanoseconds that is computed with

ASSUME WidthAssumption == MaxU128 \in Nat

Path(a, b, c) == <<a, b, c>>

TimePath                    == Path("time", None, None)
CertifiedDataPath(canister) == Path("canister", canister, "certified_data")
CanisterRangesPath(subnet)  == Path("subnet", subnet, "canister_ranges")
PublicKeyPath(subnet)       == Path("subnet", subnet, "public_key")

LookupPath(tree, path) == IF path \in tree.shown THEN tree.contents[path] ELSE None

Digest(tree) == tree.contents

-----------------------------------------------------------------------------
\* Mutant: sums wrap around.
SaturatingAddWraps(a, b) == (a + b) % (MaxU128 + 1)

SaturatingAdd(a, b) == IF a + b > MaxU128 THEN MaxU128 ELSE a + b

SaturatingSub(a, b) == IF b > a THEN 0 ELSE a - b

VerifyCertificateTime(certificate, now, offset) ==
  LET time == LookupPath(certificate.tree, TimePath)
  IN  IF time = None THEN "MissingTimePathInTree"
      ELSE IF time = Garbled THEN "TimeDecodingFailed"
      ELSE IF time > SaturatingAdd(now, offset) THEN "TimeTooFarInTheFuture"
      ELSE IF time < SaturatingSub(now, offset) THEN "TimeTooFarInThePast"
      ELSE "Ok"

\* A signature names the key that made it and what it signs.  extract_der tells a
\* key of the wrong length from one of the wrong kind, which is one error here.
VerifyCertificateSignature(certificate, key) ==
  IF key = Garbled THEN "DerKeyMismatch"
  ELSE IF certificate.signature # [by |-> key, of |-> Digest(certificate.tree)]
  THEN "SignatureVerificationFailed"
  ELSE "Ok"

PrincipalIsWithinRanges(principal, ranges) ==
  \E r \in ranges : principal >= r[1] /\ principal <= r[2]

\* Mutant: a delegation is good for every canister.
VerifyDelegationAnyCanister(delegation, canister, rootKey) ==
  LET cert   == delegation.certificate
      signed == VerifyCertificateSignature(cert, rootKey)
      key    == LookupPath(cert.tree, PublicKeyPath(delegation.subnet_id))
  IN  IF cert.delegation # None THEN "CertificateHasTooManyDelegations"
      ELSE IF signed # "Ok" THEN signed
      ELSE IF key = None THEN "SubnetPublicKeyNotFound"
      ELSE "Ok"

\* "Ok", or the error it returns, in the order of its checks.  The age of a
\* delegation is not one of them.
VerifyDelegation(delegation, canister, rootKey) ==
  LET cert   == delegation.certificate
      signed == VerifyCertificateSignature(cert, rootKey)
      ranges == LookupPath(cert.tree, CanisterRangesPath(delegation.subnet_id))
      key    == LookupPath(cert.tree, PublicKeyPath(delegation.subnet_id))
  IN  IF cert = Garbled THEN "CborDecodingFailed"
      ELSE IF cert.delegation # None THEN "CertificateHasTooManyDelegations"
      ELSE IF signed # "Ok" THEN signed
      ELSE IF ranges = None THEN "SubnetCanisterIdRangesNotFound"
      ELSE IF ranges = Garbled THEN "CborDecodingFailed"
      ELSE IF ~PrincipalIsWithinRanges(canister, ranges) THEN "PrincipalOutOfRange"
      ELSE IF key = None THEN "SubnetPublicKeyNotFound"
      ELSE "Ok"

\* Mutant: whatever is delegated, the root signs.
SigningKeyRoot(certificate, rootKey) == rootKey

\* The key the certificate has to be signed with.
SigningKey(certificate, rootKey) ==
  LET delegation == certificate.delegation
  IN  IF delegation = None THEN rootKey
      ELSE LookupPath(delegation.certificate.tree, PublicKeyPath(delegation.subnet_id))

Verify(certificate, canister, rootKey, now, offset) ==
  LET time      == VerifyCertificateTime(certificate, now, offset)
      delegated == IF certificate.delegation = None THEN "Ok"
                   ELSE VerifyDelegation(certificate.delegation, canister, rootKey)
  IN  IF time # "Ok" THEN time
      ELSE IF delegated # "Ok" THEN delegated
      ELSE VerifyCertificateSignature(certificate, SigningKey(certificate, rootKey))
=============================================================================
