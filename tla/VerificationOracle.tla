------------------------- MODULE VerificationOracle -------------------------
(***************************************************************************)
(* What signature verification promises its callers: a caller that asks    *)
(* for an entry gets, in one step, the verdict core_verify has of it.  The *)
(* signature cache and its locking are invisible at this level.            *)
(***************************************************************************)
CONSTANTS
  Threads,  \* the threads that verify
  Entries,  \* what may be verified: a public key, a signature and a message
  Valid,    \* the entries whose signature is good
  None      \* no entry

VARIABLES
  asked,   \* asked[t] is the entry t waits for or was answered about, or None
  answer   \* answer[t] is "pending", "ok" or "error"

oracleVars == <<asked, answer>>

OracleInit ==
  /\ asked = [t \in Threads |-> None]
  /\ answer = [t \in Threads |-> "pending"]

Ask(t, e) ==
  /\ asked[t] = None
  /\ asked' = [asked EXCEPT ![t] = e]
  /\ UNCHANGED answer

Decide(t) ==
  /\ asked[t] # None /\ answer[t] = "pending"
  /\ answer' = [answer EXCEPT ![t] = IF asked[t] \in Valid THEN "ok" ELSE "error"]
  /\ UNCHANGED asked

Leave(t) ==
  /\ answer[t] # "pending"
  /\ asked' = [asked EXCEPT ![t] = None]
  /\ answer' = [answer EXCEPT ![t] = "pending"]

OracleNext == \E t \in Threads : \/ \E e \in Entries : Ask(t, e)
                                 \/ Decide(t)
                                 \/ Leave(t)

OracleSpec == OracleInit /\ [][OracleNext]_oracleVars
=============================================================================
