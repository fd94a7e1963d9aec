--------------------------- MODULE SignatureCache ---------------------------
(***************************************************************************)
(* verify_signature of ic-certificate-verification and the process-wide    *)
(* LRU cache of good signatures it consults (signature_verification/).     *)
(*                                                                         *)
(* Any number of threads verify at once.  The cache's mutex is held for    *)
(* `contains` and, separately, for `insert`; core_verify runs in between   *)
(* without it, so the cache a thread inserts into need not be the one it   *)
(* missed in: another thread may have inserted the same entry, or evicted  *)
(* it again.                                                               *)
(*                                                                         *)
(* The cache is SizedCache of the crate `cached`, known here by what the   *)
(* code and its tests use of it: an entry has a rank, 1 for the most       *)
(* recently used one, a hit moves its entry to rank 1, and setting a new   *)
(* entry when MaxSize entries are held drops the one ranked last.  What    *)
(* setting an entry that is held already does to the order is not fixed by *)
(* this code, so the model allows the outcomes the crate may choose: leave *)
(* the order alone, move the entry up, or make room first as for a new     *)
(* entry.                                                                  *)
(***************************************************************************)
EXTENDS Naturals, FiniteSets

CONSTANTS
  Threads,  \* the threads that verify
  Entries,  \* what may be verified: the hash of a public key, signature, message
  Valid,    \* the entries core_verify accepts
  MaxSize,  \* the capacity of the cache (SIZE_OF_GLOBAL_CACHE in the code)
  None      \* no entry

ASSUME ValidAssumption == Valid \subseteq Entries
ASSUME SizeAssumption == MaxSize \in Nat \ {0}
ASSUME NoneAssumption == None \notin Entries

VARIABLES
  rank,   \* rank[e] is e's place in the cache, most recent first, or 0
  pc,     \* where each thread is in verify_signature
  entry,  \* the entry each thread verifies, or None
  age     \* history: cache operations on others since e was last used, to MaxSize

vars == <<rank, pc, entry, age>>

Cached == {e \in Entries : rank[e] > 0}

-----------------------------------------------------------------------------
(***************************************************************************)
(* The cache.                                                              *)
(***************************************************************************)
\* e moves to the front: what was ahead of it moves back by one, and what was
\* ranked last drops out if e was not held.
ToFront(r, e) ==
  [x \in Entries |->
     IF x = e THEN 1
     ELSE IF r[x] = 0 \/ (r[e] > 0 /\ r[x] > r[e]) THEN r[x]
     ELSE IF r[x] = MaxSize THEN 0
     ELSE r[x] + 1]

DropLast(r) == [x \in Entries |-> IF r[x] = MaxSize THEN 0 ELSE r[x]]

\* What cache_set may leave behind.
AfterSet(r, e) ==
  IF r[e] = 0 THEN {ToFront(r, e)}
  ELSE LET room == DropLast(r)
       IN  {r, ToFront(r, e)} \cup {IF room[e] = 0 THEN ToFront(room, e) ELSE room}

\* Every operation on e ages the others; it makes e new if it uses it.
Aged(e, used) ==
  [x \in Entries |->
     IF x = e THEN IF used THEN 0 ELSE age[x]
     ELSE IF age[x] < MaxSize THEN age[x] + 1 ELSE MaxSize]

-----------------------------------------------------------------------------
(***************************************************************************)
(* verify_signature.                                                       *)
(***************************************************************************)
Init ==
  /\ rank = [e \in Entries |-> 0]
  /\ pc = [t \in Threads |-> "idle"]
  /\ entry = [t \in Threads |-> None]
  /\ age = [e \in Entries |-> MaxSize]

Go(t, from, to) == pc[t] = from /\ pc' = [pc EXCEPT ![t] = to]

Call(t, e) ==
  /\ Go(t, "idle", "contains")
  /\ entry' = [entry EXCEPT ![t] = e]
  /\ UNCHANGED <<rank, age>>

\* Mutant: a hit leaves the order of the cache alone.
HitKeepsOrder(t) ==
  /\ Go(t, "contains", "ok")
  /\ rank[entry[t]] > 0
  /\ age' = Aged(entry[t], TRUE)
  /\ UNCHANGED <<rank, entry>>

\* A hit answers at once and makes the entry the most recent one.
Hit(t) ==
  /\ Go(t, "contains", "ok")
  /\ rank[entry[t]] > 0
  /\ rank' = ToFront(rank, entry[t])
  /\ age' = Aged(entry[t], TRUE)
  /\ UNCHANGED entry

Miss(t) ==
  /\ Go(t, "contains", "core_verify")
  /\ rank[entry[t]] = 0
  /\ UNCHANGED <<rank, entry, age>>

\* Mutant: every signature that has been checked is inserted.
CoreVerifyAlwaysInserts(t) ==
  /\ Go(t, "core_verify", "insert")
  /\ UNCHANGED <<rank, entry, age>>

\* Mutant: the verdict of core_verify only decides what is inserted.
CoreVerifyVerdictDropped(t) ==
  /\ Go(t, "core_verify", IF entry[t] \in Valid THEN "insert" ELSE "ok")
  /\ UNCHANGED <<rank, entry, age>>

CoreVerify(t) ==
  /\ Go(t, "core_verify", IF entry[t] \in Valid THEN "insert" ELSE "error")
  /\ UNCHANGED <<rank, entry, age>>


\* Between the miss and the insert the entry may have been inserted by another
\* thread: cache_set is then called on an entry that is held.
InsertEntry(t) ==
  /\ Go(t, "insert", "ok")
  /\ rank' \in AfterSet(rank, entry[t])
  /\ age' = Aged(entry[t], rank[entry[t]] = 0)
  /\ UNCHANGED entry

Return(t) ==
  /\ pc[t] \in {"ok", "error"}
  /\ pc' = [pc EXCEPT ![t] = "idle"]
  /\ entry' = [entry EXCEPT ![t] = None]
  /\ UNCHANGED <<rank, age>>

Next ==
  \E t \in Threads :
    \/ \E e \in Entries : Call(t, e)
    \/ Hit(t) \/ Miss(t) \/ CoreVerify(t) \/ InsertEntry(t) \/ Return(t)

Spec == Init /\ [][Next]_vars

\* A thread inside verify_signature goes on: the mutex is held for one cache
\* operation at a time and parking_lot hands it over fairly, and core_verify ends.
Step(t) == Hit(t) \/ Miss(t) \/ CoreVerify(t) \/ InsertEntry(t)

FairSpec == Spec /\ \A t \in Threads : WF_vars(Step(t))

-----------------------------------------------------------------------------
PCs == {"idle", "contains", "core_verify", "insert", "ok", "error"}

TypeOK ==
  /\ rank \in [Entries -> 0 .. MaxSize]
  /\ pc \in [Threads -> PCs]
  /\ entry \in [Threads -> Entries \cup {None}]
  /\ age \in [Entries -> 0 .. MaxSize]
  /\ \A t \in Threads : entry[t] = None <=> pc[t] = "idle"

\* The warning on insert: only signatures that were verified to be valid are in
\* the cache, whichever threads put them there and in whatever order.
OnlyValidCached == Cached \subseteq Valid

\* No two entries claim the same place, so the cache never outgrows its capacity
\* and an insert never drops more than the one entry it makes room for.
RanksDistinct ==
  \A d, e \in Entries : rank[d] = rank[e] /\ rank[d] > 0 => d = e

\* An entry is still held when fewer operations than the cache has places were
\* made on other entries since it was last used: no race of two inserts of one
\* signature throws out a signature that was used more recently than that.
RecentlyUsedHeld ==
  \A e \in Entries : age[e] < MaxSize => rank[e] \in 1 .. age[e] + 1


-----------------------------------------------------------------------------
(***************************************************************************)
(* The cache is invisible: whatever it holds, drops or is raced for, every *)
(* call ends with the verdict of core_verify on its own entry.             *)
(***************************************************************************)
Oracle == INSTANCE VerificationOracle WITH
  asked  <- entry,
  answer <- [t \in Threads |-> IF pc[t] \in {"ok", "error"} THEN pc[t] ELSE "pending"]

\* Each thread asks, is told core_verify's verdict on what it asked, and leaves:
\* the hit, the miss, the verification and the insert refine the one step.
ImplementsOracle == Oracle!OracleSpec
=============================================================================
