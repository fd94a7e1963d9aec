-------------------------- MODULE CertifiedCounter --------------------------
(***************************************************************************)
(* The example certified-counter: a canister that counts and certifies its *)
(* count, any replica of which answers queries, and the page that          *)
(* increments it, asks for the count, verifies what it is told             *)
(* (certificate-verification-js) and shows it.                             *)
(*                                                                         *)
(* SHA-256 is taken to be injective: the hash of a count is the count, the *)
(* hash of a tree the tree.  A tree is empty, <<>>, or has a count under   *)
(* "count".  Certificates are signed by the root of the Internet Computer  *)
(* once a round, and replicas cannot make up others.                       *)
(***************************************************************************)
EXTENDS Integers, Sequences

CONSTANTS
  Clicks,      \* the runs of the page's click handler that may overlap
  CountLimit,  \* how many counts there are: 2^32 of an u32
  NsPerMs,     \* nanoseconds per millisecond
  OffsetMs,    \* maxCertificateTimeOffsetMs
  MaxRounds,   \* a bound on the rounds
  MaxClock,    \* a bound on the page's clock
  None         \* no value

ASSUME CounterAssumption ==
  /\ CountLimit \in Nat \ {0}
  /\ NsPerMs \in Nat \ {0}
  /\ OffsetMs \in Nat /\ MaxRounds \in Nat /\ MaxClock \in Nat
  /\ None \notin Seq(Nat) \cup Nat

VARIABLES
  counter,         \* COUNTER
  tree,            \* TREE
  certified_data,  \* the root hash last set, None before the first
  rounds,          \* what was certified in each round so far
  clock,           \* the page's clock, in milliseconds
  enabled,         \* whether the button can be clicked
  rejected,        \* whether a call that a handler waited for was rejected
  handler,         \* the state of each run of the handler
  shown            \* the count on the page, and the clock its verification went by

canister == <<counter, tree, certified_data>>
page     == <<enabled, rejected, handler, shown>>
vars     == <<counter, tree, certified_data, rounds, clock, enabled, rejected, handler, shown>>

Counts == 0 .. CountLimit - 1

Idle == [at |-> "idle"]

Init ==
  /\ counter = 0 /\ tree = <<>> /\ certified_data = None
  /\ rounds = <<>>
  /\ clock = 0
  /\ enabled = TRUE /\ rejected = FALSE
  /\ handler = [h \in Clicks |-> Idle]
  /\ shown = None

-----------------------------------------------------------------------------
(***************************************************************************)
(* The canister.                                                           *)
(***************************************************************************)
\* Mutant: the count before is certified.
IncCountBefore ==
  /\ counter' = (counter + 1) % CountLimit
  /\ tree' = <<counter>>
  /\ certified_data' = tree'

\* inc_count.  Sums wrap around in a release build.
IncCount ==
  /\ counter' = (counter + 1) % CountLimit
  /\ tree' = <<counter'>>
  /\ certified_data' = tree'

\* Nothing in memory survives an upgrade; the certified data does.
Upgrade ==
  /\ counter' = 0 /\ tree' = <<>>
  /\ UNCHANGED <<certified_data, rounds, clock, page>>

\* At the end of a round what the canister certifies is certified, with the time.
Round ==
  /\ Len(rounds) < MaxRounds
  /\ rounds' = Append(rounds, certified_data)
  /\ UNCHANGED <<canister, clock, page>>

Time(round) == round - 1

\* Another page increments the counter.
OtherIncrement == IncCount /\ UNCHANGED <<rounds, clock, page>>

\* A replica may leave the time or the data out of a certificate.
Certificates ==
  UNION {{[time |-> Time(r), data |-> rounds[r]], [time |-> None, data |-> rounds[r]],
          [time |-> Time(r), data |-> None]} : r \in DOMAIN rounds}

\* The trees there have been, or were certified.
Trees == {<<>>, tree} \cup ({rounds[r] : r \in DOMAIN rounds} \ {None})

-----------------------------------------------------------------------------
(***************************************************************************)
(* verifyCertification.  nowMs was read before Certificate.create was      *)
(* awaited, which checks the signature.                                    *)
(***************************************************************************)
\* Mutant: only certificates from the future are refused.
ValidateCertificateTimeFuture(time, nowMs) ==
  time # None /\ (time \div NsPerMs) - OffsetMs <= nowMs

ValidateCertificateTime(time, nowMs) ==
  /\ time # None
  /\ (time \div NsPerMs) - OffsetMs <= nowMs
  /\ (time \div NsPerMs) + OffsetMs >= nowMs

ValidateTree(witness, certificate) ==
  certificate.data # None /\ certificate.data = witness

VerifyCertification(answer, nowMs) ==
  /\ ValidateCertificateTime(answer.certificate.time, nowMs)
  /\ ValidateTree(answer.witness, answer.certificate)

\* What the page checks besides: the count is the one in the tree.
CountMatches(answer) == answer.witness # <<>> /\ answer.witness[1] = answer.count

-----------------------------------------------------------------------------
(***************************************************************************)
(* The page.                                                               *)
(***************************************************************************)
At(h, place) == handler[h].at = place

Goto(h, state) == handler' = [handler EXCEPT ![h] = state]

Click(h) ==
  /\ enabled /\ At(h, "idle")
  /\ enabled' = FALSE
  /\ Goto(h, [at |-> "incrementing"])
  /\ UNCHANGED <<canister, rounds, clock, rejected, shown>>

Increment(h) ==
  /\ At(h, "incrementing")
  /\ IncCount
  /\ Goto(h, [at |-> "asking"])
  /\ UNCHANGED <<rounds, clock, enabled, rejected, shown>>

\* Mutant: the button stays disabled until the count is verified.
GetCountDisabled(h) ==
  /\ At(h, "asking")
  /\ \E count \in Counts, certificate \in Certificates, witness \in Trees :
       Goto(h, [at |-> "answered",
                answer |-> [count |-> count, certificate |-> certificate, witness |-> witness]])
  /\ UNCHANGED <<canister, rounds, clock, enabled, rejected, shown>>

\* The answer is of any replica, its parts perhaps of different rounds.  The button can
\* be clicked again while this run goes on.
GetCount(h) ==
  /\ At(h, "asking")
  /\ \E count \in Counts, certificate \in Certificates, witness \in Trees :
       Goto(h, [at |-> "answered",
                answer |-> [count |-> count, certificate |-> certificate, witness |-> witness]])
  /\ enabled' = TRUE
  /\ UNCHANGED <<canister, rounds, clock, rejected, shown>>

\* A call fails, and nothing catches that: the button stays disabled.
Reject(h) ==
  /\ At(h, "incrementing") \/ At(h, "asking")
  /\ rejected' = TRUE
  /\ Goto(h, Idle)
  /\ UNCHANGED <<canister, rounds, clock, enabled, shown>>

\* The root key is there, or has not come.
StartVerification(h) ==
  /\ At(h, "answered")
  /\ \/ Goto(h, [at |-> "verifying", answer |-> handler[h].answer, nowMs |-> clock])
     \/ Goto(h, Idle)
  /\ UNCHANGED <<canister, rounds, clock, enabled, rejected, shown>>

FinishVerification(h) ==
  /\ At(h, "verifying")
  /\ LET answer == handler[h].answer
         nowMs  == handler[h].nowMs
     IN  shown' = IF VerifyCertification(answer, nowMs) /\ CountMatches(answer)
                  THEN [count |-> answer.count, nowMs |-> nowMs] ELSE shown
  /\ Goto(h, Idle)
  /\ UNCHANGED <<canister, rounds, clock, enabled, rejected>>

Tick ==
  /\ clock < MaxClock
  /\ clock' = clock + 1
  /\ UNCHANGED <<canister, rounds, page>>

Handle(h) == Increment(h) \/ GetCount(h) \/ StartVerification(h) \/ FinishVerification(h)

Next ==
  \/ Upgrade \/ Round \/ OtherIncrement \/ Tick
  \/ \E h \in Clicks : Click(h) \/ Handle(h) \/ Reject(h)

\* Rounds go on, and what a handler waits for comes.
Fairness == WF_vars(Round) /\ \A h \in Clicks : WF_vars(Handle(h))

Spec == Init /\ [][Next]_vars /\ Fairness

-----------------------------------------------------------------------------
\* Of the record in shown: the time of a round, and whether it is near enough.
Near(round, nowMs) ==
  LET ms == Time(round) \div NsPerMs IN ms - OffsetMs <= nowMs /\ nowMs <= ms + OffsetMs

\* Whatever count, certificate and witness of which rounds an answer is put together
\* from, however the runs of the handler overlap and whatever happens to the canister
\* meanwhile: a count on the page is one that was certified in a round within the
\* offset of the clock when its verification began.
ShownWasCertified ==
  shown # None => \E r \in DOMAIN rounds : rounds[r] = <<shown.count>> /\ Near(r, shown.nowMs)

\* What a replica that is up to date answers matches what is certified, but for the
\* time before the first increment and from an upgrade to the next increment, when
\* nothing does.
InStep ==
  LET answer == [count |-> counter, certificate |-> [time |-> 0, data |-> certified_data], witness |-> tree]
  IN  /\ tree # <<>> => ValidateTree(tree, answer.certificate) /\ CountMatches(answer)
      /\ tree = <<>> => ~ValidateTree(tree, answer.certificate)

\* The button can be clicked again and again, as long as no call is rejected.
Responsive == []<>(enabled \/ rejected)
=============================================================================
