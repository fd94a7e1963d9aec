---------------------------- MODULE TodoService -----------------------------
(***************************************************************************)
(* The to-do canister on the Internet Computer, and the gateway that       *)
(* verifies its responses.  In a round a subnet certifies its state: the   *)
(* time and the data of the canisters it hosts, and, if it is the root,    *)
(* which canisters each other subnet hosts and its key.  The canister may  *)
(* move between subnets.  A query is answered by any replica, however far  *)
(* behind, from the memory it had at a round and the certificate of that   *)
(* round; on the way to the gateway parts of responses may get mixed up.   *)
(***************************************************************************)
EXTENDS TodoApi

CONSTANTS
  Root,      \* the subnet whose key the gateway knows
  Delegates, \* the other subnets; the key of a subnet is named as the subnet
  Faulty,    \* those of them that certify anything
  Canister,  \* the identifier of the canister, a number
  Requests,  \* the requests: a method and a URL path
  Offsets,   \* how far from its own clock the gateway lets a certificate's time be
  MaxClock   \* a bound on the number of rounds

ASSUME SubnetAssumption ==
  /\ Faulty \subseteq Delegates /\ Root \notin Delegates
  /\ {None, Garbled} \cap (Delegates \cup {Root}) = {}

\* Times of rounds are times as the verifier has them, of 128 bits.
ASSUME BoundsAssumption == MaxClock \in 0 .. MaxU128 /\ Offsets \subseteq Nat /\ Canister \in Nat

\* No request spells /todos in a second way, such as //todos: the gateway takes
\* the two for one path and the canister does not.
ASSUME RequestAssumption ==
  \A q \in Requests : /\ q.url \in Seq(STRING \cup {DirSeparator})
                      /\ Segments(q.url) = Segments(TodosPath) => q.url = TodosPath

VARIABLES
  clock,   \* the time of the last round
  home,    \* the subnet that hosts the canister
  history  \* what has been certified: for every round the home and the canister's memory

serviceVars == <<clock, home, history>>

vars == <<canisterVars, serviceVars>>

Snapshot == [time |-> clock', home |-> home, responses |-> responses, tree |-> tree, data |-> certified_data]

Round ==
  /\ clock < MaxClock
  /\ clock' = clock + 1
  /\ history' = history \cup {Snapshot}
  /\ UNCHANGED <<canisterVars, home>>

Move(subnet) ==
  /\ home' = subnet
  /\ UNCHANGED <<canisterVars, clock, history>>

Init ==
  /\ CanisterInit
  /\ clock = 0
  /\ home \in Delegates
  /\ history = {}

\* After the last round there is no use in further messages.
Message == clock < MaxClock /\ CanisterNext /\ UNCHANGED serviceVars

Next == Message \/ Round \/ \E subnet \in Delegates \cup {Root} : Move(subnet)

Spec == Init /\ [][Next]_vars

-----------------------------------------------------------------------------
(***************************************************************************)
(* What is certified.                                                      *)
(***************************************************************************)
IsRange(path) == path[1] = "subnet" /\ path[3] = "canister_ranges"
IsKey(path)   == path[1] = "subnet" /\ path[3] = "public_key"

RightsOf(subnet) == {CanisterRangesPath(subnet), PublicKeyPath(subnet)}

\* The home of the canister has its identifier alone, the others those on either side.
Ranges(h, subnet) ==
  IF h.home = subnet THEN {<<Canister, Canister>>} ELSE {<<0, Canister - 1>>, <<Canister + 1, Canister + 9>>}

\* The state of a subnet at a round.
Contents(h, subnet) ==
  [p \in {TimePath} \cup (IF h.home = subnet THEN {CertifiedDataPath(Canister)} ELSE {})
           \cup (IF subnet = Root THEN UNION {RightsOf(s) : s \in Delegates} ELSE {}) |->
     CASE p[1] = "time"     -> h.time
       [] p[1] = "canister" -> h.data
       [] IsRange(p)        -> Ranges(h, p[2])
       [] IsKey(p)          -> p[2]]

Nows == 0 .. MaxU128

\* What a faulty subnet may certify: anything, here a list with an item of its own,
\* that it is in charge of every canister, and a time that is none.
FalseTree ==
  InitialTree \cup
    {<<TodosPlace, FullCertification("GET", ListTodos([i \in {0} |-> [title |-> None, completed |-> FALSE]]))>>}

FalseContents(time, subnet) ==
  [p \in {TimePath, CertifiedDataPath(Canister)} \cup RightsOf(subnet) |->
     CASE p[1] = "time"     -> time
       [] p[1] = "canister" -> FalseTree
       [] IsRange(p)        -> {<<0, Canister + 9>>}
       [] IsKey(p)          -> subnet]

Certified(subnet) ==
  {Contents(h, subnet) : h \in history}
    \cup IF subnet \in Faulty THEN {FalseContents(time, subnet) : time \in {clock, Garbled}} ELSE {}

\* The paths a certificate shows: those a verifier looks for, or all but one of them.
AllBut(paths) == {paths} \cup {paths \ {p} : p \in paths}

Signed(subnet, contents, shown, delegation) ==
  [tree |-> [contents |-> contents, shown |-> shown \cap DOMAIN contents],
   signature |-> [by |-> subnet, of |-> contents], delegation |-> delegation]

Delegation(subnet, certificate) == [subnet_id |-> subnet, certificate |-> certificate]

\* The delegations that can come with a certificate: the root's, of any round and
\* with parts left out; what a faulty subnet makes up; and its passing on of one.
RootDelegations ==
  UNION {{Delegation(s, Signed(Root, contents, shown, None)) :
            contents \in Certified(Root), shown \in AllBut(RightsOf(s))} : s \in Delegates}

FalseDelegations ==
  UNION {{Delegation(s, Signed(s, FalseContents(clock, s), RightsOf(s), d)) :
            d \in {None} \cup RootDelegations} : s \in Faulty}

Delegations == {None} \cup RootDelegations \cup FalseDelegations

-----------------------------------------------------------------------------
TypeOK ==
  /\ next_todo_id \in 0 .. IdLimit - 1
  /\ DOMAIN todo_items \subseteq 0 .. IdLimit - 1
  /\ clock \in 0 .. MaxClock
  /\ home \in Delegates \cup {Root}
  /\ \A h \in history : h.time \in 1 .. clock /\ h.home \in Delegates \cup {Root}

\* Between any two messages the memory of the canister and its certified data agree:
\* the list that is kept is the list of the items, and the tree holds the responses
\* that are kept and none from before.
InStep ==
  /\ responses["GET"] = ListTodos(todo_items)
  /\ tree = {<<TodosPlace, FullCertification(m, responses[m])>> : m \in DOMAIN responses}
              \cup {<<NotFoundPlace, ResponseOnly(NotFound)>>}
  /\ certified_data = tree

\* Every answer that a replica has given or can still give to a query.
Served == {QueryHandler(h, q) : h \in history, q \in Requests}

\* A certificate header as the canister makes it, or cut short of its version.
CutShort(fields) == {fields, Front(fields)}

WithinOffset(time, now, offset) == now - offset <= time /\ time <= now + offset

\* The certificate of a round, as the replicas give it to the canister.
DataCertificate(h) ==
  Signed(h.home, Contents(h, h.home), {TimePath, CertifiedDataPath(Canister)},
         IF h.home = Root THEN None
         ELSE Delegation(h.home, Signed(Root, Contents(h, Root), RightsOf(h.home), None)))

\* However far a replica is behind, and whatever was changed, upgraded or moved in
\* between, what http_request answers a query with passes the gateway as long as the
\* certificate is of a time the gateway's clock lets through, and only then.
ServedVerifies ==
  \A h \in history, q \in Requests, now \in Nows, offset \in Offsets :
    Route(q) = "query" =>
      LET r == HttpRequest(h, DataCertificate(h), q)
      IN  VerifyRequestResponsePair(q, r, Canister, Root, now, offset, 2) = "Ok"
            <=> WithinOffset(h.time, now, offset)

\* A certificate that verifies is signed by a subnet that, at some time, was in charge
\* of the canister: no other subnet can answer for it, whatever it certifies.
OnlySubnetsInCharge ==
  \A d \in Delegations, s \in Delegates \cup {Root} :
    \A contents \in Certified(s), shown \in AllBut({TimePath, CertifiedDataPath(Canister)}),
       now \in Nows, offset \in Offsets :
      Verify(Signed(s, contents, shown, d), Canister, Root, now, offset) = "Ok" =>
        \E h \in history : s \in {Root, h.home}

\* What the gateway accepts as the answer to a query is what the canister would have
\* answered it at a time within the offset, whatever parts of answers, certificates
\* and delegations of other rounds it was put together from, and whatever version
\* of verification its header asks for.
AcceptedWasServed ==
  \A d \in Delegations, s \in (Delegates \cup {Root}) \ Faulty :
    \A contents \in Certified(s), shown \in AllBut({TimePath, CertifiedDataPath(Canister)}),
       now \in Nows, offset \in Offsets :
      LET c == Signed(s, contents, shown, d)
      IN  Verify(c, Canister, Root, now, offset) = "Ok" =>
            \A g \in history, a \in Served, q \in Requests :
              \A fields \in CutShort(CertificateHeader(c, g.tree, a.place)) :
                LET r == [status |-> a.response.status, body |-> a.response.body,
                          cel |-> a.response.cel, fields |-> fields]
                IN  VerifyRequestResponsePair(q, r, Canister, Root, now, offset, 1) = "Ok" =>
                      \E h \in history : WithinOffset(h.time, now, offset) /\ QueryHandler(h, q) = a
=============================================================================
