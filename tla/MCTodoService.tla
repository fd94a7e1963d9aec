--------------------------- MODULE MCTodoService ----------------------------
(***************************************************************************)
(* The to-do canister on three subnets, one of them faulty, and requests   *)
(* with a certified answer of their own, a fallback or an update call.     *)
(***************************************************************************)
EXTENDS TodoService

Request(method, url) == [method |-> method, url |-> url]

Todos   == <<"", "todos">>       \* "/todos"
Unknown == <<"", "unknown">>     \* "/unknown"
TodoDir == <<"", "todos", "">>   \* "/todos/"

SomeRequests ==
  {Request("GET", Todos), Request("HEAD", Todos), Request("POST", Todos), Request("GET", Unknown),
   Request("TRACE", TodoDir)}

\* After the last round nothing but the home can change, and nobody sees it.
View == <<history, clock, IF clock < MaxClock THEN <<canisterVars, home>> ELSE <<>> >>
=============================================================================
