------------------------------ MODULE TodoApi -------------------------------
(***************************************************************************)
(* The canister of the example json-api: to-do items that update calls     *)
(* change, and the HTTP responses it keeps certified for query calls.      *)
(***************************************************************************)
EXTENDS GatewayVerification

CONSTANTS
  Titles,  \* what an item can be called
  IdLimit  \* how many numbers an identifier can be: 2^32 of an u32

ASSUME IdAssumption == IdLimit \in Nat \ {0}

VARIABLES
  next_todo_id,   \* the identifier the next item gets
  todo_items,     \* the items by identifier
  responses,      \* the responses at /todos by method
  tree,           \* HTTP_TREE
  certified_data  \* what the canister has last had certified

canisterVars == <<next_todo_id, todo_items, responses, tree, certified_data>>

TodosPath    == <<"", "todos">>  \* "/todos"
NotFoundPath == <<"">>           \* the empty string

TodosPlace    == Place([exact |-> TRUE, url |-> TodosPath])
NotFoundPlace == Place([exact |-> FALSE, url |-> NotFoundPath])

Response(status, body, cel) == [status |-> status, body |-> body, cel |-> cel]

\* What is certified with a request of a method and an empty body, and what alone.
FullCertification(method, response) ==
  [cel |-> "Full", req |-> method, resp |-> [status |-> response.status, body |-> response.body]]

ResponseOnly(response) ==
  [cel |-> "ResponseOnly", req |-> None, resp |-> [status |-> response.status, body |-> response.body]]

ListTodos(items) == Response("200", [ok |-> items], "Full")
NotAllowed       == Response("405", [err |-> "not allowed"], "Full")
NotFound         == Response("404", [err |-> "not found"], "ResponseOnly")

NotAllowedMethods == {"HEAD", "PUT", "PATCH", "OPTIONS", "TRACE", "CONNECT"}

-----------------------------------------------------------------------------
Put(f, x, v) == [y \in DOMAIN f \cup {x} |-> IF y = x THEN v ELSE f[y]]

\* The certification of the response that is kept for a method, if there is one.
Existing(method) ==
  IF method \in DOMAIN responses
  THEN {<<TodosPlace, FullCertification(method, responses[method])>>}
  ELSE {}

\* Mutant: the certification of the response before stays.
CertifyResponseKeepsExisting(method, response) ==
  /\ responses' = Put(responses, method, response)
  /\ tree' = tree \cup {<<TodosPlace, FullCertification(method, response)>>}
  /\ certified_data' = tree'

\* certify_response, with the set_certified_data at its end.
CertifyResponse(method, response) ==
  /\ responses' = Put(responses, method, response)
  /\ tree' = (tree \ Existing(method)) \cup {<<TodosPlace, FullCertification(method, response)>>}
  /\ certified_data' = tree'

CertifyListTodosResponse == CertifyResponse("GET", ListTodos(todo_items'))

\* Identifiers wrap around, as sums do in a release build.
CreateTodoItem(title) ==
  /\ next_todo_id' = (next_todo_id + 1) % IdLimit
  /\ todo_items' = Put(todo_items, next_todo_id, [title |-> title, completed |-> FALSE])
  /\ CertifyListTodosResponse

\* A call for an item that is not there traps and changes nothing.
UpdateTodoItem(id, title, completed) ==
  /\ id \in DOMAIN todo_items
  /\ todo_items' = [todo_items EXCEPT ![id] =
                      [title     |-> IF title = None THEN @.title ELSE title,
                       completed |-> IF completed = None THEN @.completed ELSE completed]]
  /\ CertifyListTodosResponse
  /\ UNCHANGED next_todo_id

\* Mutant: the list is not certified again.
DeleteTodoItemOnly(id) ==
  /\ todo_items' = [i \in DOMAIN todo_items \ {id} |-> todo_items[i]]
  /\ UNCHANGED <<next_todo_id, responses, tree, certified_data>>

DeleteTodoItem(id) ==
  /\ todo_items' = [i \in DOMAIN todo_items \ {id} |-> todo_items[i]]
  /\ CertifyListTodosResponse
  /\ UNCHANGED next_todo_id

-----------------------------------------------------------------------------
\* What init certifies, in memory that is empty.
InitialResponses ==
  [m \in NotAllowedMethods \cup {"GET"} |-> IF m = "GET" THEN ListTodos(<<>>) ELSE NotAllowed]

InitialTree ==
  {<<TodosPlace, FullCertification(m, InitialResponses[m])>> : m \in DOMAIN InitialResponses}
    \cup {<<NotFoundPlace, ResponseOnly(NotFound)>>}

CanisterInit ==
  /\ next_todo_id = 0
  /\ todo_items = <<>>
  /\ responses = InitialResponses
  /\ tree = InitialTree
  /\ certified_data = InitialTree

\* Nothing in memory survives an upgrade; post_upgrade runs init.
Upgrade ==
  /\ next_todo_id' = 0
  /\ todo_items' = <<>>
  /\ responses' = InitialResponses
  /\ tree' = InitialTree
  /\ certified_data' = InitialTree

CanisterNext ==
  \/ \E title \in Titles : CreateTodoItem(title)
  \/ \E id \in 0 .. IdLimit - 1 :
       \/ \E title \in Titles \cup {None}, completed \in BOOLEAN \cup {None} :
            UpdateTodoItem(id, title, completed)
       \/ DeleteTodoItem(id)
  \/ Upgrade

-----------------------------------------------------------------------------
(***************************************************************************)
(* http_request, in a replica whose memory is m (its responses and tree).  *)
(***************************************************************************)
\* The routes that requests with a method take: to query_handler, to an update
\* call, or to none, where the call traps.  "/{*p}" does not match "/".
Route(request) ==
  CASE request.method \in {"GET", "HEAD", "PUT", "OPTIONS", "TRACE", "CONNECT"} ->
         IF request.url = <<"", "">> THEN "trap" ELSE "query"
    [] request.method = "POST" -> IF request.url = TodosPath THEN "update" ELSE "trap"
    [] request.method \in {"PATCH", "DELETE"} ->
         IF Len(request.url) = 3 /\ request.url[2] = "todos" /\ request.url[3] # "" THEN "update" ELSE "trap"
    [] OTHER -> "trap"

\* query_handler: a response and the place it is certified under.
QueryHandler(m, request) ==
  IF request.url = TodosPath /\ request.method \in DOMAIN m.responses
  THEN [response |-> m.responses[request.method], place |-> TodosPlace]
  ELSE [response |-> NotFound, place |-> NotFoundPlace]

HttpRequest(m, certificate, request) ==
  LET answer == QueryHandler(m, request)
  IN  [status |-> answer.response.status, body |-> answer.response.body, cel |-> answer.response.cel,
       fields |-> CertificateHeader(certificate, m.tree, answer.place)]
=============================================================================
