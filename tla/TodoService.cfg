SPECIFICATION Spec
CONSTANTS
  None = None
  Garbled = Garbled
  MaxU128 = 3
  Titles = {"a"}
  IdLimit = 2
  Root = root
  Delegates = {s1, s2}
  Faulty = {s2}
  Canister = 5
  Requests <- SomeRequests
  Offsets = {1, 3}
  MaxClock = 2
VIEW View
INVARIANTS InStep ServedVerifies OnlySubnetsInCharge AcceptedWasServed
