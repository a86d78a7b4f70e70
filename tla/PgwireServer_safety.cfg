\* One handle, two connections, both kinds of endpoint, three messages.
SPECIFICATION Spec
CONSTANTS
  Clients = {c1, c2}
  Callers = {h1}
  Endpoints = {"tcp", "unix"}
  MaxMessages = 3
INVARIANTS OneBackend CloseIsTrue BytesInOrder
PROPERTIES ShutdownEnds
CHECK_DEADLOCK FALSE
