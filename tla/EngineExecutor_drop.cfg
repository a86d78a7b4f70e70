SPECIFICATION FairSpec
CONSTANTS
  Clients = {c1, c2}
  Kinds = {"request", "backup", "transaction", "close", "cancel"}
  Capacity = 1
  MaxTxOps = 1
INVARIANTS AnswersAreTrue InterruptHitsItsRequest
PROPERTIES EveryCallIsAnswered DropClosesSession
CHECK_DEADLOCK FALSE
