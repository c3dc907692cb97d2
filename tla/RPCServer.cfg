\* Two clients with two requests each.
CONSTANTS
  c1 = c1
  c2 = c2
  Clients <- TwoClients
  Backlog = 1
  MaxRequests = 2
  Requests <- OneOfEachOutcome
  None = None
SPECIFICATION FairSpec
INVARIANTS
  AnswersMatch
  OneDialogue
PROPERTIES
  KeepsDialogue
  RequestsAreServed
  LeavingFreesTheServer
\* the server has stopped and every client has left
CHECK_DEADLOCK FALSE
