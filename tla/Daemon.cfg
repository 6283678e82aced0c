SPECIFICATION Spec
CONSTANT Requests = {"p", "q"}
INVARIANT CleanExit
PROPERTIES
  ApiStaysUp
  AcceptedIsAnswered
  KeepsPolling
  InterruptEnds
