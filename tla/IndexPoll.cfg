SPECIFICATION Spec
CONSTANT Requests = {"p", "q"}
INVARIANT IndexKeepsPolling
