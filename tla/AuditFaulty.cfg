SPECIFICATION Spec
CONSTANTS
  serve = serve
  cli = cli
  request1 = request1
  request2 = request2
  command = command
  Nobody = Nobody
  Home <- MCHome
  Objects = {serve, cli}
  Threads = {request1, request2, command}
  Faults = {"write", "sync", "kill", "power"}
  MaxAppends = 4
INVARIANTS TypeOK NothingLost OrderlyVerifies
PROPERTY DurableLinesStay
