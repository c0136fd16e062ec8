SPECIFICATION Spec
CONSTANTS
  serve = serve
  cli = cli
  request1 = request1
  request2 = request2
  command = command
  Nobody = Nobody
  Home <- MCHome
  Objects = {serve, cli}
  Threads = {request1, command}
  Faults = {}
  MaxAppends = 3
INVARIANT AlwaysVerifies
