SPECIFICATION FairSpec
CONSTANTS
  c1 = c1
  c2 = c2
  h1 = h1
  h2 = h2
  stdout = stdout
  stderr = stderr
  x = x
  nl = nl
  Calls = {c1, c2}
  Must = {c2}
  Handlers = {h1, h2}
  Streams = {stdout}
  Writers <- CallStreams
  Byte = {x, nl}
  NL = nl
  Outputs <- Lines
CHECK_DEADLOCK FALSE
INVARIANTS
  IInv
  CallsEndClean
  LogAccounts
PROPERTIES
  InterruptEndsCalls
  ExitEndsCall
