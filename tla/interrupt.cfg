SPECIFICATION FairSpec
CONSTANTS
  c1 = c1
  c2 = c2
  h1 = h1
  h2 = h2
  stdout = stdout
  stderr = stderr
  x = x
  nl = nl
  Calls = {c1}
  Must = {}
  Handlers = {h1}
  Streams = {stdout}
  Writers <- CallStreams
  Byte = {x, nl}
  NL = nl
  Outputs <- Lines
CHECK_DEADLOCK FALSE
PROPERTIES
  InterruptKillsAll
