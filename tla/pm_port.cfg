SPECIFICATION Spec
CONSTANTS
  Requests = {r1}
  Hashes = {h1, h2}
  Procs = {p1, p2}
  MaxRetries = 3
  MaxHangs = 0
  PortReuse = TRUE
INVARIANT OwnInstance
