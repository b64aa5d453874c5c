SPECIFICATION Spec
CONSTANTS
  Requests = {r1, r2}
  Hashes = {h1}
  Procs = {p1, p2, p3}
  MaxRetries = 3
  MaxHangs = 0
  PortReuse = FALSE
INVARIANT OwnDirectory
