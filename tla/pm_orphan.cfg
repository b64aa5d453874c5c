SPECIFICATION Spec
CONSTANTS
  Requests = {r1, r2}
  Hashes = {h1}
  Procs = {p1, p2}
  MaxRetries = 3
  MaxHangs = 1
  PortReuse = FALSE
INVARIANT NoOrphan
