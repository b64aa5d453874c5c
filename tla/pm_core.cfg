SPECIFICATION SpecExecutions
CONSTANTS
  Requests = {r1, r2}
  Hashes = {h1}
  Procs = {p1, p2, p3, p4}
  MaxRetries = 1
  MaxHangs = 0
  PortReuse = FALSE
SYMMETRY Symmetry
INVARIANTS IndInv LockOrder OneRequestPerChild OneServerPerSpec AttemptsApart OverlapIsDoomed RunsCounted
PROPERTIES GcSparesBusy ImplementsFunctionCalls
