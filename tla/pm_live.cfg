SPECIFICATION MCFairSpec
CONSTANTS
  r1 = r1
  h1 = h1
  Requests = {r1, r2}
  Hashes = {h1, h2}
  Procs = {p1, p2}
  MaxRetries = 0
  MaxHangs = 1
  PortReuse = TRUE
INVARIANTS LostByHang DirectoryOfOne
PROPERTIES CallReturns RoundEnds SuccessorKept OwnChildAnswers
