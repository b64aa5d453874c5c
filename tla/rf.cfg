CONSTANTS
  k1 = k1
  t1 = t1
  t2 = t2
  Names = {"composite", "bucket"}
  Keys = {k1}
  Types = {"Ready", t1, t2}
  Reserved = {"Ready"}
  MaxEvents = 1
  MaxConditions = 2
SPECIFICATION Spec
INVARIANTS SuccessDelivers FatalKeepsState ForcedDecide
