SPECIFICATION Spec
CONSTANTS
  SlotsPerDay = 3
  Days = 2
  RuleDates = {0}
  Types = {"available_override", "vacation"}
  Rows = {e1, e2, e3}
  MaxRules = 2
  PresetDays = 2
  MaxResolveDays = 1
  MaxExceptions = 2
SYMMETRY RowSymmetry
INVARIANTS
  TypeOK
  EvaluatorsAgree
  SweepShowsLastLayer
  ResolutionBounded
