SPECIFICATION Spec
CONSTANTS
  f = f
  d = d
  function = function
  file = file
  Ids = {i1, i2, i3}
  Keys = {f, d}
  Labels = {function, file}
  LabelOf <- MCLabelOf
  Links <- MCLinks
  Collections = {1, 2}
  Points = {1, 2}
  PageSize = 1
  BatchSize = 2
  None = None
  MaxRuns = 2
  MaxWrites = 1
  MaxFailures = 2
INVARIANTS QuietDumpIsExact StayingIsDumped StayingIsExported LossIsReported RestoreIsExact MissingIsCounted RestoredIsThere
SYMMETRY IdsSymmetry
CHECK_DEADLOCK FALSE
