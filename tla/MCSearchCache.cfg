SPECIFICATION Spec
CONSTANTS
  Searches = {q1, q2}
  Threads = {t1, t2}
  Modules = {"A"}
  Metas = {"A", "all"}
  Queries = {"x", "y"}
  FilterOf <- Filter
  InKey <- Between
  InText <- Text
  Configs <- Both
  None = None
  MaxVersion = 2
  MaxTime = 1
  MaxCommands = 1
SYMMETRY Interchangeable
CHECK_DEADLOCK FALSE
INVARIANTS FreshUnlessOvertaken SizesBounded
PROPERTIES AnswersAreFresh
