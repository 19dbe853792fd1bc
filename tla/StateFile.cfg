\* The two savers one after the other; crashes and failures at any step.
SPECIFICATION Spec
CONSTANTS
  Absent = Absent
  Torn = Torn
  Empty = Empty
  Overlap = FALSE
  MaxChanges = 4
  MaxCrashes = 2
  MaxFailures = 2
INVARIANTS
  StateFileTypeOK
  NeverTorn
  CleanMeansSaved
PROPERTIES
  ImplementsStore
CHECK_DEADLOCK TRUE
