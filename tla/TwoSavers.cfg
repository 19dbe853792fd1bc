\* A daemon that stops saves while a worker may still be saving.
SPECIFICATION Spec
CONSTANTS
  Absent = Absent
  Torn = Torn
  Empty = Empty
  Overlap = TRUE
  MaxChanges = 4
  MaxCrashes = 2
  MaxFailures = 2
INVARIANTS
  NeverTorn
CHECK_DEADLOCK TRUE
