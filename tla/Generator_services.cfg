SPECIFICATION Spec
CONSTANTS
  Services <- MCServices
  NULL = NULL
INVARIANTS WellTyped Reaches
CHECK_DEADLOCK FALSE
