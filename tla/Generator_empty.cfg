SPECIFICATION Spec
CONSTANTS
  Services <- TestServices
  NULL = NULL
INVARIANTS OnlyEmptyIsFireAndForget
CHECK_DEADLOCK FALSE
