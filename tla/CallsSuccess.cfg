\* A parser returns 1, success, for a packet that is too short.
SPECIFICATION Spec
CONSTANTS
  Radix = 3
  Half = 128
  MicroWord = 20
  Second = 3
  Input <- EveryInput
  Stale <- SomeStale
CHECK_DEADLOCK FALSE
INVARIANTS SuccessMeansParsed
