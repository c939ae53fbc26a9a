\* Every pure function on inputs around its edges.
SPECIFICATION Spec
CONSTANTS
  Radix = 3
  Half = 128
  MicroWord = 20
  Second = 3
  Input <- EveryInput
  Stale <- SomeStale
CHECK_DEADLOCK FALSE
INVARIANTS SerialisedWhole RefusedWhenLong PublishComesBack FieldsParsed
  HandlerByLevels DispatchedByName ExpiryRight WaitEndsInTime ClockRight ChunksInvisible
