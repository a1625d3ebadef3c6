CONSTANTS
  WORD_BITS = 8
  SIGN_BIT = 128
  DATA_MEMORY_SIZE_WORDS = 4
  IO_INPUT_DATA = 224
  Limit = 30
  Setups <- AllSetups
  Pool <- AnyPool
  Handlers <- BothHandlers
  Images <- MCImages
  Schedules <- MCSchedules
SPECIFICATION Spec
INVARIANTS TypeOK TicksBounded
PROPERTIES FaultKeepsData EveryStepSpends
CHECK_DEADLOCK FALSE
