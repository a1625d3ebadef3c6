CONSTANTS
  WORD_BITS = 12
  SIGN_BIT = 2048
  DATA_MEMORY_SIZE_WORDS = 4
  IO_INPUT_DATA = 3840
  Limit = 40
  Images <- MCImages
  Schedules <- MCSchedules
  Translated <- MCTranslated
  Instructions <- MCInstructions
  Texts <- MCTexts
  Promised <- MCPromised
  MaxTranslations = 3
SPECIFICATION ToolSpec
INVARIANTS ReadsOnlyCompleteFiles ListsTheTranslated SavesThePromised
CHECK_DEADLOCK FALSE
