CONSTANTS
  WORD_BITS = 12
  SIGN_BIT = 2048
  DATA_MEMORY_SIZE_WORDS = 4
  IO_INPUT_DATA = 3840
  Sources <- MCSources
  FinalSources <- MCFinalSources
  Pieces <- MCPieces
  MaxEdits = 1
  Translation <- TranslationOf
SPECIFICATION TranslatorSpec
INVARIANTS TokensAreThePieces ParsesByTheGrammar CompilesMeaningfulNames
CHECK_DEADLOCK FALSE
