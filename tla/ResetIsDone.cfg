SPECIFICATION Spec
CONSTANTS
  WordMod <- MCWordMod
  MemWords <- MCMemWords
  Program <- ResetProgram
  DoResetAddr <- MCDoResetAddr
  FlashInit <- MCFlashInit
  StackWords <- MCStackWords
  HandlerWords <- MCHandlerWords
  Seeds = {50}
  MaxCommands = 1
PROPERTY ResetIsDone
CHECK_DEADLOCK FALSE
