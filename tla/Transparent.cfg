SPECIFICATION Spec
CONSTANTS
  WordMod <- MCWordMod
  MemWords <- MCMemWords
  Program <- OnceProgram
  DoResetAddr <- MCDoResetAddr
  FlashInit <- MCFlashInit
  StackWords <- MCStackWords
  HandlerWords <- MCHandlerWords
  Seeds = {6, 17, 50}
  MaxCommands = 2
INVARIANT TypeOK
INVARIANT ExceptionsAreImmediate
INVARIANT FramesIntact
INVARIANT StackDiscipline
PROPERTY Transparent
CHECK_DEADLOCK FALSE
