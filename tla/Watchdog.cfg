SPECIFICATION FairSpec
CONSTANTS
  WordMod <- MCWordMod
  MemWords <- MCMemWords
  Program <- MCProgram
  DoResetAddr <- MCDoResetAddr
  FlashInit <- MCFlashInit
  StackWords <- MCStackWords
  HandlerWords <- MCHandlerWords
  Seeds = {47, 992}
  MaxCommands = 2
PROPERTY NoTickLost
PROPERTY WatchdogKeepsFiring
PROPERTY ProgramProgresses
CHECK_DEADLOCK FALSE
