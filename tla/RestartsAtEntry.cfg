SPECIFICATION RestartSpec
CONSTANTS
  WordMod <- MCWordMod
  MemWords <- MCMemWords
  Program <- ResetProgram
  DoResetAddr <- MCDoResetAddr
  FlashInit <- MCFlashInit
  Seeds = {50}
  MaxCommands = 1
PROPERTY RestartsAtEntry
CHECK_DEADLOCK FALSE
