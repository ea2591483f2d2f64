SPECIFICATION CountedSpec
CONSTANTS
  WordMod <- MCWordMod
  MemWords <- MCMemWords
  Program <- OneRoundProgram
  DoResetAddr <- MCDoResetAddr
  FlashInit <- MCFlashInit
  Seeds = {17, 50}
  CPAddrs = {0, 306, 314}
  MaxCommands = 2
  MaxCycles = 1100
INVARIANT CounterTypes
INVARIANT NoCycleTwice
INVARIANT EveryCycleCounted
CHECK_DEADLOCK FALSE
