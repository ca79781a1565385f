CONSTANTS
  Programs <- MCPrograms
  Commands <- MCCommands
  Texts <- MCTexts
  Behind <- MCBehind
  BufferSize = 3
SPECIFICATION Spec
CHECK_DEADLOCK FALSE
INVARIANTS
  ArgumentsMeant
  HeardOnlyEarlyOrForeground
  AcceptsWhatIsShown
