SPECIFICATION Spec
CONSTANTS
  a = a
  b = b
  shift = shift
  None = None
  Keys <- AllKeys
  RepeatingKeys <- TypingKeys
  Rates <- SomeRates
  Delays <- DelaysAndZero
INVARIANT SurvivesWithoutKeyboard
