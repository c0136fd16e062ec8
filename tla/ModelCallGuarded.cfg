SPECIFICATION Spec
CONSTANTS
  sound = sound
  prohibited = prohibited
  ungrounded = ungrounded
  number = number
  prose = prose
  overflow = overflow
  Attempts = 3
  Repairs = 2
  Texts <- MCTexts
  Parsed <- MCParsed
  Crashing = {overflow}
  Permitted = {sound, ungrounded, number}
  Grounded = {sound, prohibited}
  Mistyped = {number}
  Guarded = TRUE
INVARIANTS TypeOK RequestsAreBounded ConversationIsOwn
PROPERTIES EveryStepDescends ImplementsCall
