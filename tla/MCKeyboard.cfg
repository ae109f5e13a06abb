CONSTANTS
  Keys <- MCKeys
  MaxHeld = 2
SPECIFICATION Spec
INVARIANTS
  TypeOK
  NoStuckModifier
  PrefixConsumed
  SetupInOrder
PROPERTY
  ChoicesFinal
