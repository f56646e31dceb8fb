SPECIFICATION Spec
CONSTANTS
  Nil = Nil
  Fields <- QueryFields
  Structs <- NoStructs
  Texts <- PassphraseTexts
  Valid <- MCValid
  BoolOf <- MCBoolOf
  IntOf <- MCIntOf
  Signed <- MCSigned
CHECK_DEADLOCK FALSE
INVARIANTS
  PassphraseUsed
