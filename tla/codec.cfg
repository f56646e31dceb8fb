SPECIFICATION Spec
CONSTANTS
  Nil = Nil
  Fields <- SFields
  Structs <- SStructs
  Texts <- STexts
  Valid <- MCValid
  BoolOf <- MCBoolOf
  IntOf <- MCIntOf
  Signed <- MCSigned
CHECK_DEADLOCK FALSE
INVARIANTS
  RoundTrip
  SettingsApply
