SPECIFICATION Spec
CHECK_DEADLOCK FALSE
CONSTANTS
  MaxTime = 40
  MaxOptions = 8
INVARIANTS
  CodingExact PathsResolved FieldsFound OptionsApplied ScansExact 
  OutputWhole
