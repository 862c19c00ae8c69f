CONSTANTS
    Texts <- MCTexts
    Again <- MCAgain
    Documents <- MCDocuments
    Lower <- MCLower
    MaxCompiles = 2
SPECIFICATION Spec
CHECK_DEADLOCK FALSE
INVARIANTS
  Safe
