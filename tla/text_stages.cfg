SPECIFICATION MCSpec
CONSTANTS
  Char <- MCChar
  Lines <- MCLines
  Header <- MCHeader
  MaxLines = 6
  Templates <- MCTemplates
  Inputs <- MCInputs
  Addresses <- MCAddresses
  MaxNumber = 20
  MaxLabel = 3
  Texts <- MCTexts
INVARIANTS BannedNowhere AcceptedIsAsWritten SubstitutionIsExact RedactionSettles
CHECK_DEADLOCK FALSE
