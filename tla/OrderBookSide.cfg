SPECIFICATION Spec
CONSTANTS
  Texts <- MCTexts
  Amounts = {0, 1, 3}
INVARIANTS MapsAgree BestFirst TopAmountIsDepth
PROPERTIES IsPriceLevels
