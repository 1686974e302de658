\* Two symbols, one listed twice; servers, connections and the process come and go.
SPECIFICATION FairSpec
CONSTANTS
  symbols <- MCSymbols
  max_attempts = 2
  Prices = 2
  MaxLost = 1
  NoPrice = NoPrice
INVARIANTS TypeOK Connected LatestIsHistory CountedIsStored StoresAgree
PROPERTIES SelfHeals
