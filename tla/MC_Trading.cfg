SPECIFICATION Spec
CONSTANTS
  Symbols = {btc, eth}
  Lots = {1, 2, 3}
  OrderPrice = 720
  FillPrices = {720, 1440}
  MaxOrder = 1440
  MaxPosition = 1440
  MaxTotal = 2160
  Capital = 7200
  MinCapital = 5760
  OrderQueueSize = 2
  FillQueueSize = 2
  OrderBound = 3
SYMMETRY Symmetry
INVARIANTS TypeOK FillsConserved ProfitAccounted LimitHoldsAlone
