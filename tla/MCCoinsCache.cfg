SPECIFICATION Spec
CONSTANTS
  Outpoints = {o1, o2}
  Coins = {c1, c2}
  Hashes = {h1, h2}
  NoCoin = NoCoin
  NullHash = NullHash
  NoEntry = NoEntry
INVARIANTS
  SanityCheck
  FreshIsAbsentBelow
  CleanMatchesBelow
  NeverThrows
PROPERTY RefinesViews
SYMMETRY Symmetry
