SPECIFICATION ViewSpec
CONSTANTS
  Listings = {t1, l1}
  ThbListings = {t1}
  Buyers = {k1}
  Writers = {w1}
  Readers = {r1}
  Null = Null
  TTL = 1
  Amounts = {1, 2}
  Supply = 0
  MaxRaises = 1
SYMMETRY Symmetry
INVARIANTS CacheCurrent CalmAnswerExact 
PROPERTIES FreshEnough
