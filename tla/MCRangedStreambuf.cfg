SPECIFICATION WindowSpec
CONSTANTS
  MaxBackend = 5
  MaxRead = 4
  NegativeSeeks = FALSE
INVARIANTS Synced InWindow
PROPERTIES ReadsWindow
