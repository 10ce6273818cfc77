SPECIFICATION WsSpec
CONSTANTS
  MaxSlots = 2
  MaxHandles = 3
  Foreign = {1}
  MaxBytes = 2
  Resets = FALSE
  Polite = TRUE
  MayClose = TRUE
  Ping = TRUE
INVARIANTS NoOrphans UrlPresent OpenToldOnce
