SPECIFICATION Spec
CONSTANTS
  Configs <- SingleConfig
  MaxOrdinal = 2
  Environment = {"fg_cancel"}
PROPERTIES
  CancelledIsFinal
