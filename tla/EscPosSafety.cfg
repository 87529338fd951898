SPECIFICATION EscPosSpec
CONSTANTS
    None = None
    Items <- MCItems
    MaxItems = 2
    MaxBacklog = 3
PROPERTY ReceiptsSpec
CHECK_DEADLOCK FALSE
