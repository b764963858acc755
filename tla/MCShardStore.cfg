SPECIFICATION FairSpec
CONSTANTS
    d1 = d1
    d2 = d2
    d3 = d3
    x = x
    Relay = Relay
    Devices <- TwoDevices
    Behind <- OneBehind
    Removers <- OneBehind
    Rows <- OneRow
    Old <- OneRow
    MaxIndex = 2
    MaxTurns = 3
    MaxFlips = 1
INVARIANT TypeOK
PROPERTIES RowsStay  
CHECK_DEADLOCK FALSE
