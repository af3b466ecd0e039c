CONSTANTS
    r1 = r1
    r2 = r2
    r3 = r3
    NoOne = NoOne
    Requests <- MCRequests
    SettingsChoices <- MCAllSettings
    Quantities <- MCQuantities
    MaxQty = 2
    MaxOrders = 2
    MaxDays = 1
    MaxRestarts = 1
    MaxPlaced = 4
SPECIFICATION FairSpec
INVARIANTS Overshoot OneOrderPerRequest
PROPERTIES OrdersAnswered
