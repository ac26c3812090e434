SPECIFICATION Spec
CONSTANTS
    Dev = {meter, neighbour}
    Wanted = meter
    MaxRounds = 3
CHECK_DEADLOCK FALSE
INVARIANTS
    TypeOK
    ScanListsAdvertisers
