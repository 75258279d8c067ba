CONSTANTS Pods = {1, 2, 3, 4}  Devices = {d1, d2, d3, d4}
    ResourceOf <- MCResourceOf  SizeOf <- MCSizeOf
    Paced = TRUE  MaxCreations = 5  MaxFaults = 1
SPECIFICATION Spec
INVARIANTS ReservationTypeOK HoldersDisjoint ServedUnlessSwapped
CHECK_DEADLOCK FALSE
