SPECIFICATION Spec
CONSTANTS
    Orders <- MCOrders
    Users <- MCUsers
    UserOf <- MCUserOf
    Scanners = {worker}
    Readers = {api}
    MaxFaults = 0
INVARIANTS
    ActivatedOnce
CHECK_DEADLOCK FALSE
