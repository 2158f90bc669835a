SPECIFICATION FairSpec
CONSTANTS
    Orders <- MCOrders
    Users <- MCUsers
    UserOf <- MCUserOf
    Scanners = {worker}
    Readers = {}
    MaxFaults = 1
PROPERTY ConfirmedLeadsToActivated
CHECK_DEADLOCK FALSE
