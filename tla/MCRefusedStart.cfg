SPECIFICATION Spec
CONSTANTS
    Processes = {p1, p2}
    Strategies <- MCStrategies
    Scripts <- MCScripts
    Threads = {t1, t2, t3}
    Handlers = {r1, r2}
    MaxThreads = 1
    MaxRequests = 2
    MaxFaults = 0
    None = None
PROPERTIES
    RefusedStartRestoresStatus
CHECK_DEADLOCK FALSE
