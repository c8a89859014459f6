SPECIFICATION FairSpec
CONSTANTS
    MaxClients = 1
    MaxEvents = 1
INVARIANTS
    NullIsNotHandled
PROPERTIES
    ThreadsEnd
CHECK_DEADLOCK FALSE
