\* One rotation of every file and of the servers, four events on the connection.
SPECIFICATION Spec
CONSTANTS
    MaxGen = 1
    MaxEvents = 4
INVARIANTS DisconnectsAreRated IdentityIsCurrent
PROPERTIES Reconnects
CHECK_DEADLOCK FALSE
