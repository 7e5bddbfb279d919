CONSTANTS
    MAX_STORED_MESSAGES = 3
    MAX_STORED_SIZE = 5
    MAX_LOADED_SIZE = 3
    Worlds <- FiveWorlds
SPECIFICATION ChatSpec
INVARIANTS
    PendingIsOwned
    NothingDropped
    StoredLoads
CHECK_DEADLOCK FALSE
