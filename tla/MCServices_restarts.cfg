SPECIFICATION FairSpec
CONSTANTS
    Wallet = {"w"}
    Backend = {"b1", "b2"}
    File = {"0001", "0002", "0003"}
    FilesOf <- Files
    MaxCrashes = 2
    Event = {"e1"}
    Attempts = 3
    Stalls = 1
    MaxFaults = 3
    None = None
CHECK_DEADLOCK FALSE
INVARIANTS SchemaIsWhole EventsAreAccounted
PROPERTIES EveryoneServes WrittenEventsEnd
