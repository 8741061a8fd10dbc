\* The server may answer a list query with an empty list.
CONSTANTS
    NoData = NoData
    DefaultValue = DefaultValue
    UserValue = UserValue
    EmptyListsPossible = TRUE
    MaxRefetches = 0
SPECIFICATION Spec
\* Once loaded and edited the page waits for input: it may stop.
CHECK_DEADLOCK FALSE
PROPERTY EventuallyInitialised
