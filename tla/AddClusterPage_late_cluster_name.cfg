\* The default cluster name may arrive after the other three queries.
CONSTANTS
    NoData = NoData
    DefaultValue = DefaultValue
    UserValue = UserValue
    EmptyListsPossible = FALSE
    MaxRefetches = 0
SPECIFICATION Spec
\* Once loaded and edited the page waits for input: it may stop.
CHECK_DEADLOCK FALSE
PROPERTY NoUserEditOverwritten
