\* Standard mode; the provider lists small and medium instances; one refetch.
CONSTANTS
    NoData = NoData
    DefaultValue = DefaultValue
    UserValue = UserValue
    EmptyListsPossible = FALSE
    MaxRefetches = 1
    Undefined = Undefined
    NoList = NoList
    CustomPanel = CustomPanel
    TypeError = TypeError
    IS_EXPERT_MODE = FALSE
    InstanceTypes <- MCInstanceTypes
    Volumes <- MCVolumes
SPECIFICATION SpecInstances
\* Once loaded and edited the page waits for input: it may stop.
CHECK_DEADLOCK FALSE
INVARIANT ServerTypeOfShownType
