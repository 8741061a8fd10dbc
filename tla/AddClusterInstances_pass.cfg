\* Expert mode (custom tab, volume type reset); non-empty answers; two
\* refetches; the provider lists small and medium instances and no large list.
CONSTANTS
    NoData = NoData
    DefaultValue = DefaultValue
    UserValue = UserValue
    EmptyListsPossible = FALSE
    MaxRefetches = 2
    Undefined = Undefined
    NoList = NoList
    CustomPanel = CustomPanel
    TypeError = TypeError
    IS_EXPERT_MODE = TRUE
    InstanceTypes <- MCInstanceTypes
    Volumes <- MCVolumes
SPECIFICATION SpecInstances
\* Once loaded and edited the page waits for input: it may stop.
CHECK_DEADLOCK FALSE
INVARIANT TypeOKInstances
INVARIANT ServerTypeSubmittable
PROPERTY EventuallyInitialised
