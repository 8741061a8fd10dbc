\* Expert mode: every DCS and load-balancer topology over three addresses (a master and up to two replicas).
CONSTANTS
    Undefined = Undefined
    NoSecret = NoSecret
    NoRole = NoRole
    IS_EXPERT_MODE = TRUE
    IPs = {"10.0.0.1", "10.0.0.2", "10.0.0.3"}
    SecretIds = {NoSecret}
    Forms <- ExpertTopologies
SPECIFICATION Spec
\* The builders are called once per submit and return.
CHECK_DEADLOCK FALSE
INVARIANTS
    TypeOK
    MasterReplicaPartition
    DcsInventoryAgreesWithExtraVars
