\* Expert mode: every provider, mode, existing-cluster flag and backup tool
\* with SSH authentication and no saved secret; for an AWS cluster, every
\* extensions value of MCExtensionValues.
CONSTANTS
    Undefined = Undefined
    NoSecret = NoSecret
    NoRole = NoRole
    InvalidYaml = InvalidYaml
    NoDoc = NoDoc
    NoRequest = NoRequest
    SecretFieldNames = {"AWS_ACCESS_KEY_ID", "AWS_SECRET_ACCESS_KEY", "GCP_SERVICE_ACCOUNT_CONTENTS"}
    IS_YAML_ENABLED = TRUE
    IS_EXPERT_MODE = TRUE
    SecretIds = {NoSecret}
    Forms <- ExpertAssemblerForms
SPECIFICATION Spec
\* A submit builds one request; the behaviour then stops.
CHECK_DEADLOCK FALSE
INVARIANTS
    TypeOK
    YamlSubmitAgreesWithForm
    ExtensionsResolvedAsSpecified
