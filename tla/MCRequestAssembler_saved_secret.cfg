\* Expert mode with the YAML tab, password authentication and a saved secret.
CONSTANTS
    Undefined = Undefined
    NoSecret = NoSecret
    NoRole = NoRole
    InvalidYaml = InvalidYaml
    NoDoc = NoDoc
    NoRequest = NoRequest
    SecretFieldNames = {"AWS_ACCESS_KEY_ID", "AWS_SECRET_ACCESS_KEY", "GCP_SERVICE_ACCOUNT_CONTENTS"}
    IS_YAML_ENABLED = TRUE
    IS_EXPERT_MODE = TRUE
    SecretIds = {7}
    Forms <- ExpertPasswordForms
SPECIFICATION Spec
\* A submit builds one request; the behaviour then stops.
CHECK_DEADLOCK FALSE
INVARIANTS
    NoInlinePasswordWithSavedSecret
