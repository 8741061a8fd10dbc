\* Standard mode: the fields the standard form shows, the rest at their defaults.
CONSTANTS
    Undefined = Undefined
    NoSecret = NoSecret
    NoRole = NoRole
    IS_EXPERT_MODE = FALSE
    IPs = {"10.0.0.1", "10.0.0.2"}
    SecretIds = {NoSecret, 7}
    Forms <- StandardForms
SPECIFICATION Spec
\* The builders are called once per submit and return.
CHECK_DEADLOCK FALSE
INVARIANT PasswordAuthUsesPassword
