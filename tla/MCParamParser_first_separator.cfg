\* Each text is converted once; the behaviour then stops.
SPECIFICATION Spec
CONSTANTS
    Chars <- MCChars
    MaxLen <- MCMaxLen
    NotCalled = NotCalled
    TypeError = TypeError
    NoKeys = NoKeys
    Undefined = Undefined
INVARIANT ParseMatchesSpec
CHECK_DEADLOCK FALSE
