\* All messages of up to three characters.
SPECIFICATION Spec
CONSTANTS
    Characters <- SomeCharacters
    MaxLength = 3
    UserPrompts <- SomePrompts
INVARIANT
    RequestIsExact
CHECK_DEADLOCK FALSE
