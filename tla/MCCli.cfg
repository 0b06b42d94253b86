SPECIFICATION CliSpec
CONSTANTS
    Commands = {c1, c2}
    Texts <- SomeTexts
    None = None
    Delay = 2
    MaxCopies = 2
    Space = Space
    Padding = Padding
    Foreign = Foreign
    AccBits = 13
    Inputs <- SomeInputs
    Capacities = {0, 1, 2, 3}
    Tried = {0, 21, 31}
    MaxChars = 5
INVARIANTS SeedsExact
PROPERTIES ClearIsDue SecretCleared
\* all seeds decoded, all commands done and all helpers gone
CHECK_DEADLOCK FALSE
