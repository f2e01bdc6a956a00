SPECIFICATION SignSpec
CONSTANTS
    Publisher = {q1}
    SignServer = {g1}
    Sign = {"open", "full"}
    NoSign = NoSign
    MaxPublishes = 3
    MaxSignFaults = 1
PROPERTIES
    DuplicateShown
CHECK_DEADLOCK FALSE
