SPECIFICATION Spec
CONSTANTS
    p1 = p1
    p2 = p2
    Params = {p1, p2}
    Default <- MCDefault
PROPERTIES
    FlagsPreserved
