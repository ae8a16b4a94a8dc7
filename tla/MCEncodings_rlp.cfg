SPECIFICATION EncodingsSpec
CONSTANTS
    c1 = c1
    c2 = c2
    Content = {c1, c2}
    MaxLeaves = 7
    Kinds = {"encoded"}
INVARIANTS KindIsOfNextValue
CHECK_DEADLOCK FALSE
