SPECIFICATION EditorSpec
CONSTANTS
    Notes = {n1, n2}
    Slots = {k1, k2}
    MaxEdits = 3
    MaxOpens = 0
    MaxFaults = 1
    None = None
PROPERTIES
    RotationKeepsText
CHECK_DEADLOCK FALSE
