SPECIFICATION Spec
CONSTANTS
    r1 = r1
    r2 = r2
    alice = alice
    bob = bob
    x = x
    y = y
    z = z
    None = None
    Anonymous = Anonymous
    Requests <- MCRequests
    Authors <- MCAuthors
    Texts <- MCTexts
    Creates <- PlainForce
    Alone = {"create", "delete"}
    Eager = FALSE
    MaxId = 3
    MaxFaults = 0
SYMMETRY Symmetry
INVARIANT
    NoOrphans
