SPECIFICATION Spec
CONSTANTS
    r1 = r1
    r2 = r2
    alice = alice
    bob = bob
    x = x
    y = y
    z = z
    None = None
    Anonymous = Anonymous
    Requests <- MCRequests
    Authors <- MCAuthors
    Texts <- MCTexts
    Creates <- PlainForce
    Alone = {"create", "delete"}
    Eager = TRUE
    MaxId = 4
    MaxFaults = 0
SYMMETRY Symmetry
INVARIANT
    ListingNamesDocuments
