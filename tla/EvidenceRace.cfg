\* The hash of a step while two hashes race.
SPECIFICATION Spec
CONSTANTS
    hash0 = hash0
    hash1 = hash1
    one = one
    two = two
    LastStep = 1
    NoHash = NoHash
    Hashes = {hash0, hash1}
    Requests = {one, two}
    Offered <- Replacement
SYMMETRY Same
PROPERTIES HashIsImmutable
CHECK_DEADLOCK FALSE
