\* Two requests of any kind about a bundle of two steps.
SPECIFICATION Spec
CONSTANTS
    hash0 = hash0
    hash1 = hash1
    one = one
    two = two
    LastStep = 1
    NoHash = NoHash
    Hashes = {hash0, hash1}
    Requests = {one, two}
    Offered <- OneHashPerStep
SYMMETRY Same
INVARIANTS StatusIsBacked NeverMerelyPrepared FinalStatusIsCurrent ExportIsBacked
CHECK_DEADLOCK FALSE
