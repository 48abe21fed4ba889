\* The documented isolation of the users' requests.
SPECIFICATION Spec
CONSTANTS
    Users = {alice, bob}
    Amounts = {0, 1, 2}
    MaxStake = 3
    MaxRequests = 4
INVARIANTS OwnRequestOnly
CHECK_DEADLOCK FALSE
