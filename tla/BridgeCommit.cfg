\* A bridge is begun and committed; an intent has no totalSteps, as the service stores it.
SPECIFICATION AllSpec
CONSTANTS
    alice = alice
    bob = bob
    a = a
    b = b
    NoCount = NoCount
    None = None
    r1 = r1
    r2 = r2
    r3 = r3
    r4 = r4
    Correlations = {1}
    Wallets = {alice, bob}
    Admins = {alice}
    Avalanche <- avalanche
    Bundles <- AllBundles
    Requests = {r1, r2}
    Offered <- Everything
    Take = 2
    IntentCount = NoCount
    IdentityRows <- IdentitiesRegistered
    IdentityPage = 2
INVARIANTS MatchingCommitSucceeds
CHECK_DEADLOCK FALSE
