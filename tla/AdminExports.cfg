\* Bridges, preparations and bulk exports; an intent counts as a record of no steps.
SPECIFICATION AllSpec
CONSTANTS
    alice = alice
    bob = bob
    a = a
    b = b
    NoCount = NoCount
    None = None
    r1 = r1
    r2 = r2
    r3 = r3
    r4 = r4
    Correlations = {1, 2}
    Wallets = {alice, bob}
    Admins = {alice}
    Avalanche <- avalanche
    Bundles <- AllBundles
    Requests = {r1, r2, r3, r4}
    Offered <- Everything
    Take = 2
    IntentCount = 0
    IdentityRows <- IdentitiesRegistered
    IdentityPage = 2
SYMMETRY Same
INVARIANTS PreparedAsReturned ExportIsComplete ExportSurvivesIntents
           IdentitiesAreReported
CHECK_DEADLOCK FALSE
