\* Reads of a gauge and an adapter through three endpoints; two reports of transactions;
\* requests of a wallet.
SPECIFICATION BackendSpec
CONSTANTS
    c1 = c1
    c2 = c2
    f1 = f1
    f2 = f2
    alice = alice
    bob = bob
    Calls = {c1, c2}
    Primary = primary
    Fallbacks = {f1, f2}
    Timeout = 1
    Recovery = 1
    Readers = {r1, r2}
    Keys = {gauge, adapter}
    AdapterKeys = {adapter}
    Values = {x, y}
    NoKey = NoKey
    NoCall = NoCall
    NoEntry = NoEntry
    Ttl = 3
    EmptyTtl = 1
    LookupTimeout = 1
    Hashes = {h1}
    Submitters = {alice, bob}
    NoRecord = NoRecord
    NoLoop = NoLoop
    Torn = Torn
    NotAsking = NotAsking
    MaxAttempts = 2
    MaxSubmissions = 2
    Clients = {ip}
    Senders = {w1, w2}
    NoWallet = NoWallet
    NoCount = NoCount
    WindowOf <- windows
    MaxOf <- limits
SYMMETRY Same
INVARIANTS PrimaryReturns FailsOnlyWithoutFallback AnswersAreRecent ReadersAreServed
           RestartForgetsNothing PendingIsPolled BurstIsBounded RefusalIsEarned
CHECK_DEADLOCK FALSE
