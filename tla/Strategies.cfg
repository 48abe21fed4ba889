\* Two requests, of one wallet or of two, of every kind and the vault besides.
SPECIFICATION Spec
CONSTANTS
    alice = alice
    bob = bob
    Weth = Weth
    Usdc = Usdc
    Lp = Lp
    Aero = Aero
    Native = Native
    Pool = Pool
    Vault = Vault
    Market = Market
    Executor = Executor
    NoAddress = NoAddress
    Aerodrome = Aerodrome
    Uncached = Uncached
    Users = {alice, bob}
    Admins = {alice}
    Beacons = {beacon}
    InitArgs = {args}
    RemovalDelay = 1
    Horizon = 1
    Sessions = {one, two}
    Requests <- AllRequests
    VaultSwaps = {2}
    VaultClients = {bob}
    MarketTrades <- SellWeth
    slippageBps = 2500
    Deadline = 0
    Funds <- SmallFunds
    InitialStake <- EarlierStake
    InitialReward <- EarlierReward
SYMMETRY Same
INVARIANTS ProxyKeepsNothing ExitAlwaysWorks
PROPERTIES OwnStepsOnly StakeStepFits
CHECK_DEADLOCK FALSE
