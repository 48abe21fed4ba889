\* One order of one wallet, and every administrative function of both contracts.
SPECIFICATION Spec
CONSTANTS
    Address = {alice, bob}
    Candidates = {bob}
    Vault = Vault
    Executor = Executor
    Pool = Pool
    NoAddress = NoAddress
    Weth = Weth
    Usdc = Usdc
    Lp = Lp
    Aero = Aero
    Native = Native
    Executors = {Executor}
    Prices = {1}
    Intervals = {1}
    Limits = {0}
    Deposits = {1}
    AdminDelay = 1
    MaxUint = 6
    Supply = 2
    Genesis = 1
    Horizon = 2
    MaxOrders = 1
    Aerodrome = Aerodrome
    Beacons = {beacon}
    InitArgs = {args, args2}
    RemovalDelay = 1
    Traders = {bob}
    Wallet = 2
    Pairs <- UsdcToWeth
    PoolWeth = 12
    PoolUsdc = 6
PROPERTIES OwnerIsServed AdapterIsForever ChangesAreDelayed
CHECK_DEADLOCK FALSE
