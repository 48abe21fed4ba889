\* Two orders over the pools of two tokens, called directly or through the backend;
\* administration is idle.
SPECIFICATION OrdersSpec
CONSTANTS
    alice = alice
    bob = bob
    usdc = usdc
    weth = weth
    Address <- Accounts
    NoAddress = NoAddress
    Executors = {execV2}
    Candidates = {}
    Tokens <- Pair
    Prices = {0, 2}
    Intervals = {0, 2, 10}
    Limits = {0, 2}
    Deposits = {0, 2, 3}
    Outputs = {1}
    AdminDelay = 2
    MaxUint = 10
    Genesis = 3
    Horizon = 5
    MaxOrders = 2
    Requests <- Orders
    Allowances = {0}
    UpTo = 2
    Supply = 3
SYMMETRY Swappers
INVARIANTS Solvency SwapBudget Pace NextExecutionFits PollIsExact
    CancelPaysBack ScanIsComplete
PROPERTIES KeepsPromise
CHECK_DEADLOCK FALSE
