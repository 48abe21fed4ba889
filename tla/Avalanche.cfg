\* Two requests or own transactions, of one wallet or of two; one has a position.  Or two
\* users of the shared staking contract.
SPECIFICATION AvalancheSpec
CONSTANTS
    alice = alice
    bob = bob
    Avax = Avax
    Usdc = Usdc
    SAvax = SAvax
    QiAvax = QiAvax
    QiUsdc = QiUsdc
    JoeUsdc = JoeUsdc
    JoeSAvax = JoeSAvax
    Executor = Executor
    Owner = Owner
    Market = Market
    Lend = Lend
    Swap = Swap
    Benqi = Benqi
    TraderJoe = TraderJoe
    Savax = Savax
    Beacon = Beacon
    Args = Args
    NoAddress = NoAddress
    Users = {alice, bob}
    Sessions = {one, two}
    Requests <- AllRequests
    MarketTrades <- SellAvax
    Scale = 2
    MaxRate = 3
    slippageBps = 2500
    Funds <- SmallFunds
    Earlier = {alice}
    Collateral = 4
    Loan = 1
    Unlocks <- OneEach
    MaxRequests = 4
    Amounts = {0, 1, 2}
    MaxStake = 3
SYMMETRY Same
INVARIANTS ProxyKeepsNothing UnwindAlwaysWorks SlotsLeadToRequests
PROPERTIES OwnStepsOnly RedeemIsFair
CHECK_DEADLOCK FALSE
