----------------------- MODULE MCLiquidityStrategies ------------------------
(* Instances of LiquidityStrategies for TLC.                               *)
EXTENDS LiquidityStrategies

CONSTANTS alice, bob

Wallet(weth, usdc, lp, eth) ==
    [t \in AllTokens |-> CASE t = Weth -> weth [] t = Usdc -> usdc [] t = Lp -> lp
                           [] t = Native -> eth [] OTHER -> 0]

\* The market holds the liquidity that is always in the pool.
SmallFunds ==
    [c \in Users \cup {Vault, Market, Executor, Pool} |->
        CASE c = Pool -> Wallet(6, 6, 0, 0)
          [] c = Market -> Wallet(2, 0, 4, 0)
          [] c = Vault -> Wallet(0, 2, 0, 0)
          [] c = Executor -> Wallet(0, 0, 0, 0)
          [] OTHER -> Wallet(4, 4, 0, 0)]

\* alice has a position already.
EarlierStake == [u \in Users |-> IF u = alice THEN 2 ELSE 0]
EarlierReward == [u \in Users |-> IF u = alice THEN 1 ELSE 0]

Enter(a, b) == [kind |-> "enter", a |-> a, b |-> b]
Exit(amount) == [kind |-> "exit", amount |-> amount]
ExitAll == Exit(0)
Claim == [kind |-> "claim"]
Swap(in, out, amount) ==
    [kind |-> "swap", tokenIn |-> in, tokenOut |-> out, amountIn |-> amount]

AllRequests == {Enter(4, 4), ExitAll, Exit(1), Claim, Swap(Weth, Usdc, 2)}

\* One trade each way would let the price wander; the vault's swaps go the other way.
SellWeth == {<<Weth, Usdc, 2>>}

Same == Permutations(Sessions)
=============================================================================
