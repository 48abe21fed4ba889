------------------------- MODULE MCAvalanche -------------------------------
(* An instance of Avalanche for TLC.                                       *)
EXTENDS Avalanche

CONSTANTS alice, bob

Holding(avax, usdc, savax, qiUsdc) ==
    [t \in AllTokens |-> CASE t = Avax -> avax [] t = Usdc -> usdc [] t = SAvax -> savax
                           [] t = QiUsdc -> qiUsdc [] OTHER -> 0]

\* The markets have the cash for every qToken at MaxRate; sAVAX holds the shares of the
\* requests made earlier, and the Avax of all shares.
SmallFunds ==
    [c \in Users \cup Markets \cup {Executor, Market, Lend, Swap, SAvax, JoeUsdc, JoeSAvax} |->
        CASE c = QiAvax -> Holding(12, 0, 0, 0)
          [] c = QiUsdc -> Holding(0, 12, 0, 0)
          [] c = SAvax -> Holding(12, 0, 3, 0)
          [] c = JoeUsdc -> Holding(6, 6, 0, 0)
          [] c = JoeSAvax -> Holding(6, 0, 6, 0)
          [] c = Market -> Holding(2, 0, 0, 0)
          [] c \in Users -> Holding(2, 3, 1, 2)
          [] OTHER -> NoTokens]

OneEach == <<1, 1, 1>>

OfMarket(kind, q, n) == [kind |-> kind, qToken |-> q, amount |-> n]
Shared(contract, call) == [kind |-> "shared", contract |-> contract, call |-> call]

Lending == {OfMarket("supply", QiAvax, 2), OfMarket("supply", QiUsdc, 2),
            OfMarket("redeem", QiAvax, 2), OfMarket("redeem", QiUsdc, 2),
            OfMarket("borrow", QiAvax, 1), OfMarket("borrow", QiUsdc, 1),
            OfMarket("repay", QiAvax, 1), OfMarket("repay", QiUsdc, 1)}

StakingRequests == {[kind |-> "stake", amount |-> 2], [kind |-> "requestUnlock", amount |-> 1],
                    [kind |-> "redeemUnlock", index |-> 0], [kind |-> "redeemUnlock", index |-> 1],
                    [kind |-> "redeemUnlock", index |-> 2]}

Swaps == {[kind |-> "swap", tokenIn |-> Usdc, tokenOut |-> SAvax, amount |-> 3],
          [kind |-> "swap", tokenIn |-> Avax, tokenOut |-> Usdc, amount |-> 2]}

Own == {OfMarket("deposit", QiUsdc, 2), OfMarket("withdraw", QiAvax, 2),
        [kind |-> "enterMarkets", qTokens |-> {QiUsdc}], [kind |-> "exitMarket", qToken |-> QiAvax],
        [kind |-> "trade", tokenIn |-> SAvax, tokenOut |-> Avax, amount |-> 1],
        Shared(Lend, [action |-> "supply", qToken |-> QiUsdc, amount |-> 2]),
        Shared(Lend, [action |-> "redeem", qToken |-> QiUsdc, amount |-> 2]),
        Shared(Lend, [action |-> "borrow", qToken |-> QiUsdc, amount |-> 1]),
        Shared(Swap, [action |-> "swapAVAXForTokens", path |-> <<Avax, Usdc>>, amountIn |-> 2,
                      amountOutMin |-> 1, deadline |-> 0])}

AllRequests == Lending \cup StakingRequests \cup Swaps \cup Own

SellAvax == {<<<<Avax, Usdc>>, 2>>}

Same == Permutations(Sessions)
=============================================================================
