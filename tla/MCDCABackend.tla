---------------------------- MODULE MCDCABackend ----------------------------
(* The vault of DCAVault in two situations, chosen by the initial state: its *)
(* users call it themselves, in every way, or one of them trades one pair    *)
(* through the backend.  Nobody administers the vault.                       *)
EXTENDS DCABackend, TLC

CONSTANTS alice, bob, usdc, weth

Accounts == {alice, bob}
Pair == {usdc, weth}
Orders == {<<2, 2, 2, 3>>}
Swappers == Permutations(Accounts) \cup Permutations(Pair)

VARIABLE situation
Direct == <<>>
MCVars == <<backendVars, situation>>

MCInit ==
    /\ BackendInit
    /\ situation \in {Direct} \cup {<<u, pair>> : u \in Address,
                                    pair \in {<<usdc, weth>>, <<weth, usdc>>}}
    /\ situation # Direct => owner = keeper /\ keeper # situation[1]

MCNext ==
    /\ UNCHANGED situation
    /\ \/ /\ situation = Direct
          /\ Tick \/ Trade
          /\ UNCHANGED <<allowance, bundle, scan, owed, ever>>
       \/ /\ situation # Direct
          /\ BackendNext({situation[1]}, {situation[2]})

OrdersSpec == MCInit /\ [][MCNext]_MCVars
=============================================================================
