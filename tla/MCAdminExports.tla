-------------------------- MODULE MCAdminExports ----------------------------
(* Instances of AdminExports for TLC.                                      *)
EXTENDS AdminExports, TLC

CONSTANTS alice, bob, a, b, r1, r2, r3, r4

avalanche == 43114
base == 8453

Step(call) == [chain |-> avalanche, call |-> call]
Approval == <<Step(a), Step(b)>>
Direct == <<Step(b)>>
Foreign == <<[chain |-> base, call |-> a]>>
AllBundles == {Approval, Direct, Foreign}

Source(peer) == [kind |-> "bridge-source", peer |-> peer]
Destination(peer) == [kind |-> "bridge-destination", peer |-> peer]
BeginTask(action) == [op |-> "begin", action |-> action, wallet |-> alice]
CommitTask(action, bundle) == [op |-> "commit", action |-> action, bundle |-> bundle]

\* Bridges of alice, one that leads nowhere; preparations of bob; exports.
Everything ==
    {BeginTask(Source(base)), BeginTask(Destination(avalanche)),
     CommitTask(Source(base), Approval), CommitTask(Source(base), Direct),
     CommitTask(Destination(base), Foreign),
     [op |-> "prepare", wallet |-> bob, bundle |-> Approval],
     [op |-> "exportByWallet", wallet |-> bob],
     [op |-> "exportAdmin", wallet |-> alice],
     [op |-> "exportUserEstate", wallet |-> alice], [op |-> "exportUserEstate", wallet |-> bob]}

Profile(id, address, tenant) == [id |-> id, address |-> address, tenant |-> tenant]
Wallet(id, address, user, tenant) ==
    [id |-> id, address |-> address, user |-> user, tenant |-> tenant]
User(id, tenant) == [id |-> id, tenant |-> tenant]

\* One wallet may come to have two users, another a user of another tenant; wallets and
\* profiles may come to be more than a page.
IdentitiesRegistered ==
    [profiles |-> {Profile(1, alice, "main"), Profile(2, bob, "main"),
                   Profile(3, bob, "other")},
     wallets |-> {Wallet(1, alice, "u1", "main"), Wallet(2, alice, "u2", "main"),
                  Wallet(3, bob, "u1", "other")},
     users |-> {User("u1", "main")}]

Same == Permutations({r1, r2, r3, r4})
=============================================================================
