-------------------------- MODULE RecurringOrders ---------------------------
(***************************************************************************)
(* What a dollar-cost-averaging vault promises the owner of an order,      *)
(* without the encodings DCAVault.sol uses to keep the promise (a          *)
(* remainingSwaps counter where 0 means "for ever" and 1 means "this is    *)
(* the last one", an active flag, a timestamp that starts at 0).           *)
(*                                                                         *)
(* An order is a pot of funds with a licence to swap.  The licence counts  *)
(* the swaps that are still allowed, or is Unlimited; it only shrinks, and *)
(* a swap takes one unit of it and exactly one price out of the pot, never *)
(* earlier than the order allows.  A closed order has no licence left, and *)
(* whatever the licence says the owner can take the whole pot back.        *)
(***************************************************************************)
EXTENDS Integers

CONSTANTS
    Ids,        \* the identifiers orders may get
    Owners,     \* who may own an order
    Nobody      \* the owner of an identifier that is not in use

VARIABLES
    book,       \* identifier -> the order
    clock       \* the time

Unlimited == -1

Blank == [owner |-> Nobody, price |-> 0, every |-> 0,
          licence |-> 0, pot |-> 0, last |-> 0]

\* An order as its owner opens it: a price, a pace, a licence and a first deposit.
Opened == [owner : Owners, price : Nat \ {0}, every : Nat \ {0},
           licence : (Nat \ {0}) \cup {Unlimited}, pot : Nat \ {0}, last : {0}]

Init ==
    /\ book = [i \in Ids |-> Blank]
    /\ clock \in Nat

Open(i) ==
    /\ book[i] = Blank
    /\ book'[i] \in Opened
    /\ book' = [book EXCEPT ![i] = book'[i]]
    /\ UNCHANGED clock

Fund(i) ==
    /\ book[i].licence # 0
    /\ book'[i].pot > book[i].pot
    /\ book' = [book EXCEPT ![i].pot = book'[i].pot]
    /\ UNCHANGED clock

Close(i) ==
    /\ book[i].licence # 0
    /\ book' = [book EXCEPT ![i].licence = 0]
    /\ UNCHANGED clock

Refund(i) ==
    /\ book[i].pot > 0
    /\ book' = [book EXCEPT ![i].pot = 0]
    /\ UNCHANGED clock

Swap(i) ==
    /\ book[i].licence # 0
    /\ book[i].pot >= book[i].price
    /\ clock - book[i].last >= book[i].every
    /\ book' = [book EXCEPT
                 ![i].pot = @ - book[i].price,
                 ![i].licence = IF @ = Unlimited THEN Unlimited ELSE @ - 1,
                 ![i].last = clock]
    /\ UNCHANGED clock

Pass ==
    /\ clock' \in Nat
    /\ clock' > clock
    /\ UNCHANGED book

Next ==
    \/ /\ book' # book
       /\ \E i \in Ids : Open(i) \/ Fund(i) \/ Close(i) \/ Refund(i) \/ Swap(i)
    \/ Pass

Spec == Init /\ [][Next]_<<book, clock>>
=============================================================================
