--------------------------- MODULE TransactionStore ---------------------------
(***************************************************************************)
(* The transactions users report (backend/src/shared/transactionStore.ts): *)
(* records and an index of them by user in memory, the records also in one *)
(* file that each change rewrites, and for each submission a loop that     *)
(* asks the provider for the receipt.  The process may stop, also while it *)
(* writes the file, and starts again from what the file holds.             *)
(*                                                                         *)
(* A record is an object: a loop writes into the one it found before it    *)
(* asked, which a later submission of the same hash may have replaced.     *)
(* `version' tells such objects apart.  How long a loop sleeps is left out.*)
(***************************************************************************)
EXTENDS ChainProvider, SequencesExt

CONSTANTS
    Hashes, Submitters,
    NoRecord, NoLoop,
    Torn,               \* a file cut off in the middle
    NotAsking,          \* the call of a loop that sleeps
    MaxAttempts,        \* maxAttempts
    MaxSubmissions      \* bound on the submissions

ASSUME StoreAssumption ==
    /\ MaxAttempts \in Nat \ {0} /\ MaxSubmissions \in Nat
    /\ NoRecord \notin [user : Submitters, status : {"pending", "confirmed", "failed"},
                        version : Nat]
    /\ NoLoop \notin [hash : Hashes, left : Nat, call : Calls \cup {NotAsking}, version : Nat]
    /\ NotAsking \notin Calls

VARIABLES
    transactions,       \* hash -> [user, status, version] or NoRecord
    userIndex,          \* user -> sequence of hashes
    disk,               \* what the file holds: records by hash, or Torn
    submissions,        \* how many there were
    loops,              \* submission -> its poll, [hash, left, call, version], or NoLoop
    receipts,           \* hash -> "none" until mined, then "confirmed" or "failed"
    orphaned            \* history: hashes whose loop is exhausted or lost to a restart

storeVars == <<transactions, userIndex, disk, submissions, loops, receipts, orphaned>>

NoTransactions == [h \in Hashes |-> NoRecord]
NoLoops == [n \in 1 .. MaxSubmissions |-> NoLoop]

StoreInit ==
    /\ transactions = NoTransactions
    /\ userIndex = [u \in Submitters |-> <<>>]
    /\ disk = NoTransactions
    /\ submissions = 0
    /\ loops = NoLoops
    /\ receipts = [h \in Hashes |-> "none"]
    /\ orphaned = {}

Pending(h) == transactions[h] # NoRecord /\ transactions[h].status = "pending"

-----------------------------------------------------------------------------
\* The record replaces one of the same hash, the index collects the hash again.
submitTransaction(h, u) ==
    LET n == submissions + 1 IN
    /\ n <= MaxSubmissions
    /\ submissions' = n
    /\ transactions' = [transactions EXCEPT ![h] =
          [user |-> u, status |-> "pending", version |-> n]]
    /\ userIndex' = [userIndex EXCEPT ![u] = Append(@, h)]
    /\ disk' = transactions'
    /\ loops' = [loops EXCEPT ![n] =
          [hash |-> h, left |-> MaxAttempts, call |-> NotAsking, version |-> 0]]
    /\ orphaned' = orphaned \ {h}
    /\ UNCHANGED <<receipts, providerVars>>

Sleeping(n) == loops[n] # NoLoop /\ loops[n].call = NotAsking

\* A loop wakes up: it asks for the receipt of a record that is pending, or returns.
Ask(n, c) ==
    /\ Sleeping(n)
    /\ Pending(loops[n].hash)
    /\ failoverSend(c, FALSE)
    /\ loops' = [loops EXCEPT ![n] =
          [hash |-> @.hash, left |-> @.left - 1, call |-> c,
           version |-> transactions[loops[n].hash].version]]
    /\ UNCHANGED <<transactions, userIndex, disk, submissions, receipts, orphaned>>

FindSettled(n) ==
    /\ Sleeping(n)
    /\ ~Pending(loops[n].hash)
    /\ loops' = [loops EXCEPT ![n] = NoLoop]
    /\ UNCHANGED <<transactions, userIndex, disk, submissions, receipts, orphaned, providerVars>>

\* Mutant of KeepPolling: an error ends the loop.
GiveUp(n) ==
    /\ loops' = [loops EXCEPT ![n] = NoLoop]
    /\ UNCHANGED <<transactions, userIndex, disk, submissions, receipts, orphaned>>

\* No receipt yet or an error: sleep again, unless that was the last attempt.
KeepPolling(n) ==
    LET h == loops[n].hash IN
    /\ loops' = [loops EXCEPT ![n] =
          IF @.left = 0 THEN NoLoop ELSE [@ EXCEPT !.call = NotAsking]]
    /\ orphaned' = IF loops[n].left = 0 /\ transactions[h].version = n
                     THEN orphaned \cup {h} ELSE orphaned
    /\ UNCHANGED <<transactions, userIndex, disk, submissions, receipts>>

\* Mutant of Save: the outcome is kept in memory.
SaveNot(records) == UNCHANGED disk

Save(records) == disk' = records

\* The receipt is written into the object the loop found.
WriteOutcome(n) ==
    LET h == loops[n].hash IN
    /\ transactions' =
          IF transactions[h].version = loops[n].version
            THEN [transactions EXCEPT ![h] = [@ EXCEPT !.status = receipts[h]]]
            ELSE transactions
    /\ Save(transactions')
    /\ loops' = [loops EXCEPT ![n] = NoLoop]
    /\ UNCHANGED <<userIndex, submissions, receipts, orphaned>>

Asks(n) == loops[n] # NoLoop /\ loops[n].call # NotAsking

PollAnswered(n) ==
    /\ Asks(n)
    /\ Served(loops[n].call)
    /\ IF receipts[loops[n].hash] = "none" THEN KeepPolling(n) ELSE WriteOutcome(n)

PollFails(n) ==
    /\ Asks(n)
    /\ Exhausted(loops[n].call)
    /\ KeepPolling(n)

Mined(h, status) ==
    /\ receipts[h] = "none"
    /\ receipts' = [receipts EXCEPT ![h] = status]
    /\ UNCHANGED <<transactions, userIndex, disk, submissions, loops, orphaned, providerVars>>

-----------------------------------------------------------------------------
(* Restarts                                                                *)

\* The index as it is built from the records that were loaded.
RebuildIndex(records) ==
    [u \in Submitters |-> SetToSeq({h \in Hashes : records[h] # NoRecord /\ records[h].user = u})]

\* The process starts and finds `file'; a file that does not parse counts as none.
loadFromDisk(file) ==
    /\ disk' = file
    /\ transactions' = IF file = Torn THEN NoTransactions ELSE file
    /\ userIndex' = RebuildIndex(transactions')
    /\ loops' = NoLoops
    /\ orphaned' = {h \in Hashes : transactions'[h] # NoRecord}
    /\ ProviderRestart
    /\ UNCHANGED <<submissions, receipts>>

Restart == loadFromDisk(disk)

\* writeFileSync truncates the file before it writes it.
RestartWhileSaving == loadFromDisk(Torn)

-----------------------------------------------------------------------------
(* Properties                                                              *)

\* The file and the memory agree between callbacks, whichever of the loops for a hash
\* settles it and whether its object still counts: but for a torn write, a restart
\* neither forgets a transaction nor takes back its outcome.  A user's history stays
\* complete meanwhile, also when hashes are submitted again.
RestartForgetsNothing ==
    /\ disk # Torn => disk = transactions
    /\ \A h \in Hashes :
          transactions[h] # NoRecord => h \in ToSet(userIndex[transactions[h].user])

\* A pending transaction is polled by the loop of its last submission until its attempts
\* are used up or the process stops: RPC errors do not end it, and neither do the loops
\* of earlier submissions.
PendingIsPolled ==
    \A h \in Hashes :
        Pending(h) => h \in orphaned \/ loops[transactions[h].version] # NoLoop
=============================================================================
