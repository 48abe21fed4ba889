--------------------------- MODULE EvidenceRecords ----------------------------
(***************************************************************************)
(* The evidence records of many bundles in the database gateway: how they  *)
(* come into being, and how they are exported in bulk.                     *)
(*                                                                         *)
(* A record begins as an intent.  Evidence-bound preparation commits the   *)
(* bundle within the same request; for a bridge the route provider builds  *)
(* the transactions, so the client begins the record with one request and  *)
(* commits the transactions with another (bridge-evidence.service.ts).     *)
(* Bulk exports (transaction-evidence.service.ts) first page through the   *)
(* step records and then read record by record.                            *)
(*                                                                         *)
(* One gateway call is one action.  The gateway is external: a transaction *)
(* applies all operations or none, ids are unique, and a write whose       *)
(* idempotency key has succeeded before is answered without being applied. *)
(***************************************************************************)
EXTENDS Integers, Sequences, FiniteSets

CONSTANTS
    Correlations,   \* ids of records, ordered like the random UUIDs they stand for
    Wallets,
    Admins,         \* PHASE2_ADMIN_WALLETS
    Avalanche,      \* chain 43114, where the recorded transactions run
    Bundles,        \* sequences of steps [chain, call] clients and providers come up with
    Requests,
    Offered,        \* what requests may ask for, see Tasks
    Take,           \* rows per page of a listing
    IntentCount,    \* what a bridge's intent, without preparedMetadata, gives as totalSteps
    NoCount,        \* no valid totalSteps
    None

Actions == [kind : {"bridge-source", "bridge-destination"}, peer : Int]

\* The steps of AVAX modules, and what a commit is allowed to name.
OnAvalanche(bundle) ==
    bundle # <<>> /\ \A i \in DOMAIN bundle : bundle[i].chain = Avalanche

Tasks == [op : {"begin"}, action : Actions, wallet : Wallets]
           \cup [op : {"commit"}, action : Actions, bundle : Bundles]
           \cup [op : {"prepare"}, wallet : Wallets,
                 bundle : {bundle \in Bundles : OnAvalanche(bundle)}]
           \cup [op : {"exportByWallet", "exportAdmin", "exportUserEstate"}, wallet : Wallets]

\* The intent that a preparation works on.
Swap == [kind |-> "swap", peer |-> Avalanche]

Parents == [wallet : Wallets, action : Actions \cup {Swap},
            status : {"intent-recorded", "prepared"}, total : Nat \cup {NoCount}]

ASSUME RecordsAssumption ==
    /\ Correlations \subseteq Nat
    /\ None \notin Correlations /\ None \notin Parents
    /\ Offered \subseteq Tasks
    /\ \A bundle \in Bundles : DOMAIN bundle = 1 .. Len(bundle) /\ Len(bundle) \in Nat
    /\ Take \in Nat \ {0}
    /\ IntentCount \in {0, NoCount} /\ NoCount \notin Nat

VARIABLES
    task,           \* request -> what it asks for
    parent,         \* id -> the parent record, None when there is none
    rows,           \* the step records
    applied,        \* idempotency keys of commitments the gateway has applied
    pc,             \* request -> the call it makes next, or the answer
    local,          \* request -> its local variables
    due,            \* history: export -> the records there were when it began
    broken          \* history: requests one of whose calls failed

store == <<parent, rows, applied>>
vars == <<task, store, pc, local, due, broken>>

Idle == [corr |-> None, skip |-> 0, todo |-> {}, exported |-> {}]

Answers == {"done", "refused", "forbidden", "internal"}

Init ==
    /\ task \in [Requests -> Offered]
    /\ parent = [c \in Correlations |-> None]
    /\ rows = {}
    /\ applied = {}
    /\ pc = [r \in Requests |-> "idle"]
    /\ local = [r \in Requests |-> Idle]
    /\ due = [r \in Requests |-> {}]
    /\ broken = {}

Goto(r, next) == pc' = [pc EXCEPT ![r] = next]

\* The intent a bridge request or a preparation works on.
ActionOf(r) == IF task[r].op = "prepare" THEN Swap ELSE task[r].action

-----------------------------------------------------------------------------
(* Bridges and preparation                                                 *)

\* The peer chain is a chain, and another one than Avalanche.
ValidPeer(action) == action.peer > 0 /\ action.peer # Avalanche

\* The gateway stores the intent under a fresh random id; the chain is Avalanche always.
persistEvidenceIntent(r, next) ==
    /\ \E c \in Correlations :
        /\ parent[c] = None
        /\ parent' = [parent EXCEPT ![c] =
              [wallet |-> task[r].wallet, action |-> ActionOf(r),
               status |-> "intent-recorded",
               total |-> IF task[r].op = "prepare" THEN NoCount ELSE IntentCount]]
        /\ local' = [local EXCEPT ![r].corr = c]
    /\ Goto(r, next)
    /\ UNCHANGED <<rows, applied>>

Begin(r, kind) ==
    /\ pc[r] = "idle"
    /\ task[r].op = "begin" /\ task[r].action.kind = kind
    /\ IF ValidPeer(task[r].action) THEN persistEvidenceIntent(r, "reply")
         ELSE Goto(r, "refused") /\ UNCHANGED <<store, local>>
    /\ UNCHANGED <<task, due, broken>>

beginAvaxBridgeEvidence(r) == Begin(r, "bridge-source")

beginAvaxBridgeDestinationEvidence(r) == Begin(r, "bridge-destination")

prepareEvidenceBoundBundle(r) ==
    /\ pc[r] = "idle"
    /\ task[r].op = "prepare"
    /\ persistEvidenceIntent(r, "transact")
    /\ UNCHANGED <<task, due, broken>>

\* What the client sends with a commit: a provider, and steps on Avalanche only.
ValidCommit(r) ==
    /\ ValidPeer(task[r].action)
    /\ OnAvalanche(task[r].bundle)

Commit(r, kind) ==
    /\ pc[r] = "idle"
    /\ task[r].op = "commit" /\ task[r].action.kind = kind
    /\ \E c \in Correlations :
        /\ parent[c] # None
        /\ local' = [local EXCEPT ![r].corr = c]
    /\ Goto(r, IF ValidCommit(r) THEN "reload" ELSE "refused")
    /\ UNCHANGED <<task, store, due, broken>>

commitAvaxBridgeEvidence(r) == Commit(r, "bridge-source")

commitAvaxBridgeDestinationEvidence(r) == Commit(r, "bridge-destination")

\* The record is an intent for this very bridge, and has no steps yet.
Committable(evidence, action) ==
    /\ evidence.total = 0
    /\ evidence.action = action
    /\ evidence.status = "intent-recorded"

\* getTransactionEvidence, which needs a totalSteps.
reloadIntent(r) ==
    /\ pc[r] = "reload"
    /\ Goto(r, IF Committable(parent[local[r].corr], task[r].action)
                 THEN "transact" ELSE "refused")
    /\ UNCHANGED <<task, store, local, due, broken>>

\* Mutant of Key: the payload hash is left out of the idempotency key.
KeyOfCorrelation(c, bundle) == <<c>>

Key(c, bundle) == <<c, bundle>>

\* The ids of step records are correlationId:stepIndex.
StepRow(c, at, step) == [corr |-> c, at |-> at, chain |-> step.chain, call |-> step.call]

persistPreparedEvidence(r) ==
    LET c == local[r].corr
        bundle == task[r].bundle
        created == {StepRow(c, i, bundle[i]) : i \in DOMAIN bundle}
        collides == \E row \in rows, new \in created : row.corr = c /\ row.at = new.at
    IN  /\ pc[r] = "transact"
        /\ IF Key(c, bundle) \in applied THEN Goto(r, "reply") /\ UNCHANGED store
           ELSE IF collides THEN Goto(r, "internal") /\ UNCHANGED store
           ELSE /\ Goto(r, "reply")
                /\ parent' = [parent EXCEPT ![c].status = "prepared",
                                            ![c].total = Len(bundle)]
                /\ rows' = rows \cup created
                /\ applied' = applied \cup {Key(c, bundle)}
        /\ UNCHANGED <<task, local, due, broken>>

Reply(r) ==
    /\ pc[r] = "reply"
    /\ Goto(r, "done")
    /\ UNCHANGED <<task, store, local, due, broken>>

\* A call is refused, times out after it was applied or not, or the process dies.
Fail(r) ==
    /\ \/ pc[r] \in {"reload", "transact", "list", "export", "reply"}
       \/ /\ pc[r] = "idle"
          /\ task[r].op = "prepare" \/ (task[r].op = "begin" /\ ValidPeer(task[r].action))
    /\ Goto(r, "internal")
    /\ broken' = broken \cup {r}
    /\ UNCHANGED <<task, store, local, due>>

-----------------------------------------------------------------------------
(* Bulk exports                                                            *)

Prepared == {c \in Correlations : parent[c] # None /\ parent[c].status = "prepared"}

Wanted(r, c) == task[r].op = "exportAdmin" \/ parent[c].wallet = task[r].wallet

StartListing(r) ==
    /\ Goto(r, "list")
    /\ due' = [due EXCEPT ![r] = {c \in Prepared : Wanted(r, c)}]

exportEvidenceByWallet(r) ==
    /\ pc[r] = "idle"
    /\ task[r].op = "exportByWallet"
    /\ StartListing(r)
    /\ UNCHANGED <<task, store, local, broken>>

isPhase2EvidenceAdmin(wallet) == wallet \in Admins

exportEvidenceAdmin(r) ==
    /\ pc[r] = "idle"
    /\ task[r].op = "exportAdmin"
    /\ IF isPhase2EvidenceAdmin(task[r].wallet)
         THEN StartListing(r)
         ELSE Goto(r, "forbidden") /\ UNCHANGED due
    /\ UNCHANGED <<task, store, local, broken>>

Found(r, page) ==
    /\ local' = [local EXCEPT ![r].todo = @ \cup {row.corr : row \in page},
                              ![r].skip = @ + Take]
    /\ Goto(r, IF Cardinality(page) < Take THEN "export" ELSE "list")
    /\ UNCHANGED <<task, store, due, broken>>

OnChain == {row \in rows : row.chain = Avalanche}

\* The step records of the chain are listed in the order of their ids.
Before(x, y) == x.corr < y.corr \/ (x.corr = y.corr /\ x.at < y.at)

Rank(row) == Cardinality({x \in OnChain : Before(x, row)})

Page(skip) == {row \in OnChain : Rank(row) \in skip .. skip + Take - 1}

\* Mutant of listPage: no orderBy, so that pages may come from different orders.
listPageUnordered(r) ==
    LET FromEnd(row) == Cardinality({x \in OnChain : Before(row, x)})
        skip == local[r].skip
    IN  /\ pc[r] = "list"
        /\ \/ Found(r, Page(skip))
           \/ Found(r, {row \in OnChain : FromEnd(row) \in skip .. skip + Take - 1})

\* Mutant of listPage: the parents of the chain are listed, not the steps.
listParents(r) ==
    LET listed == {c \in Correlations : parent[c] # None}
        skip == local[r].skip
    IN  /\ pc[r] = "list"
        /\ Found(r, {[corr |-> c] : c \in {d \in listed :
              Cardinality({e \in listed : e < d}) \in skip .. skip + Take - 1}})

\* One page of the list, from `skip' on.
listPage(r) ==
    /\ pc[r] = "list"
    /\ Found(r, Page(local[r].skip))

\* One record of the list: read, filtered by wallet, and exported with its steps.
exportRecord(r) ==
    /\ pc[r] = "export"
    /\ \E c \in local[r].todo :
        /\ local' = [local EXCEPT ![r].todo = @ \ {c},
                                  ![r].exported = IF Wanted(r, c) THEN @ \cup {c} ELSE @]
        /\ Goto(r, IF Wanted(r, c) /\ parent[c].total = NoCount THEN "internal" ELSE "export")
    /\ UNCHANGED <<task, store, due, broken>>

\* The sorted records and their summary.
bulkExport(r) ==
    /\ pc[r] = "export"
    /\ local[r].todo = {}
    /\ Goto(r, "reply")
    /\ UNCHANGED <<task, store, local, due, broken>>

-----------------------------------------------------------------------------
Next ==
    \E r \in Requests :
        \/ beginAvaxBridgeEvidence(r) \/ beginAvaxBridgeDestinationEvidence(r)
        \/ commitAvaxBridgeEvidence(r) \/ commitAvaxBridgeDestinationEvidence(r)
        \/ prepareEvidenceBoundBundle(r)
        \/ reloadIntent(r) \/ persistPreparedEvidence(r)
        \/ exportEvidenceByWallet(r) \/ exportEvidenceAdmin(r)
        \/ listPage(r) \/ exportRecord(r) \/ bulkExport(r)
        \/ Reply(r) \/ Fail(r)

Spec == Init /\ [][Next]_vars

-----------------------------------------------------------------------------
(* Properties                                                              *)

StepsOf(c) == {row \in rows : row.corr = c}

\* A client that was told that its transactions are committed can rely on the record: it
\* holds exactly these transactions, in this order, for the bridge the intent names, and
\* keeps holding them, whatever other commits name the same record, before or after.
PreparedAsReturned ==
    \A r \in Requests :
        task[r].op \in {"commit", "prepare"} /\ pc[r] = "done" =>
            LET c == local[r].corr
                bundle == task[r].bundle
            IN  /\ StepsOf(c) = {StepRow(c, i, bundle[i]) : i \in DOMAIN bundle}
                /\ parent[c].total = Len(bundle)
                /\ parent[c].action = ActionOf(r)

\* A bulk export has every record that was prepared when it began, and no record of
\* another wallet, although records are prepared while it pages through the steps.
ExportIsComplete ==
    \A r \in Requests :
        task[r].op \in {"exportByWallet", "exportAdmin"} /\ pc[r] = "done" =>
            /\ due[r] \subseteq local[r].exported
            /\ \A c \in local[r].exported : Wanted(r, c) /\ c \in Prepared

\* One bad record fails a whole bulk export; the intents that were never committed are
\* such records, and they must not get into the list.
ExportSurvivesIntents ==
    \A r \in Requests :
        task[r].op \in {"exportByWallet", "exportAdmin"} /\ pc[r] = "internal"
            => r \in broken

\* bridge-evidence-two-phase.test.ts:116, "reloads the persisted intent and commits the
\* exact ordered Avalanche bundle": a valid commit for the bridge the intent names is
\* refused only when the record has already been prepared.
MatchingCommitSucceeds ==
    \A r \in Requests :
        (/\ task[r].op = "commit" /\ pc[r] = "refused" /\ ValidCommit(r)
         /\ parent[local[r].corr].action = task[r].action)
            => parent[local[r].corr].status = "prepared"
=============================================================================
