------------------------ MODULE TransactionEvidence -------------------------
(***************************************************************************)
(* The evidence of one prepared bundle: transaction-evidence.service.ts    *)
(* with the boundary evidence-bound-preparation.service.ts.  A parent      *)
(* record and one record per step live in the database gateway; requests   *)
(* submit a transaction hash for a step, verify a step against the chain,  *)
(* report that the wallet stopped early, or export the evidence.  The      *)
(* handlers are those of avax-swap.controller.ts; avax-lending.controller  *)
(* has three of its own with the same calls.                               *)
(*                                                                         *)
(* Every await is a point where other requests of the process run, so one  *)
(* gateway or RPC call is one action and what a request has read so far is *)
(* its local view.  Requests that carry no wallet address are not          *)
(* serialized by the middleware.  The gateway and the chain are external:  *)
(* a PATCH replaces the fields it names, unless the gateway has seen its   *)
(* idempotency key before and answers without applying it; a transaction   *)
(* once mined keeps its receipt.  The keys of the parent's writes name a   *)
(* status, so that a later write to a status written before may be lost;   *)
(* those of a step's writes name the step and its hash, and a repetition   *)
(* writes what the step holds already, unless its hash was replaced.       *)
(***************************************************************************)
EXTENDS Integers, FiniteSets

CONSTANTS
    LastStep,       \* the steps of the bundle are 0 .. LastStep
    Hashes,         \* hashes of transactions the wallet may broadcast
    NoHash,
    Requests,       \* HTTP requests about this evidence
    Offered         \* what requests may ask for, see Tasks

Steps == 0 .. LastStep

Tasks == [op : {"submit"}, step : Steps, hash : Hashes]
           \cup [op : {"verify"}, step : Steps]
           \cup [op : {"outcome"},
                 outcome : {"cancelled-before-submission", "partially-executed"}]
           \cup [op : {"export"}]

ASSUME EvidenceAssumption ==
    /\ LastStep \in Nat
    /\ NoHash \notin Hashes
    /\ Offered \subseteq Tasks

VARIABLES
    task,           \* request -> what it asks for
    callOf,         \* hash -> the prepared step whose call the transaction makes
    preparation,    \* how far prepareEvidenceBoundBundle has come
    parent,         \* the parent record: status and verificationStatus
    keys,           \* the idempotency keys with which it has been written
    steps,          \* step -> txHash, receiptStatus and verified of its record
    mined,          \* hash -> "no", "ok" or "reverted": the chain's answer
    pc,             \* request -> the call it makes next
    local,          \* request -> its view of the records and its local variables
    broken,         \* history: a gateway call failed or the process died
    overlapped      \* history: two requests were in flight at the same time

given == <<task, callOf>>
vars == <<given, preparation, parent, keys, steps, mined, pc, local, broken, overlapped>>

Blank == [txHash |-> NoHash, receiptStatus |-> "none", verified |-> "unset"]

Idle == [view |-> [s \in Steps |-> Blank], status |-> "none", verification |-> "null",
         at |-> 0, after |-> "done", hash |-> NoHash, receipt |-> "none"]

\* The answers: 200, 404, UNSUPPORTED_OPERATION and INTERNAL_ERROR.
Answers == {"done", "notFound", "unsupported", "internal"}

InFlight == {r \in Requests : pc[r] \notin {"idle"} \cup Answers}

Init ==
    /\ task \in [Requests -> Offered]
    /\ callOf \in [Hashes -> Steps]
    /\ preparation = "none"
    /\ parent = [status |-> "none", verification |-> "null"]
    /\ keys = {}
    /\ steps = [s \in Steps |-> Blank]
    /\ mined = [h \in Hashes |-> "no"]
    /\ pc = [r \in Requests |-> "idle"]
    /\ local = [r \in Requests |-> Idle]
    /\ broken = FALSE
    /\ overlapped = FALSE

-----------------------------------------------------------------------------
(* Preparation: T1 intent, T2 bundle, T3 commitment, T4 reply              *)

Prepare(from, to) ==
    /\ preparation = from
    /\ preparation' = to
    /\ UNCHANGED <<given, keys, steps, mined, pc, local, broken, overlapped>>

persistEvidenceIntent ==
    /\ Prepare("none", "intent")
    /\ parent' = [parent EXCEPT !.status = "intent-recorded"]

prepareBundle == Prepare("intent", "bundle") /\ UNCHANGED parent

\* One gateway transaction updates the parent and creates the records of the steps.
persistPreparedEvidence ==
    /\ Prepare("bundle", "committed")
    /\ parent' = [parent EXCEPT !.status = "prepared"]

returnBundle == Prepare("committed", "returned") /\ UNCHANGED parent

PreparationFails ==
    /\ preparation \in {"none", "intent", "bundle", "committed"}
    /\ Prepare(preparation, "failed")
    /\ UNCHANGED parent

-----------------------------------------------------------------------------
(* The lifecycle status, derived from what a request has read              *)

\* Mutant of deriveEvidenceLifecycleStatus: one hash is taken for all.
DeriveBySome(view, status, verification) ==
    IF \E s \in Steps : view[s].txHash # NoHash
      THEN [status |-> "submitted", verification |-> "pending"]
      ELSE [status |-> status, verification |-> verification]

deriveEvidenceLifecycleStatus(view, status, verification) ==
    LET submitted == {s \in Steps : view[s].txHash # NoHash}
        confirmed == {s \in submitted : view[s].receiptStatus # "none"}
        Is(name, result) == [status |-> name, verification |-> result]
    IN  IF \E s \in confirmed : view[s].receiptStatus = "reverted"
          THEN Is("reverted", "failed")
        ELSE IF \A s \in Steps : view[s].verified = "true"
          THEN Is("verified", "verified")
        ELSE IF \E s \in submitted : view[s].verified = "false"
          THEN Is("verification-failed", "failed")
        ELSE IF status = "partially-executed" /\ submitted \notin {{}, Steps}
          THEN Is(status, IF verification = "null" THEN "pending" ELSE verification)
        ELSE IF confirmed = Steps THEN Is("confirmed", "pending")
        ELSE IF confirmed # {} THEN Is("partially-confirmed", "pending")
        ELSE IF submitted = Steps THEN Is("submitted", "pending")
        ELSE IF submitted # {} THEN Is("partially-submitted", "pending")
        ELSE Is(status, verification)

-----------------------------------------------------------------------------
(* Requests                                                                *)

Goto(r, next) == pc' = [pc EXCEPT ![r] = next]

Environment == <<given, preparation, mined, broken>>

\* getTransactionEvidence: read the parent, then the steps one after the other, and
\* continue at `after'.
Load(r, after) ==
    /\ Goto(r, "readParent")
    /\ local' = [local EXCEPT ![r].after = after]

\* A handler starts the service's work: at the call `first', or with a Load.
Accept(r, op) ==
    /\ pc[r] = "idle"
    /\ preparation = "returned"
    /\ task[r].op = op
    /\ overlapped' = (overlapped \/ InFlight # {})
    /\ UNCHANGED <<Environment, parent, keys, steps>>

submitEvidence(r) == Accept(r, "submit") /\ Goto(r, "readStep") /\ UNCHANGED local

verifyEvidence(r) == Accept(r, "verify") /\ Goto(r, "readHash") /\ UNCHANGED local

recordEvidenceOutcome(r) == Accept(r, "outcome") /\ Load(r, "recordOutcome")

getEvidence(r) == Accept(r, "export") /\ Load(r, "respond")

exportEvidence(r) == Accept(r, "export") /\ Load(r, "respond")

\* The handlers of the lending routes.
lendingSubmitEvidence(r) == submitEvidence(r)

lendingVerifyEvidence(r) == verifyEvidence(r)

lendingRecordEvidenceOutcome(r) == recordEvidenceOutcome(r)

readParent(r) ==
    /\ pc[r] = "readParent"
    /\ local' = [local EXCEPT ![r].status = parent.status,
                              ![r].verification = parent.verification, ![r].at = 0]
    /\ Goto(r, "loadEvidenceSteps")
    /\ UNCHANGED <<Environment, overlapped, parent, keys, steps>>

loadEvidenceSteps(r) ==
    LET s == local[r].at IN
    /\ pc[r] = "loadEvidenceSteps"
    /\ local' = [local EXCEPT ![r].view[s] = steps[s],
                              ![r].at = IF s < LastStep THEN s + 1 ELSE 0]
    /\ Goto(r, IF s < LastStep THEN "loadEvidenceSteps"
               ELSE IF local[r].after \in {"recordOutcome", "respond"} THEN local[r].after
               ELSE "rollUp")
    /\ UNCHANGED <<Environment, overlapped, parent, keys, steps>>

\* gatewayPatch of the parent.  External: what the gateway makes of a key it has seen.
PatchParent(key, record) ==
    /\ keys' = keys \cup {key}
    /\ parent' = record \/ (key \in keys /\ UNCHANGED parent)

\* Mutant of RollUpKey: a key that does not name the status.
RollUpKeyOfRecord(status) == <<"rollup", "none">>

RollUpKey(status) == <<"rollup", status>>

rollUpEvidenceStatus(r) ==
    LET derived == deriveEvidenceLifecycleStatus(local[r].view, local[r].status,
                                                 local[r].verification)
    IN  /\ pc[r] = "rollUp"
        /\ PatchParent(RollUpKey(derived.status), derived)
        /\ Goto(r, local[r].after)
        /\ UNCHANGED <<Environment, overlapped, steps, local>>

\* Mutant of respond: the status is read again after the steps.
respondFresh(r) ==
    /\ pc[r] = "respond"
    /\ local' = [local EXCEPT ![r].status = parent.status]
    /\ Goto(r, "done")
    /\ UNCHANGED <<Environment, overlapped, parent, keys, steps>>

\* The answer to an export is the view: the parent's status and the steps as they were read.
respond(r) ==
    /\ pc[r] = "respond"
    /\ Goto(r, "done")
    /\ UNCHANGED <<Environment, overlapped, parent, keys, steps, local>>

\* submitAndVerifyEvidence reads the step and refuses a second hash ...
readStep(r) ==
    LET found == steps[task[r].step].txHash IN
    /\ pc[r] = "readStep"
    /\ Goto(r, IF found \in {NoHash, task[r].hash} THEN "patchHash" ELSE "internal")
    /\ UNCHANGED <<Environment, overlapped, parent, keys, steps, local>>

\* Mutant of patchHash: no roll-up before the chain is asked.
patchHashOnly(r) ==
    /\ pc[r] = "patchHash"
    /\ steps' = [steps EXCEPT ![task[r].step].txHash = task[r].hash]
    /\ Goto(r, "readHash")
    /\ UNCHANGED <<Environment, overlapped, parent, keys, local>>

\* ... then writes the hash, rolls up and verifies.
patchHash(r) ==
    /\ pc[r] = "patchHash"
    /\ steps' = [steps EXCEPT ![task[r].step].txHash = task[r].hash]
    /\ Load(r, "readHash")
    /\ UNCHANGED <<Environment, overlapped, parent, keys>>

\* verifyEvidenceStep takes the hash from the record, not from the request.
readHash(r) ==
    LET found == steps[task[r].step].txHash IN
    /\ pc[r] = "readHash"
    /\ Goto(r, IF found = NoHash THEN "notFound" ELSE "askChain")
    /\ local' = [local EXCEPT ![r].hash = found]
    /\ UNCHANGED <<Environment, overlapped, parent, keys, steps>>

\* No receipt yet: the request fails, whatever was written so far stays.
askChain(r) ==
    LET answer == mined[local[r].hash] IN
    /\ pc[r] = "askChain"
    /\ Goto(r, IF answer = "no" THEN "notFound" ELSE "patchReceipt")
    /\ local' = [local EXCEPT ![r].receipt = IF answer = "no" THEN "none" ELSE answer]
    /\ UNCHANGED <<Environment, overlapped, parent, keys, steps>>

patchReceipt(r) ==
    /\ pc[r] = "patchReceipt"
    /\ steps' = [steps EXCEPT ![task[r].step].receiptStatus = local[r].receipt]
    /\ Load(r, "patchVerification")
    /\ UNCHANGED <<Environment, overlapped, parent, keys>>

\* Mutant of Matches: any successful transaction will do.
MatchesAnyCall(r) == local[r].receipt = "ok"

\* The receipt reports success, and the transaction is the call that was prepared.
Matches(r) ==
    /\ local[r].receipt = "ok"
    /\ callOf[local[r].hash] = task[r].step

patchVerification(r) ==
    /\ pc[r] = "patchVerification"
    /\ steps' = [steps EXCEPT ![task[r].step].verified =
                    IF Matches(r) THEN "true" ELSE "false"]
    /\ Load(r, "done")
    /\ UNCHANGED <<Environment, overlapped, parent, keys>>

\* recordEvidenceExecutionOutcome judges by the steps it has read.
OutcomeAllowed(outcome, view) ==
    LET submitted == {s \in Steps : view[s].txHash # NoHash} IN
    \/ outcome = "cancelled-before-submission" /\ submitted = {}
    \/ outcome = "partially-executed" /\ submitted \notin {{}, Steps}

recordOutcome(r) ==
    LET outcome == task[r].outcome IN
    /\ pc[r] = "recordOutcome"
    /\ IF OutcomeAllowed(outcome, local[r].view)
         THEN /\ PatchParent(<<"outcome", outcome>>,
                   [status |-> outcome,
                    verification |->
                      IF outcome = "partially-executed" /\ local[r].verification = "null"
                        THEN "pending" ELSE local[r].verification])
              /\ Goto(r, "done")
         ELSE /\ Goto(r, "unsupported")
              /\ UNCHANGED <<parent, keys>>
    /\ UNCHANGED <<Environment, overlapped, steps, local>>

\* The request stops where it is: a call fails, or the process dies.  A write that was
\* applied but whose answer is lost is the write, then a failure of the call after it.
Stop(r, calls) ==
    /\ pc[r] \in calls
    /\ Goto(r, "internal")
    /\ UNCHANGED <<given, preparation, mined, overlapped, parent, keys, steps, local>>

ReadFails(r) ==
    /\ Stop(r, {"readParent", "loadEvidenceSteps", "readStep", "readHash"})
    /\ broken' = TRUE

WriteFails(r) ==
    /\ Stop(r, {"rollUp", "patchHash", "patchReceipt", "patchVerification", "recordOutcome"})
    /\ broken' = TRUE

ChainFails(r) == Stop(r, {"askChain"}) /\ UNCHANGED broken

\* The chain mines a transaction.
Mine(h) ==
    /\ mined[h] = "no"
    /\ \E result \in {"ok", "reverted"} : mined' = [mined EXCEPT ![h] = result]
    /\ UNCHANGED <<given, preparation, parent, keys, steps, pc, local, broken, overlapped>>

-----------------------------------------------------------------------------
Next ==
    \/ persistEvidenceIntent \/ prepareBundle \/ persistPreparedEvidence
    \/ returnBundle \/ PreparationFails
    \/ \E r \in Requests :
          \/ submitEvidence(r) \/ verifyEvidence(r) \/ recordEvidenceOutcome(r)
          \/ getEvidence(r) \/ exportEvidence(r)
          \/ lendingSubmitEvidence(r) \/ lendingVerifyEvidence(r)
          \/ lendingRecordEvidenceOutcome(r)
          \/ readParent(r) \/ loadEvidenceSteps(r) \/ rollUpEvidenceStatus(r) \/ respond(r)
          \/ readStep(r) \/ patchHash(r) \/ readHash(r) \/ askChain(r)
          \/ patchReceipt(r) \/ patchVerification(r) \/ recordOutcome(r)
          \/ ReadFails(r) \/ WriteFails(r) \/ ChainFails(r)
    \/ \E h \in Hashes : Mine(h)

Spec == Init /\ [][Next]_vars

-----------------------------------------------------------------------------
(* Properties                                                              *)

StepRecord == [txHash : Hashes \cup {NoHash}, receiptStatus : {"none", "ok", "reverted"},
               verified : {"unset", "true", "false"}]

Statuses == {"none", "intent-recorded", "prepared", "cancelled-before-submission",
             "partially-submitted", "partially-executed", "submitted",
             "partially-confirmed", "confirmed", "reverted", "verified",
             "verification-failed"}

Verifications == {"null", "pending", "verified", "failed"}

Calls == {"idle", "readParent", "loadEvidenceSteps", "rollUp", "readStep", "patchHash",
          "readHash", "askChain", "patchReceipt", "patchVerification", "recordOutcome",
          "respond"} \cup Answers

\* Every variable holds a value of its type.
TypeOK ==
    /\ task \in [Requests -> Offered] /\ callOf \in [Hashes -> Steps]
    /\ preparation \in {"none", "intent", "bundle", "committed", "returned", "failed"}
    /\ parent \in [status : Statuses, verification : Verifications]
    /\ keys \subseteq {"rollup", "outcome"} \X Statuses
    /\ steps \in [Steps -> StepRecord]
    /\ mined \in [Hashes -> {"no", "ok", "reverted"}]
    /\ pc \in [Requests -> Calls]
    /\ local \in [Requests ->
                    [view : [Steps -> StepRecord], status : Statuses,
                     verification : Verifications, at : Steps, after : Calls,
                     hash : Hashes \cup {NoHash}, receipt : {"none", "ok", "reverted"}]]
    /\ broken \in BOOLEAN /\ overlapped \in BOOLEAN

\* What a status says of the step records.
Backed(status, records) ==
    LET Has(s) == records[s].txHash # NoHash
        Confirmed(s) == Has(s) /\ records[s].receiptStatus # "none"
    IN  CASE status \in {"partially-submitted", "partially-executed"} -> \E s \in Steps : Has(s)
          [] status = "submitted" -> \A s \in Steps : Has(s)
          [] status = "partially-confirmed" -> \E s \in Steps : Confirmed(s)
          [] status = "confirmed" -> \A s \in Steps : Confirmed(s)
          [] status = "verified" -> \A s \in Steps : records[s].verified = "true"
          [] status = "verification-failed" -> \E s \in Steps : records[s].verified = "false"
          [] status = "reverted" -> \E s \in Steps : records[s].receiptStatus = "reverted"
          [] OTHER -> TRUE

\* The parent never claims more than the step records hold: however requests overlap
\* and break off, a status derived from a stale view was true when it was read, and
\* hashes, receipts and verdicts stay.  (With one transaction per step; a status may
\* well claim less than the records show.)  And a step counts as verified only with a
\* transaction that the chain executed and that makes the call that was prepared.
StatusIsBacked ==
    /\ Backed(parent.status, steps)
    /\ \A s \in Steps : steps[s].verified = "true" =>
          /\ steps[s].txHash # NoHash
          /\ mined[steps[s].txHash] = "ok" /\ callOf[steps[s].txHash] = s

\* An export never contradicts itself: the status it carries is backed by the steps it
\* carries, although they are read one after the other while other requests write.
ExportIsBacked ==
    \A r \in Requests :
        task[r].op = "export" /\ pc[r] = "done" => Backed(local[r].status, local[r].view)

\* transaction-evidence.service.ts:1003-1005: once a submission got as far as asking
\* the chain, an RPC or verification failure does not leave the parent looking merely
\* "prepared", as long as the gateway itself works.
NeverMerelyPrepared ==
    (~broken /\ InFlight = {} /\ \E s \in Steps : steps[s].txHash # NoHash)
        => parent.status # "prepared"

\* When requests come one at a time and the gateway works, the parent is up to date
\* after each of them: deriving its status again changes nothing, although a roll-up to
\* a status whose key the gateway has seen may have been ignored.  (Unless the wallet
\* has reported a partial execution, which replaces whatever status was there.)
FinalStatusIsCurrent ==
    (/\ ~broken /\ ~overlapped /\ InFlight = {} /\ preparation = "returned"
     /\ parent.status # "partially-executed")
        => parent = deriveEvidenceLifecycleStatus(steps, parent.status, parent.verification)

\* avax-swap.routes.ts:166-167: "Verification is bound to the immutable transaction
\* hash already persisted for the step".
HashIsImmutable ==
    [][ \A s \in Steps : steps[s].txHash # NoHash => steps'[s].txHash = steps[s].txHash ]_vars
=============================================================================
