---------------------- MODULE TransactionEvidenceProofs -----------------------
(* Theorems about TransactionEvidence, for any number of steps, requests and  *)
(* hashes.                                                                    *)
EXTENDS TransactionEvidence, TLAPS

USE EvidenceAssumption DEF RollUpKey

Loading == {"readParent", "loadEvidenceSteps"}

\* Where the requests that roll up the status continue afterwards.
RollUps == {"readHash", "patchVerification", "done"}

\* What a request is for decides the calls it makes.
Phases ==
    \A r \in Requests :
        /\ pc[r] \in {"readStep", "patchHash"} => task[r].op = "submit"
        /\ pc[r] \in {"readHash", "askChain", "patchReceipt", "patchVerification"}
             => task[r].op \in {"submit", "verify"}
        /\ pc[r] = "askChain" => local[r].hash \in Hashes
        /\ pc[r] = "recordOutcome" => task[r].op = "outcome"
        /\ pc[r] = "respond" => task[r].op = "export"
        /\ pc[r] \in Loading =>
             \/ task[r].op = "outcome" /\ local[r].after = "recordOutcome"
             \/ task[r].op = "export" /\ local[r].after = "respond"
             \/ task[r].op \in {"submit", "verify"} /\ local[r].after \in RollUps
        /\ pc[r] = "rollUp" =>
             task[r].op \in {"submit", "verify"} /\ local[r].after \in RollUps

\* No request is served before the bundle has been returned.
BundleFirst ==
    preparation # "returned" =>
        /\ \A r \in Requests : pc[r] = "idle"
        /\ steps = [s \in Steps |-> Blank]
        /\ keys = {}

\* The step a request is about has a hash once it rolls up or asks the chain.
HashBeforeRollUp ==
    \A r \in Requests :
        \/ pc[r] \in {"askChain", "patchReceipt", "patchVerification", "rollUp"}
        \/ pc[r] \in Loading /\ local[r].after \in RollUps
        => steps[task[r].step].txHash # NoHash

\* The steps as request r sees them: those it has read, and the others as they are.
Seen(r) ==
    [s \in Steps |-> IF pc[r] \in Loading /\ (pc[r] = "readParent" \/ s >= local[r].at)
                       THEN steps[s] ELSE local[r].view[s]]

HasHash(record) == record.txHash # NoHash

\* The request is on its way to a roll-up.
Rolls(r) == \/ pc[r] = "rollUp"
            \/ pc[r] \in Loading /\ local[r].after \in RollUps

\* A roll-up sees the hash of the step it is about.
RollUpSeesHash ==
    \A r \in Requests : Rolls(r) => HasHash(Seen(r)[task[r].step])

\* A parent that still looks prepared, although a hash is known, is about to be updated.
UpdateUnderWay ==
    ~broken /\ parent.status = "prepared" /\ (\E s \in Steps : steps[s].txHash # NoHash)
        => \E r \in Requests : Rolls(r)

\* The first write of a request to the parent changes the status it was prepared with;
\* what the gateway ignores later leaves another status in place.
WrittenForGood == keys # {} => parent.status # "prepared"

\* As long as no two requests have overlapped, one at most is in flight.
Alone == ~overlapped => \A q, r \in InFlight : q = r

FlowInv == TypeOK /\ Phases /\ BundleFirst /\ HashBeforeRollUp /\ RollUpSeesHash
             /\ WrittenForGood /\ Alone /\ UpdateUnderWay

\* The tasks of a kind have the fields of that kind.
LEMMA TaskFields ==
    ASSUME TypeOK, NEW r \in Requests
    PROVE  /\ task[r].op \in {"submit", "verify", "outcome", "export"}
           /\ task[r].op \in {"submit", "verify"} => task[r].step \in Steps
           /\ task[r].op = "submit" => task[r].hash \in Hashes
           /\ task[r].op = "outcome" =>
                task[r].outcome \in {"cancelled-before-submission", "partially-executed"}
<1>1. task[r] \in Tasks
  BY DEF TypeOK
<1>. QED
  BY <1>1 DEF Tasks

LEMMA StepNumbers == 0 \in Steps /\ LastStep \in Steps /\ Steps \subseteq Int
BY DEF Steps

\* Deriving a status gives a status.
LEMMA DerivedType ==
    ASSUME NEW view, NEW status \in Statuses, NEW verification \in Verifications
    PROVE  deriveEvidenceLifecycleStatus(view, status, verification)
             \in [status : Statuses, verification : Verifications]
BY DEF deriveEvidenceLifecycleStatus, Statuses, Verifications

LEMMA InitFlow == Init => FlowInv
<1>. SUFFICES ASSUME Init PROVE FlowInv
  OBVIOUS
<1>1. TypeOK
  BY StepNumbers DEF Init, TypeOK, Idle, Blank, StepRecord, Statuses, Verifications, Calls, Answers
<1>2. Phases /\ HashBeforeRollUp /\ RollUpSeesHash
  BY DEF Init, Phases, HashBeforeRollUp, RollUpSeesHash, Loading, Rolls
<1>3. BundleFirst /\ UpdateUnderWay /\ WrittenForGood /\ Alone
  BY DEF Init, BundleFirst, UpdateUnderWay, WrittenForGood, Alone, InFlight
<1>. QED
  BY <1>1, <1>2, <1>3 DEF FlowInv

\* The steps of the preparation.
PrepareNext == \/ persistEvidenceIntent \/ prepareBundle \/ persistPreparedEvidence
               \/ returnBundle \/ PreparationFails

\* The steps by which a request starts.
Start(r) == submitEvidence(r) \/ verifyEvidence(r) \/ recordEvidenceOutcome(r)
              \/ getEvidence(r)

\* The steps by which a request breaks off.
Fail(r) == ReadFails(r) \/ WriteFails(r) \/ ChainFails(r)

\* The steps of a request that is under way.
Proceed(r) ==
    \/ Fail(r) \/ readParent(r) \/ loadEvidenceSteps(r) \/ rollUpEvidenceStatus(r)
    \/ respond(r) \/ readStep(r) \/ patchHash(r) \/ readHash(r) \/ askChain(r)
    \/ patchReceipt(r) \/ patchVerification(r) \/ recordOutcome(r)

\* What may happen: the lending handlers repeat those of the swap routes, and
\* exporting starts like getting the evidence.
LEMMA NextCases ==
    ASSUME Next
    PROVE  \/ PrepareNext
           \/ \E r \in Requests : Start(r) \/ Proceed(r)
           \/ \E h \in Hashes : Mine(h)
BY DEF Next, PrepareNext, Start, Fail, Proceed, getEvidence, exportEvidence, lendingSubmitEvidence,
       lendingVerifyEvidence, lendingRecordEvidenceOutcome

Views == [Steps -> StepRecord]

Locals == [view : Views, status : Statuses, verification : Verifications, at : Steps,
           after : Calls, hash : Hashes \cup {NoHash}, receipt : {"none", "ok", "reverted"}]

\* A request's local variables keep their types when one of them is assigned.
LEMMA LocalUpdates ==
    ASSUME NEW l \in Locals
    PROVE  /\ \A after \in Calls : [l EXCEPT !.after = after] \in Locals
           /\ \A s \in Steps, record \in StepRecord, next \in Steps :
                [l EXCEPT !.view[s] = record, !.at = next] \in Locals
           /\ \A status \in Statuses, verification \in Verifications :
                [l EXCEPT !.status = status, !.verification = verification, !.at = 0]
                  \in Locals
           /\ \A h \in Hashes \cup {NoHash} : [l EXCEPT !.hash = h] \in Locals
           /\ \A receipt \in {"none", "ok", "reverted"} :
                [l EXCEPT !.receipt = receipt] \in Locals
<1>1. \A s \in Steps, record \in StepRecord, next \in Steps :
        [l EXCEPT !.view[s] = record, !.at = next] \in Locals
  <2>. TAKE s \in Steps, record \in StepRecord, next \in Steps
  <2>1. [l.view EXCEPT ![s] = record] \in Views
    BY DEF Locals, Views
  <2>. QED
    BY <2>1 DEF Locals
<1>. QED
  BY <1>1, StepNumbers DEF Locals

\* A step record keeps its type when one of its fields is patched.
LEMMA StepUpdates ==
    ASSUME TypeOK, NEW s \in Steps
    PROVE  /\ \A h \in Hashes : [steps EXCEPT ![s].txHash = h] \in [Steps -> StepRecord]
           /\ \A receipt \in {"none", "ok", "reverted"} :
                [steps EXCEPT ![s].receiptStatus = receipt] \in [Steps -> StepRecord]
           /\ \A verdict \in {"true", "false"} :
                [steps EXCEPT ![s].verified = verdict] \in [Steps -> StepRecord]
<1>1. \A record \in StepRecord : [steps EXCEPT ![s] = record] \in [Steps -> StepRecord]
  BY DEF TypeOK
<1>2. steps \in [Steps -> StepRecord] /\ steps[s] \in StepRecord
  BY DEF TypeOK
<1>3. /\ \A h \in Hashes : [steps[s] EXCEPT !.txHash = h] \in StepRecord
      /\ \A receipt \in {"none", "ok", "reverted"} :
           [steps[s] EXCEPT !.receiptStatus = receipt] \in StepRecord
      /\ \A verdict \in {"true", "false"} :
           [steps[s] EXCEPT !.verified = verdict] \in StepRecord
  BY <1>2 DEF StepRecord
<1>. QED
  BY <1>1, <1>2, <1>3

\* Starting to read the evidence is well typed.
LEMMA LoadType ==
    ASSUME TypeOK, NEW r \in Requests, NEW after \in Calls, Load(r, after)
    PROVE  pc' \in [Requests -> Calls] /\ local' \in [Requests -> Locals]
<1>1. local \in [Requests -> Locals]
  BY DEF TypeOK, Locals, Views
<1>2. local' = [local EXCEPT ![r] = [local[r] EXCEPT !.after = after]]
  BY <1>1 DEF Load
<1>3. [local[r] EXCEPT !.after = after] \in Locals
  BY <1>1, LocalUpdates
<1>. QED
  BY <1>1, <1>2, <1>3 DEF Load, Goto, Calls, TypeOK

\* A write of the parent is well typed.
LEMMA PatchParentType ==
    ASSUME TypeOK, NEW key, NEW record \in [status : Statuses, verification : Verifications],
           NEW kind \in {"rollup", "outcome"}, key = <<kind, record.status>>,
           PatchParent(key, record)
    PROVE  /\ parent' \in [status : Statuses, verification : Verifications]
           /\ keys' \subseteq {"rollup", "outcome"} \X Statuses
<1>1. key \in {"rollup", "outcome"} \X Statuses
  OBVIOUS
<1>. QED
  BY <1>1 DEF PatchParent, TypeOK

LEMMA TypeStep ==
    ASSUME TypeOK, Phases, Next
    PROVE  TypeOK'
<1>. USE DEF Environment, given, Goto
<1>1. CASE PrepareNext
  BY <1>1 DEF PrepareNext, Prepare, persistEvidenceIntent, prepareBundle,
              persistPreparedEvidence, returnBundle, PreparationFails, Statuses, TypeOK
<1>2. local \in [Requests -> Locals]
  BY DEF TypeOK, Locals, Views
<1>3. ASSUME local' \in [Requests -> Locals], steps' \in [Steps -> StepRecord],
             pc' \in [Requests -> Calls], UNCHANGED Environment, UNCHANGED overlapped,
             parent' \in [status : Statuses, verification : Verifications],
             keys' \subseteq {"rollup", "outcome"} \X Statuses
      PROVE  TypeOK'
  BY <1>3 DEF TypeOK, Locals, Views
<1>4. ASSUME NEW r \in Requests, Start(r)
      PROVE  TypeOK'
  <2>. USE DEF Start, submitEvidence, verifyEvidence, recordEvidenceOutcome, getEvidence
  <2>1. overlapped' \in BOOLEAN
    <3>1. overlapped' = (overlapped \/ InFlight # {})
      BY <1>4 DEF Accept
    <3>2. (overlapped \/ InFlight # {}) \in BOOLEAN
      OBVIOUS
    <3>. QED
      BY <3>1, <3>2, Zenon
  <2>2. pc' \in [Requests -> Calls]
    BY <1>4 DEF Load, Calls, TypeOK
  <2>3. local' \in [Requests -> Locals]
    <3>1. {"readHash", "recordOutcome", "respond"} \subseteq Calls
      BY DEF Calls
    <3>. QED
      BY <1>2, <1>4, <3>1, LoadType
  <2>4. UNCHANGED <<Environment, parent, keys, steps>>
    BY <1>4 DEF Accept
  <2>. QED
    BY <2>1, <2>2, <2>3, <2>4 DEF TypeOK, Locals, Views
<1>5. ASSUME NEW r \in Requests, Fail(r)
      PROVE  TypeOK'
  BY <1>5 DEF Fail, ReadFails, WriteFails, ChainFails, Stop, Calls, Answers, TypeOK
<1>6. ASSUME NEW r \in Requests, readParent(r)
      PROVE  TypeOK'
  <2>1. local' \in [Requests -> Locals]
    BY <1>2, <1>6, LocalUpdates DEF readParent, TypeOK
  <2>. QED
    BY <1>3, <1>6, <2>1 DEF readParent, Calls, TypeOK
<1>7. ASSUME NEW r \in Requests, loadEvidenceSteps(r)
      PROVE  TypeOK'
  <2>. DEFINE s == local[r].at
              next == IF s < LastStep THEN s + 1 ELSE 0
  <2>1. s \in Steps /\ next \in Steps /\ steps[s] \in StepRecord
    BY DEF Steps, TypeOK
  <2>2. pc' \in [Requests -> Calls]
    BY <1>7 DEF loadEvidenceSteps, Calls, TypeOK
  <2>3. local' \in [Requests -> Locals]
    <3>1. local' = [local EXCEPT ![r] = [local[r] EXCEPT !.view[s] = steps[s], !.at = next]]
      BY <1>2, <1>7 DEF loadEvidenceSteps
    <3>2. [local[r] EXCEPT !.view[s] = steps[s], !.at = next] \in Locals
      BY <2>1, <1>2, LocalUpdates
    <3>. QED
      BY <3>1, <3>2, <1>2
  <2>. QED
    BY <1>3, <1>7, <2>2, <2>3 DEF loadEvidenceSteps, TypeOK
<1>8. ASSUME NEW r \in Requests, rollUpEvidenceStatus(r)
      PROVE  TypeOK'
  <2>. DEFINE derived == deriveEvidenceLifecycleStatus(local[r].view, local[r].status,
                                                       local[r].verification)
  <2>0. derived \in [status : Statuses, verification : Verifications]
    BY DerivedType DEF TypeOK
  <2>1. /\ parent' \in [status : Statuses, verification : Verifications]
        /\ keys' \subseteq {"rollup", "outcome"} \X Statuses
    BY <1>8, <2>0, PatchParentType DEF rollUpEvidenceStatus
  <2>2. pc' \in [Requests -> Calls]
    BY <1>8 DEF rollUpEvidenceStatus, TypeOK
  <2>. QED
    BY <1>2, <1>3, <1>8, <2>1, <2>2 DEF rollUpEvidenceStatus, TypeOK
<1>9. ASSUME NEW r \in Requests, respond(r) \/ readStep(r)
      PROVE  TypeOK'
  BY <1>9 DEF respond, readStep, Calls, Answers, TypeOK
<1>10. ASSUME NEW r \in Requests, patchHash(r)
       PROVE  TypeOK'
  <2>1. task[r].step \in Steps /\ task[r].hash \in Hashes
    BY <1>10, TaskFields DEF Phases, patchHash
  <2>2. steps' \in [Steps -> StepRecord]
    BY <1>10, <2>1, StepUpdates DEF patchHash
  <2>3. pc' \in [Requests -> Calls] /\ local' \in [Requests -> Locals]
    BY <1>10, LoadType DEF patchHash, Calls
  <2>. QED
    BY <1>3, <1>10, <2>2, <2>3 DEF patchHash, TypeOK
<1>11. ASSUME NEW r \in Requests, readHash(r)
       PROVE  TypeOK'
  <2>1. task[r].step \in Steps
    BY <1>11, TaskFields DEF Phases, readHash
  <2>2. steps[task[r].step].txHash \in Hashes \cup {NoHash}
    BY <2>1 DEF StepRecord, TypeOK
  <2>3. local' \in [Requests -> Locals]
    BY <1>2, <1>11, <2>2, LocalUpdates DEF readHash
  <2>4. pc' \in [Requests -> Calls]
    BY <1>11 DEF readHash, Calls, Answers, TypeOK
  <2>. QED
    BY <1>3, <1>11, <2>3, <2>4 DEF readHash, TypeOK
<1>12. ASSUME NEW r \in Requests, askChain(r)
       PROVE  TypeOK'
  <2>1. (IF mined[local[r].hash] = "no" THEN "none" ELSE mined[local[r].hash])
           \in {"none", "ok", "reverted"}
    BY <1>12 DEF askChain, Phases, TypeOK
  <2>3. local' \in [Requests -> Locals]
    BY <1>2, <1>12, <2>1, LocalUpdates DEF askChain
  <2>4. pc' \in [Requests -> Calls]
    BY <1>12 DEF askChain, Calls, Answers, TypeOK
  <2>. QED
    BY <1>3, <1>12, <2>3, <2>4 DEF askChain, TypeOK
<1>13. ASSUME NEW r \in Requests, patchReceipt(r)
       PROVE  TypeOK'
  <2>1. steps' \in [Steps -> StepRecord]
    BY <1>13, TaskFields, StepUpdates DEF Phases, patchReceipt, TypeOK
  <2>2. pc' \in [Requests -> Calls] /\ local' \in [Requests -> Locals]
    BY <1>13, LoadType DEF patchReceipt, Calls
  <2>. QED
    BY <1>3, <1>13, <2>1, <2>2 DEF patchReceipt, TypeOK
<1>14. ASSUME NEW r \in Requests, patchVerification(r)
       PROVE  TypeOK'
  <2>1. steps' \in [Steps -> StepRecord]
    BY <1>14, TaskFields, StepUpdates DEF Phases, patchVerification
  <2>2. pc' \in [Requests -> Calls] /\ local' \in [Requests -> Locals]
    BY <1>14, LoadType DEF patchVerification, Calls, Answers
  <2>. QED
    BY <1>3, <1>14, <2>1, <2>2 DEF patchVerification, TypeOK
<1>15. ASSUME NEW r \in Requests, recordOutcome(r)
       PROVE  TypeOK'
  <2>1. task[r].outcome \in {"cancelled-before-submission", "partially-executed"}
    BY <1>15, TaskFields DEF Phases, recordOutcome
  <2>. DEFINE record ==
         [status |-> task[r].outcome,
          verification |->
            IF task[r].outcome = "partially-executed" /\ local[r].verification = "null"
              THEN "pending" ELSE local[r].verification]
  <2>4. /\ record \in [status : Statuses, verification : Verifications]
        /\ record.status = task[r].outcome
    BY <1>2, <2>1 DEF Statuses, Verifications, Locals
  <2>5. \/ PatchParent(<<"outcome", task[r].outcome>>, record)
        \/ UNCHANGED <<parent, keys>>
    BY <1>15 DEF recordOutcome
  <2>2. /\ parent' \in [status : Statuses, verification : Verifications]
        /\ keys' \subseteq {"rollup", "outcome"} \X Statuses
    <3>. HIDE DEF record
    <3>. QED
      BY <2>4, <2>5, PatchParentType DEF TypeOK
  <2>3. pc' \in [Requests -> Calls]
    <3>1. \E answer \in {"done", "unsupported"} : pc' = [pc EXCEPT ![r] = answer]
      BY <1>15 DEF recordOutcome
    <3>2. {"done", "unsupported"} \subseteq Calls
      BY DEF Calls, Answers
    <3>3. pc \in [Requests -> Calls]
      BY DEF TypeOK
    <3>. QED
      BY <3>1, <3>2, <3>3
  <2>. QED
    BY <1>2, <1>3, <1>15, <2>2, <2>3 DEF recordOutcome, TypeOK
<1>16. ASSUME NEW h \in Hashes, Mine(h)
       PROVE  TypeOK'
  BY <1>16 DEF Mine, TypeOK
<1>. QED
  BY NextCases, <1>1, <1>4, <1>5, <1>6, <1>7, <1>8, <1>9, <1>10, <1>11, <1>12, <1>13,
     <1>14, <1>15, <1>16 DEF Proceed

\* A step of one request leaves the others where they are.
LEMMA OthersWait ==
    ASSUME TypeOK, NEW r \in Requests, Start(r) \/ Proceed(r),
           NEW q \in Requests, q # r
    PROVE  pc'[q] = pc[q] /\ local'[q] = local[q]
<1>. USE DEF Goto, Load, TypeOK
<1>1. CASE Start(r)
  BY <1>1 DEF Start, submitEvidence, verifyEvidence, recordEvidenceOutcome, getEvidence
<1>2. CASE Proceed(r)
  BY <1>2 DEF Proceed, Fail, ReadFails, WriteFails, ChainFails, Stop, readParent,
       loadEvidenceSteps, rollUpEvidenceStatus, respond, readStep, patchHash, readHash,
       askChain, patchReceipt, patchVerification, recordOutcome
<1>. QED
  BY <1>1, <1>2

\* What requests ask for, and the calls that transactions make, never change.
LEMMA TasksStay ==
    ASSUME Next
    PROVE  task' = task /\ callOf' = callOf
BY NextCases DEF PrepareNext, Prepare, persistEvidenceIntent,
     prepareBundle, persistPreparedEvidence, returnBundle, PreparationFails, Start, Proceed,
     submitEvidence, verifyEvidence, recordEvidenceOutcome, getEvidence, Accept, Fail,
     ReadFails, WriteFails, ChainFails, Stop, readParent, loadEvidenceSteps,
     rollUpEvidenceStatus, respond, readStep, patchHash, readHash, askChain, patchReceipt,
     patchVerification, recordOutcome, Mine, Environment, given

\* A failure of the gateway is remembered.
LEMMA BrokenForGood ==
    ASSUME NEW r \in Requests, Start(r) \/ Proceed(r), ~broken'
    PROVE  ~broken
BY DEF Start, submitEvidence, verifyEvidence, recordEvidenceOutcome,
       getEvidence, Accept, Proceed, Fail, ReadFails, WriteFails, ChainFails, Stop,
       readParent, loadEvidenceSteps, rollUpEvidenceStatus, respond, readStep, patchHash,
       readHash, askChain, patchReceipt, patchVerification, recordOutcome, Environment

\* A hash, once recorded, is never removed.
LEMMA HashesStay ==
    ASSUME TypeOK, Phases, Next, NEW s \in Steps, HasHash(steps[s])
    PROVE  HasHash(steps'[s])
<1>1. CASE \E r \in Requests : patchHash(r)
  BY <1>1, TaskFields DEF patchHash, HasHash, Phases, TypeOK
<1>2. CASE \E r \in Requests : patchReceipt(r)
  BY <1>2, TaskFields DEF patchReceipt, HasHash, Phases, TypeOK, StepRecord
<1>3. CASE \E r \in Requests : patchVerification(r)
  BY <1>3, TaskFields DEF patchVerification, HasHash, Phases, TypeOK, StepRecord
<1>4. CASE UNCHANGED steps
  BY <1>4
<1>. QED
  BY <1>1, <1>2, <1>3, <1>4, NextCases DEF PrepareNext, Prepare, persistEvidenceIntent,
     prepareBundle, persistPreparedEvidence, returnBundle, PreparationFails, Start, Proceed,
     submitEvidence, verifyEvidence, recordEvidenceOutcome, getEvidence, Accept, Fail,
     ReadFails, WriteFails, ChainFails, Stop, readParent, loadEvidenceSteps,
     rollUpEvidenceStatus, respond, readStep, readHash, askChain, recordOutcome, Mine

LEMMA PhasesStep ==
    ASSUME TypeOK, Phases, Next
    PROVE  Phases'
<1>. USE DEF Phases, TypeOK, Environment, given, Goto, Load, Loading, RollUps
<1>1. CASE PrepareNext
  BY <1>1 DEF PrepareNext, Prepare, persistEvidenceIntent, prepareBundle,
              persistPreparedEvidence, returnBundle, PreparationFails
<1>2. CASE \E h \in Hashes : Mine(h)
  BY <1>2 DEF Mine
<1>3. ASSUME NEW r \in Requests, Start(r)
      PROVE  Phases'
  BY <1>3 DEF Start, submitEvidence, verifyEvidence, recordEvidenceOutcome, getEvidence, Accept
<1>4. ASSUME NEW r \in Requests, Fail(r)
      PROVE  Phases'
  BY <1>4 DEF Fail, ReadFails, WriteFails, ChainFails, Stop
<1>5. ASSUME NEW r \in Requests, readParent(r)
      PROVE  Phases'
  BY <1>5 DEF readParent
<1>6. ASSUME NEW r \in Requests, loadEvidenceSteps(r)
      PROVE  Phases'
  BY <1>6 DEF loadEvidenceSteps
<1>7. ASSUME NEW r \in Requests, rollUpEvidenceStatus(r)
      PROVE  Phases'
  BY <1>7 DEF rollUpEvidenceStatus
<1>8. ASSUME NEW r \in Requests, respond(r) \/ readStep(r) \/ patchHash(r)
      PROVE  Phases'
  BY <1>8 DEF respond, readStep, patchHash
<1>9. ASSUME NEW r \in Requests, readHash(r)
      PROVE  Phases'
  <2>1. steps[task[r].step].txHash \in Hashes \cup {NoHash}
    BY <1>9, TaskFields DEF readHash, StepRecord
  <2>. QED
    BY <1>9, <2>1 DEF readHash
<1>10. ASSUME NEW r \in Requests, askChain(r)
      PROVE  Phases'
  BY <1>10 DEF askChain
<1>11. ASSUME NEW r \in Requests, patchReceipt(r) \/ patchVerification(r) \/ recordOutcome(r)
      PROVE  Phases'
  BY <1>11 DEF patchReceipt, patchVerification, recordOutcome
<1>. QED
  BY NextCases, <1>1, <1>2, <1>3, <1>4, <1>5, <1>6, <1>7, <1>8, <1>9, <1>10, <1>11 DEF Proceed

\* When a request writes to its step, the step has a hash afterwards.
LEMMA StepHasHash ==
    ASSUME TypeOK, Phases, HashBeforeRollUp, Next, NEW r \in Requests,
           patchHash(r) \/ patchReceipt(r) \/ patchVerification(r)
    PROVE  HasHash(steps'[task[r].step])
<1>1. task[r].step \in Steps
  BY TaskFields DEF Phases, patchHash, patchReceipt, patchVerification
<1>2. CASE patchHash(r)
  <2>1. task[r].hash # NoHash
    BY <1>2, TaskFields DEF patchHash, Phases
  <2>. QED
    BY <1>1, <1>2, <2>1 DEF patchHash, TypeOK, StepRecord, HasHash
<1>3. CASE patchReceipt(r) \/ patchVerification(r)
  BY <1>1, <1>3, HashesStay DEF patchReceipt, patchVerification, HashBeforeRollUp, HasHash
<1>. QED
  BY <1>2, <1>3

LEMMA BundleFirstStep ==
    ASSUME TypeOK, BundleFirst, Next
    PROVE  BundleFirst'
<1>1. CASE PrepareNext
  BY <1>1 DEF BundleFirst, PrepareNext, Prepare, persistEvidenceIntent, prepareBundle,
              persistPreparedEvidence, returnBundle, PreparationFails
<1>2. CASE \E h \in Hashes : Mine(h)
  BY <1>2 DEF BundleFirst, Mine
<1>3. ASSUME NEW r \in Requests, Start(r)
      PROVE  BundleFirst'
  BY <1>3 DEF BundleFirst, Start, submitEvidence, verifyEvidence, recordEvidenceOutcome,
              getEvidence, Accept, Environment
<1>4. ASSUME NEW r \in Requests, Proceed(r)
      PROVE  BundleFirst'
  <2>1. pc[r] # "idle" /\ preparation' = preparation
    BY <1>4 DEF Proceed, Fail, ReadFails, WriteFails, ChainFails, Stop, readParent,
       loadEvidenceSteps, rollUpEvidenceStatus, respond, readStep, patchHash, readHash,
       askChain, patchReceipt, patchVerification, recordOutcome, Environment
  <2>. QED
    BY <2>1 DEF BundleFirst
<1>. QED
  BY NextCases, <1>1, <1>2, <1>3, <1>4

LEMMA HashBeforeRollUpStep ==
    ASSUME TypeOK, Phases, HashBeforeRollUp, Next
    PROVE  HashBeforeRollUp'
<1>. DEFINE Has(s) == steps[s].txHash # NoHash
            Late(r) == \/ pc[r] \in {"askChain", "patchReceipt", "patchVerification", "rollUp"}
                       \/ pc[r] \in Loading /\ local[r].after \in RollUps
<1>1. task' = task
  BY TasksStay
<1>2. \A s \in Steps : Has(s) => Has(s)'
  BY HashesStay DEF HasHash
<1>3. \A r \in Requests : Late(r)' => task[r].step \in Steps
  BY PhasesStep, <1>1, TaskFields DEF Phases, Loading, RollUps
<1>4. ASSUME NEW r \in Requests, Late(r)'
      PROVE  Late(r) \/ Has(task[r].step)'
  <2>. USE DEF Loading, RollUps
  <2>1. CASE Start(r)
    BY <2>1, <1>4 DEF Start, submitEvidence, verifyEvidence, recordEvidenceOutcome,
                      getEvidence, Load, Goto, TypeOK
  <2>2. CASE patchHash(r)
    BY <1>1, <2>2, StepHasHash DEF HasHash
  <2>3. CASE readHash(r)
    BY <1>1, <1>4, <2>3 DEF readHash, Goto, TypeOK
  <2>4. CASE readParent(r) \/ loadEvidenceSteps(r)
    <3>1. local'[r].after = local[r].after
      BY <2>4 DEF readParent, loadEvidenceSteps, TypeOK
    <3>. QED
      BY <1>4, <2>4, <3>1 DEF readParent, loadEvidenceSteps, Goto, TypeOK, Phases
  <2>8. CASE Fail(r) \/ respond(r) \/ readStep(r) \/ recordOutcome(r)
    BY <1>4, <2>8 DEF Fail, ReadFails, WriteFails, ChainFails, Stop,
       respond, readStep, recordOutcome, Goto, TypeOK
  <2>5. CASE rollUpEvidenceStatus(r) \/ askChain(r) \/ patchReceipt(r)
               \/ patchVerification(r)
    BY <2>5 DEF rollUpEvidenceStatus, askChain, patchReceipt, patchVerification
  <2>6. CASE \E q \in Requests : q # r /\ (Start(q) \/ Proceed(q))
    BY <2>6, <1>4, OthersWait
  <2>7. CASE UNCHANGED <<pc, local>>
    BY <2>7, <1>4
  <2>. QED
    BY NextCases, <2>1, <2>2, <2>3, <2>4, <2>5, <2>6, <2>7, <2>8 DEF Proceed, PrepareNext, Prepare,
       persistEvidenceIntent, prepareBundle, persistPreparedEvidence, returnBundle,
       PreparationFails, Mine
<1>. QED
  BY <1>1, <1>2, <1>3, <1>4 DEF HashBeforeRollUp

\* Reading a record of the evidence changes nothing in what the request sees.
LEMMA SeenByReading ==
    ASSUME TypeOK, NEW r \in Requests, readParent(r) \/ loadEvidenceSteps(r)
    PROVE  Seen(r)' = Seen(r)
<1>1. steps' = steps
  BY DEF readParent, loadEvidenceSteps
<1>2. CASE readParent(r)
  <2>1. pc[r] = "readParent" /\ pc'[r] = "loadEvidenceSteps" /\ local'[r].at = 0
    BY <1>2 DEF readParent, Goto, TypeOK
  <2>2. \A s \in Steps : s >= 0
    BY DEF Steps
  <2>. QED
    BY <1>1, <2>1, <2>2 DEF Seen, Loading
<1>3. CASE loadEvidenceSteps(r)
  <2>. DEFINE at == local[r].at
  <2>1. pc[r] = "loadEvidenceSteps" /\ at \in Steps
    BY <1>3 DEF loadEvidenceSteps, TypeOK
  <2>2. local'[r].view = [local[r].view EXCEPT ![at] = steps[at]]
    BY <1>3 DEF loadEvidenceSteps, TypeOK
  <2>3. local[r].view \in [Steps -> StepRecord]
    BY DEF TypeOK
  <2>4. CASE at < LastStep
    <3>1. pc'[r] = "loadEvidenceSteps" /\ local'[r].at = at + 1
      BY <1>3, <2>4 DEF loadEvidenceSteps, Goto, TypeOK
    <3>2. \A s \in Steps : s >= local'[r].at <=> s >= at /\ s # at
      BY <2>1, <3>1 DEF Steps
    <3>3. at >= at
      BY <2>1 DEF Steps
    <3>4. ASSUME NEW s \in Steps
          PROVE  (IF s >= local'[r].at THEN steps[s] ELSE local'[r].view[s])
                   = IF s >= at THEN steps[s] ELSE local[r].view[s]
      <4>1. CASE s = at
        BY <2>2, <2>3, <3>2, <3>3, <4>1
      <4>2. CASE s # at
        BY <2>2, <2>3, <3>2, <4>2
      <4>. QED
        BY <4>1, <4>2
    <3>. QED
      BY <1>1, <2>1, <3>1, <3>4 DEF Seen, Loading
  <2>5. CASE ~(at < LastStep)
    <3>1. pc'[r] \notin Loading
      BY <1>3, <2>5 DEF loadEvidenceSteps, Goto, TypeOK, Loading
    <3>2. \A s \in Steps : s >= at <=> s = at
      BY <2>1, <2>5 DEF Steps
    <3>. QED
      BY <1>1, <2>1, <2>2, <2>3, <3>1, <3>2 DEF Seen, Loading
  <2>. QED
    BY <2>4, <2>5
<1>. QED
  BY <1>2, <1>3

\* A request that starts to read the evidence sees the records as they are.
LEMMA SeenAtLoad ==
    ASSUME TypeOK, NEW r \in Requests, pc'[r] = "readParent"
    PROVE  \A s \in Steps : Seen(r)'[s] = steps'[s]
BY DEF Seen, Loading

\* What another request sees loses no hash.
LEMMA SeenByOthers ==
    ASSUME TypeOK, Phases, Next, NEW q \in Requests, pc'[q] = pc[q], local'[q] = local[q],
           NEW s \in Steps, HasHash(Seen(q)[s])
    PROVE  HasHash(Seen(q)'[s])
BY HashesStay DEF Seen, HasHash

\* A status derived from steps of which one has a hash is not "prepared".
LEMMA DerivedIsNotPrepared ==
    ASSUME NEW view, NEW status, NEW verification, \E s \in Steps : HasHash(view[s])
    PROVE  deriveEvidenceLifecycleStatus(view, status, verification).status # "prepared"
BY DEF deriveEvidenceLifecycleStatus, HasHash

LEMMA RollUpSeesHashStep ==
    ASSUME TypeOK, Phases, HashBeforeRollUp, RollUpSeesHash, Next
    PROVE  RollUpSeesHash'
<1>1. task' = task
  BY TasksStay
<1>2. \A r \in Requests : Rolls(r)' => task[r].step \in Steps
  BY PhasesStep, <1>1, TaskFields DEF Phases, Loading, RollUps, Rolls
<1>3. ASSUME NEW r \in Requests, Rolls(r)'
      PROVE  HasHash(Seen(r)'[task[r].step])
  <2>. USE DEF Loading, RollUps, Rolls
  <2>1. CASE Start(r)
    BY <2>1, <1>3 DEF Start, submitEvidence, verifyEvidence, recordEvidenceOutcome,
                      getEvidence, Load, Goto, TypeOK
  <2>2. CASE patchHash(r) \/ patchReceipt(r) \/ patchVerification(r)
    <3>1. pc'[r] = "readParent"
      BY <2>2 DEF patchHash, patchReceipt, patchVerification, Load, Goto, TypeOK
    <3>2. HasHash(steps'[task[r].step])
      BY <1>1, <1>2, <1>3, <2>2, StepHasHash
    <3>. QED
      BY <1>2, <1>3, <3>1, <3>2, SeenAtLoad
  <2>3. CASE readParent(r) \/ loadEvidenceSteps(r)
    <3>1. local'[r].after = local[r].after
      BY <2>3 DEF readParent, loadEvidenceSteps, TypeOK
    <3>2. Rolls(r)
      BY <1>3, <2>3, <3>1 DEF readParent, loadEvidenceSteps, Goto, TypeOK, Phases
    <3>. QED
      BY <3>2, <2>3, SeenByReading DEF RollUpSeesHash
  <2>4. CASE rollUpEvidenceStatus(r)
    BY <1>3, <2>4 DEF rollUpEvidenceStatus, Goto, TypeOK, Phases
  <2>5. CASE Fail(r) \/ respond(r) \/ readStep(r) \/ readHash(r) \/ askChain(r)
               \/ recordOutcome(r)
    BY <1>3, <2>5 DEF Fail, ReadFails, WriteFails, ChainFails, Stop,
       respond, readStep, readHash, askChain, recordOutcome, Goto, TypeOK
  <2>6. CASE pc'[r] = pc[r] /\ local'[r] = local[r]
    BY <1>2, <1>3, <2>6, SeenByOthers DEF RollUpSeesHash
  <2>. QED
    BY NextCases, OthersWait, <2>1, <2>2, <2>3, <2>4, <2>5, <2>6 DEF Proceed, PrepareNext,
       Prepare, persistEvidenceIntent, prepareBundle, persistPreparedEvidence, returnBundle,
       PreparationFails, Mine
<1>. QED
  BY <1>1, <1>3 DEF RollUpSeesHash

\* The writes of requests to the parent; nothing else writes to it once the bundle has
\* been returned.
LEMMA ParentWrites ==
    ASSUME Next, ~PrepareNext,
           ~\E r \in Requests : rollUpEvidenceStatus(r) \/ recordOutcome(r)
    PROVE  UNCHANGED <<parent, keys>>
BY NextCases DEF Start, Proceed,
     submitEvidence, verifyEvidence, recordEvidenceOutcome, getEvidence, Accept, Fail,
     ReadFails, WriteFails, ChainFails, Stop, readParent, loadEvidenceSteps,
     respond, readStep, patchHash, readHash, askChain, patchReceipt,
     patchVerification, Mine

\* A roll-up does not leave the parent prepared.
LEMMA RollUpIsNotPrepared ==
    ASSUME TypeOK, Phases, RollUpSeesHash, WrittenForGood,
           NEW r \in Requests, rollUpEvidenceStatus(r)
    PROVE  parent'.status # "prepared"
<1>. DEFINE derived == deriveEvidenceLifecycleStatus(local[r].view, local[r].status,
                                                     local[r].verification)
<1>1. task[r].step \in Steps
  BY TaskFields DEF Phases, rollUpEvidenceStatus
<1>2. HasHash(local[r].view[task[r].step])
  BY <1>1 DEF RollUpSeesHash, Rolls, Seen, Loading, rollUpEvidenceStatus
<1>3. derived.status # "prepared"
  BY <1>1, <1>2, DerivedIsNotPrepared
<1>4. parent' = derived \/ (keys # {} /\ parent' = parent)
  BY DEF rollUpEvidenceStatus, PatchParent
<1>. QED
  BY <1>3, <1>4 DEF WrittenForGood

LEMMA WrittenForGoodStep ==
    ASSUME TypeOK, Phases, BundleFirst, RollUpSeesHash, WrittenForGood, Next
    PROVE  WrittenForGood'
<1>1. CASE PrepareNext
  BY <1>1 DEF WrittenForGood, BundleFirst, PrepareNext, Prepare, persistEvidenceIntent,
       prepareBundle, persistPreparedEvidence, returnBundle, PreparationFails
<1>2. CASE \E r \in Requests : rollUpEvidenceStatus(r)
  BY <1>2, RollUpIsNotPrepared DEF WrittenForGood
<1>3. ASSUME NEW r \in Requests, recordOutcome(r)
      PROVE  WrittenForGood'
  <2>1. task[r].outcome # "prepared"
    BY <1>3, TaskFields DEF Phases, recordOutcome
  <2>2. \/ UNCHANGED <<parent, keys>>
        \/ parent'.status = task[r].outcome
        \/ parent' = parent /\ keys # {}
    BY <1>3 DEF recordOutcome, PatchParent
  <2>. QED
    BY <2>1, <2>2 DEF WrittenForGood
<1>. QED
  BY <1>1, <1>2, <1>3, ParentWrites DEF WrittenForGood

\* The request that takes a step is the only one in flight, while none overlap.
LEMMA OneAtATime ==
    ASSUME Alone, TypeOK, NEW r \in Requests, Start(r) \/ Proceed(r), ~overlapped'
    PROVE  /\ ~overlapped
           /\ \A q \in Requests : q # r => q \notin InFlight /\ q \notin InFlight'
<1>1. CASE Start(r)
  <2>1. ~overlapped /\ InFlight = {}
    BY <1>1 DEF Start, submitEvidence, verifyEvidence, recordEvidenceOutcome, getEvidence, Accept
  <2>. QED
    BY <2>1, OthersWait DEF InFlight
<1>2. CASE Proceed(r)
  <2>1. r \in InFlight /\ overlapped' = overlapped
    BY <1>2 DEF Proceed, Fail, ReadFails, WriteFails, ChainFails, Stop, readParent,
       loadEvidenceSteps, rollUpEvidenceStatus, respond, readStep, patchHash, readHash,
       askChain, patchReceipt, patchVerification, recordOutcome, InFlight, Answers
  <2>. QED
    BY <2>1, OthersWait DEF InFlight, Alone
<1>. QED
  BY <1>1, <1>2

\* Requests that are in flight have started, and only a start can overlap.
LEMMA AloneStep ==
    ASSUME TypeOK, Alone, Next
    PROVE  Alone'
<1>. SUFFICES ASSUME ~overlapped' PROVE \A q, r \in InFlight' : q = r
  BY DEF Alone
<1>1. CASE PrepareNext \/ \E h \in Hashes : Mine(h)
  BY <1>1 DEF Alone, InFlight, PrepareNext, Prepare, persistEvidenceIntent, prepareBundle,
       persistPreparedEvidence, returnBundle, PreparationFails, Mine
<1>2. ASSUME NEW r \in Requests, Start(r) \/ Proceed(r)
      PROVE  \A q, x \in InFlight' : q = x
  BY <1>2, OneAtATime DEF InFlight
<1>. QED
  BY NextCases, <1>1, <1>2

LEMMA UpdateUnderWayStep ==
    ASSUME FlowInv, Next
    PROVE  UpdateUnderWay'
<1>. USE DEF FlowInv
<1>. DEFINE Known == \E s \in Steps : HasHash(steps[s])
<1>. SUFFICES ASSUME ~broken', parent'.status = "prepared", Known'
              PROVE  \E r \in Requests : Rolls(r)'
  BY DEF UpdateUnderWay, HasHash
<1>. USE DEF Loading, RollUps, Rolls
<1>1. CASE PrepareNext
  <2>1. ~Known \/ preparation = "returned"
    BY DEF BundleFirst, HasHash, Blank
  <2>. QED
    BY <1>1, <2>1 DEF PrepareNext, Prepare, persistEvidenceIntent, prepareBundle,
         persistPreparedEvidence, returnBundle, PreparationFails
<1>2. ASSUME NEW r \in Requests, rollUpEvidenceStatus(r)
      PROVE  FALSE
  BY <1>2, RollUpIsNotPrepared
<1>3. ASSUME NEW r \in Requests, recordOutcome(r), parent' # parent
      PROVE  FALSE
  BY <1>3, TaskFields DEF recordOutcome, PatchParent, Phases
<1>4. ASSUME NEW r \in Requests, patchHash(r) \/ patchReceipt(r) \/ patchVerification(r)
      PROVE  Rolls(r)'
  BY <1>4 DEF patchHash, patchReceipt, patchVerification, Load, Goto, TypeOK
<1>5. ASSUME UNCHANGED <<parent, steps>>, ~broken
      PROVE  \E r \in Requests : Rolls(r)
  BY <1>5 DEF UpdateUnderWay, HasHash
<1>6. ASSUME NEW r \in Requests, Rolls(r), Start(r) \/ Proceed(r),
             ~rollUpEvidenceStatus(r)
      PROVE  Rolls(r)'
  <2>1. CASE Start(r)
    BY <2>1, <1>6 DEF Start, submitEvidence, verifyEvidence, recordEvidenceOutcome,
                      getEvidence, Accept
  <2>2. CASE readParent(r)
    BY <2>2, <1>6 DEF readParent, Goto, TypeOK
  <2>3. CASE loadEvidenceSteps(r)
    <3>1. local'[r].after = local[r].after
      BY <2>3 DEF loadEvidenceSteps, TypeOK
    <3>. QED
      BY <2>3, <1>6, <3>1 DEF loadEvidenceSteps, Goto, TypeOK
  <2>4. CASE Fail(r)
    BY <2>4, <1>6 DEF Fail, ReadFails, WriteFails, ChainFails, Stop
  <2>5. CASE respond(r) \/ readStep(r) \/ readHash(r) \/ askChain(r) \/ recordOutcome(r)
    BY <2>5, <1>6 DEF respond, readStep, readHash, askChain, recordOutcome
  <2>. QED
    BY <1>4, <1>6, <2>1, <2>2, <2>3, <2>4, <2>5 DEF Proceed
<1>7. ASSUME NEW r \in Requests, Start(r) \/ Proceed(r), ~rollUpEvidenceStatus(r),
             UNCHANGED <<parent, steps>>
      PROVE  \E q \in Requests : Rolls(q)'
  <2>1. ~broken
    BY <1>7, BrokenForGood
  <2>2. PICK q \in Requests : Rolls(q)
    BY <1>5, <1>7, <2>1
  <2>. QED
    BY <1>6, <1>7, <2>2, OthersWait
<1>8. ASSUME NEW h \in Hashes, Mine(h)
      PROVE  \E q \in Requests : Rolls(q)'
  BY <1>5, <1>8 DEF Mine
<1>9. ASSUME NEW r \in Requests, Start(r) \/ Proceed(r), ~rollUpEvidenceStatus(r),
             ~(patchHash(r) \/ patchReceipt(r) \/ patchVerification(r)), ~recordOutcome(r)
      PROVE  UNCHANGED <<parent, steps>>
  BY <1>9 DEF Start, submitEvidence, verifyEvidence, recordEvidenceOutcome,
       getEvidence, Accept, Proceed, Fail, ReadFails, WriteFails, ChainFails, Stop,
       readParent, loadEvidenceSteps, respond, readStep, readHash, askChain
<1>10. ASSUME NEW r \in Requests, recordOutcome(r)
       PROVE  UNCHANGED <<parent, steps>>
  BY <1>3, <1>10 DEF recordOutcome
<1>11. ASSUME NEW r \in Requests, Start(r) \/ Proceed(r)
       PROVE  \E q \in Requests : Rolls(q)'
  <2>1. ~rollUpEvidenceStatus(r)
    BY <1>2
  <2>2. CASE patchHash(r) \/ patchReceipt(r) \/ patchVerification(r)
    BY <1>4, <2>2
  <2>3. CASE ~(patchHash(r) \/ patchReceipt(r) \/ patchVerification(r))
    BY <1>7, <1>9, <1>10, <1>11, <2>1, <2>3
  <2>. QED
    BY <2>2, <2>3
<1>. QED
  BY NextCases, <1>1, <1>8, <1>11

LEMMA FlowStep == FlowInv /\ [Next]_vars => FlowInv'
<1>1. ASSUME FlowInv, Next
      PROVE  FlowInv'
  BY <1>1, TypeStep, PhasesStep, BundleFirstStep, HashBeforeRollUpStep, RollUpSeesHashStep,
     WrittenForGoodStep, AloneStep, UpdateUnderWayStep DEF FlowInv
<1>2. ASSUME FlowInv, UNCHANGED vars
      PROVE  FlowInv'
  BY <1>2 DEF vars, given, FlowInv, TypeOK, Phases, BundleFirst, HashBeforeRollUp,
     RollUpSeesHash, UpdateUnderWay, Seen, Rolls, WrittenForGood, Alone, InFlight
<1>. QED
  BY <1>1, <1>2

LEMMA FlowAlways == Spec => []FlowInv
BY InitFlow, FlowStep, PTL DEF Spec

\* Every variable holds a value of its type.
THEOREM TypeCorrect == Spec => []TypeOK
<1>1. FlowInv => TypeOK
  BY DEF FlowInv
<1>. QED
  BY <1>1, FlowAlways, PTL

\* Once a submission has recorded a hash, and no request is in flight and the gateway
\* has not failed, the parent does not look merely prepared: whichever call to the
\* chain failed, a roll-up that saw the hash came before it.
THEOREM NeverMerelyPreparedHolds == Spec => []NeverMerelyPrepared
<1>1. FlowInv => NeverMerelyPrepared
  BY DEF FlowInv, UpdateUnderWay, NeverMerelyPrepared, InFlight, Loading, Answers, Rolls
<1>. QED
  BY <1>1, FlowAlways, PTL

-----------------------------------------------------------------------------
(* One transaction per step, or one request at a time                      *)

\* A wallet that broadcasts no second transaction for a step.
OneTransactionPerStep ==
    \A x, y \in Offered :
        x.op = "submit" /\ y.op = "submit" /\ x.step = y.step => x.hash = y.hash

\* What keeps the hash of a step: the wallet's discipline, or requests that do not
\* overlap, of which each finds the hash it compares still there when it writes.
Steady == OneTransactionPerStep \/ ~overlapped

\* What a step record holds was the answer of the chain about its hash.
RecordOK(s, record) ==
    /\ record.txHash # NoHash =>
         \E t \in Offered : t.op = "submit" /\ t.step = s /\ t.hash = record.txHash
    /\ record.receiptStatus # "none" =>
         record.txHash # NoHash /\ mined[record.txHash] = record.receiptStatus
    /\ record.verified # "unset" =>
         /\ record.receiptStatus # "none"
         /\ record.verified = "true"
              <=> record.receiptStatus = "ok" /\ callOf[record.txHash] = s

RecordsOK == \A s \in Steps : RecordOK(s, steps[s])

\* The hash a request is about to write is the one the step has, if it has any.
SameHash ==
    \A r \in Requests :
        pc[r] = "patchHash" => steps[task[r].step].txHash \in {NoHash, task[r].hash}

\* What a request knows of the step it is about.
KnowledgeOK ==
    \A r \in Requests :
        LET record == steps[task[r].step]  asked == local[r] IN
        /\ pc[r] \in {"askChain", "patchReceipt", "patchVerification"} =>
             asked.hash = record.txHash
        /\ pc[r] \in {"patchReceipt", "patchVerification"} =>
             asked.receipt # "none" /\ mined[asked.hash] = asked.receipt
        /\ pc[r] = "patchVerification" => record.receiptStatus = asked.receipt
        /\ pc[r] \in Loading \cup {"rollUp"} /\ asked.after = "patchVerification" =>
             /\ asked.hash = record.txHash
             /\ asked.receipt # "none" /\ mined[asked.hash] = asked.receipt
             /\ record.receiptStatus = asked.receipt

\* `old' is a record of a step at an earlier time, `new' at a later one.
Precedes(old, new) ==
    /\ old.txHash # NoHash => new.txHash = old.txHash
    /\ old.receiptStatus # "none" => new.receiptStatus = old.receiptStatus
    /\ old.verified # "unset" => new.verified = old.verified

ViewsAreOld == \A r \in Requests : \A s \in Steps : Precedes(local[r].view[s], steps[s])

\* The status a request has read is backed by the steps it sees.
ReadingsAreBacked ==
    \A r \in Requests :
        \/ pc[r] \in {"loadEvidenceSteps", "rollUp", "recordOutcome", "respond"}
        \/ task[r].op = "export" /\ pc[r] = "done"
        => Backed(local[r].status, Seen(r))

EvidenceInv == RecordsOK /\ SameHash /\ KnowledgeOK /\ ViewsAreOld /\ ReadingsAreBacked
                 /\ Backed(parent.status, steps)

LEMMA PrecedesOrder ==
    /\ \A x : Precedes(x, x)
    /\ \A x, y, z : Precedes(x, y) /\ Precedes(y, z) => Precedes(x, z)
BY DEF Precedes

\* A status that records back, later records back.
LEMMA BackedStays ==
    ASSUME NEW status, NEW old, NEW new, \A s \in Steps : Precedes(old[s], new[s]),
           Backed(status, old)
    PROVE  Backed(status, new)
BY DEF Backed, Precedes

\* The records a status is derived from back it.
LEMMA DerivedIsBacked ==
    ASSUME NEW view, NEW status, NEW verification, Backed(status, view)
    PROVE  Backed(deriveEvidenceLifecycleStatus(view, status, verification).status, view)
<1>. DEFINE d == deriveEvidenceLifecycleStatus(view, status, verification)
            submitted == {s \in Steps : view[s].txHash # NoHash}
            confirmed == {s \in submitted : view[s].receiptStatus # "none"}
<1>1. \/ d.status = "reverted" /\ \E s \in confirmed : view[s].receiptStatus = "reverted"
      \/ d.status = "verified" /\ \A s \in Steps : view[s].verified = "true"
      \/ d.status = "verification-failed" /\ \E s \in submitted : view[s].verified = "false"
      \/ d.status = "confirmed" /\ confirmed = Steps
      \/ d.status = "partially-confirmed" /\ confirmed # {}
      \/ d.status = "submitted" /\ submitted = Steps
      \/ d.status = "partially-submitted" /\ submitted # {}
      \/ d.status = status
  BY DEF deriveEvidenceLifecycleStatus
<1>2. ASSUME NEW claim, claim = d.status
      PROVE  Backed(claim, view)
  <2>. HIDE DEF d
  <2>1. CASE claim = status
    BY <2>1
  <2>2. CASE claim # status
    BY <1>1, <1>2, <2>2 DEF Backed
  <2>. QED
    BY <2>1, <2>2
<1>. QED
  BY <1>2

\* A request's step is one of the steps, and nothing else is written when it writes.
LEMMA Writes ==
    ASSUME TypeOK, Phases, NEW r \in Requests,
           patchHash(r) \/ patchReceipt(r) \/ patchVerification(r)
    PROVE  /\ task[r].step \in Steps
           /\ \A s \in Steps : s # task[r].step => steps'[s] = steps[s]
           /\ patchHash(r) =>
                steps'[task[r].step] = [steps[task[r].step] EXCEPT !.txHash = task[r].hash]
           /\ patchReceipt(r) =>
                steps'[task[r].step] =
                  [steps[task[r].step] EXCEPT !.receiptStatus = local[r].receipt]
           /\ patchVerification(r) =>
                steps'[task[r].step] =
                  [steps[task[r].step] EXCEPT !.verified =
                     IF Matches(r) THEN "true" ELSE "false"]
<1>1. task[r].step \in Steps
  BY TaskFields DEF Phases, patchHash, patchReceipt, patchVerification
<1>. QED
  BY <1>1 DEF patchHash, patchReceipt, patchVerification, TypeOK

LEMMA NoWrites ==
    ASSUME Next,
           ~\E r \in Requests : patchHash(r) \/ patchReceipt(r) \/ patchVerification(r)
    PROVE  steps' = steps
BY NextCases DEF PrepareNext, Prepare, persistEvidenceIntent,
     prepareBundle, persistPreparedEvidence, returnBundle, PreparationFails, Start, Proceed,
     submitEvidence, verifyEvidence, recordEvidenceOutcome, getEvidence, Accept, Fail,
     ReadFails, WriteFails, ChainFails, Stop, readParent, loadEvidenceSteps,
     rollUpEvidenceStatus, respond, readStep, readHash, askChain, recordOutcome, Mine

\* Hashes, receipts and verdicts stay, once written.
LEMMA RecordsAge ==
    ASSUME FlowInv, RecordsOK, SameHash, KnowledgeOK, Next, NEW s \in Steps
    PROVE  Precedes(steps[s], steps'[s])
<1>. USE DEF FlowInv
<1>1. steps[s] \in StepRecord
  BY DEF TypeOK
<1>2. CASE steps'[s] = steps[s]
  BY <1>2, PrecedesOrder
<1>3. ASSUME NEW r \in Requests, s = task[r].step, patchHash(r)
      PROVE  Precedes(steps[s], steps'[s])
  <2>1. task[r] \in Offered /\ task[r].op = "submit"
    BY <1>3 DEF TypeOK, Phases, patchHash
  <2>2. steps[s].txHash # NoHash => steps[s].txHash = task[r].hash
    BY <1>3 DEF SameHash, patchHash
  <2>3. steps'[s] = [steps[s] EXCEPT !.txHash = task[r].hash]
    BY <1>3, Writes
  <2>. QED
    BY <1>1, <2>2, <2>3 DEF Precedes, StepRecord
<1>4. ASSUME NEW r \in Requests, s = task[r].step, patchReceipt(r)
      PROVE  Precedes(steps[s], steps'[s])
  <2>1. steps[s].receiptStatus # "none" => steps[s].receiptStatus = local[r].receipt
    BY <1>4 DEF RecordsOK, RecordOK, KnowledgeOK, patchReceipt
  <2>2. steps'[s] = [steps[s] EXCEPT !.receiptStatus = local[r].receipt]
    BY <1>4, Writes
  <2>. QED
    BY <1>1, <2>1, <2>2 DEF Precedes, StepRecord
<1>5. ASSUME NEW r \in Requests, s = task[r].step, patchVerification(r)
      PROVE  Precedes(steps[s], steps'[s])
  <2>1. local[r].receipt = steps[s].receiptStatus /\ local[r].hash = steps[s].txHash
    BY <1>5 DEF KnowledgeOK, patchVerification
  <2>2. steps[s].verified # "unset" =>
          steps[s].verified = IF Matches(r) THEN "true" ELSE "false"
    BY <1>1, <1>5, <2>1 DEF RecordsOK, RecordOK, Matches, StepRecord
  <2>3. steps'[s] = [steps[s] EXCEPT !.verified = IF Matches(r) THEN "true" ELSE "false"]
    BY <1>5, Writes
  <2>. QED
    BY <1>1, <2>2, <2>3 DEF Precedes, StepRecord
<1>. QED
  BY <1>2, <1>3, <1>4, <1>5, Writes, NoWrites

\* The chain does not change its mind about a transaction.
LEMMA ChainIsFinal ==
    ASSUME TypeOK, Next, NEW h \in Hashes, mined[h] # "no"
    PROVE  mined'[h] = mined[h]
BY NextCases DEF PrepareNext, Prepare, persistEvidenceIntent,
     prepareBundle, persistPreparedEvidence, returnBundle, PreparationFails, Start, Proceed,
     submitEvidence, verifyEvidence, recordEvidenceOutcome, getEvidence, Accept, Fail,
     ReadFails, WriteFails, ChainFails, Stop, readParent, loadEvidenceSteps,
     rollUpEvidenceStatus, respond, readStep, patchHash, readHash, askChain, patchReceipt,
     patchVerification, recordOutcome, Mine, Environment, TypeOK

LEMMA RecordsOKStep ==
    ASSUME FlowInv, RecordsOK, SameHash, KnowledgeOK, Next
    PROVE  RecordsOK'
<1>. USE DEF FlowInv
<1>. SUFFICES ASSUME NEW s \in Steps PROVE RecordOK(s, steps[s])'
  BY DEF RecordsOK
<1>1. steps[s] \in StepRecord /\ RecordOK(s, steps[s]) /\ callOf' = callOf
  BY TasksStay DEF TypeOK, RecordsOK
<1>2. \A h \in Hashes : mined[h] \in {"no", "ok", "reverted"}
                         /\ (mined[h] # "no" => mined'[h] = mined[h])
  BY ChainIsFinal DEF TypeOK
<1>3. CASE steps'[s] = steps[s]
  BY <1>1, <1>2, <1>3 DEF RecordOK, StepRecord
<1>4. ASSUME NEW r \in Requests, s = task[r].step, patchHash(r)
      PROVE  RecordOK(s, steps[s])'
  <2>1. task[r] \in Offered /\ task[r].op = "submit"
    BY <1>4 DEF TypeOK, Phases, patchHash
  <2>2. steps'[s] = [steps[s] EXCEPT !.txHash = task[r].hash]
    BY <1>4, Writes
  <2>3. steps[s].txHash # NoHash => steps[s].txHash = task[r].hash
    BY <1>4 DEF SameHash, patchHash
  <2>. QED
    BY <1>1, <1>2, <1>4, <2>1, <2>2, <2>3 DEF RecordOK, StepRecord
<1>5. ASSUME NEW r \in Requests, s = task[r].step, patchReceipt(r)
      PROVE  RecordOK(s, steps[s])'
  <2>1. /\ local[r].hash = steps[s].txHash /\ local[r].receipt # "none"
        /\ mined[local[r].hash] = local[r].receipt
        /\ steps[s].txHash # NoHash
    BY <1>5 DEF KnowledgeOK, HashBeforeRollUp, patchReceipt
  <2>2. steps'[s] = [steps[s] EXCEPT !.receiptStatus = local[r].receipt] /\ mined' = mined
    BY <1>5, Writes DEF patchReceipt, Environment
  <2>. QED
    BY <1>1, <2>1, <2>2 DEF RecordOK, StepRecord
<1>6. ASSUME NEW r \in Requests, s = task[r].step, patchVerification(r)
      PROVE  RecordOK(s, steps[s])'
  <2>1. /\ local[r].hash = steps[s].txHash /\ local[r].receipt # "none"
        /\ local[r].receipt = steps[s].receiptStatus
    BY <1>6 DEF KnowledgeOK, patchVerification
  <2>2. /\ steps'[s] = [steps[s] EXCEPT !.verified = IF Matches(r) THEN "true" ELSE "false"]
        /\ mined' = mined
    BY <1>6, Writes DEF patchVerification, Environment
  <2>3. Matches(r) <=> steps[s].receiptStatus = "ok" /\ callOf[steps[s].txHash] = s
    BY <1>6, <2>1 DEF Matches
  <2>. QED
    BY <1>1, <2>1, <2>2, <2>3 DEF RecordOK, StepRecord
<1>. QED
  BY <1>3, <1>4, <1>5, <1>6, Writes, NoWrites

LEMMA SameHashStep ==
    ASSUME Steady', FlowInv, RecordsOK, SameHash, KnowledgeOK, Next
    PROVE  SameHash'
<1>. USE DEF FlowInv
<1>. SUFFICES ASSUME NEW r \in Requests, pc'[r] = "patchHash"
              PROVE  steps'[task[r].step].txHash \in {NoHash, task[r].hash}
  BY TasksStay DEF SameHash
<1>1. /\ task[r].step \in Steps /\ task[r] \in Offered /\ task[r].op = "submit"
      /\ task' = task
  BY PhasesStep, TasksStay, TaskFields DEF Phases, TypeOK
<1>2. ASSUME steps' = steps, pc'[r] = pc[r]
      PROVE  steps'[task[r].step].txHash \in {NoHash, task[r].hash}
  BY <1>2 DEF SameHash
<1>3. CASE \E q \in Requests : q # r /\ (Start(q) \/ Proceed(q))
  <2>1. PICK q \in Requests : q # r /\ (Start(q) \/ Proceed(q))
    BY <1>3
  <2>2. pc'[r] = pc[r]
    BY <2>1, OthersWait
  <2>3. CASE OneTransactionPerStep
    <3>1. \/ steps'[task[r].step].txHash = NoHash
          \/ \E t \in Offered : /\ t.op = "submit" /\ t.step = task[r].step
                               /\ t.hash = steps'[task[r].step].txHash
      BY <1>1, RecordsOKStep DEF RecordsOK, RecordOK
    <3>. QED
      BY <1>1, <2>3, <3>1 DEF OneTransactionPerStep
  <2>4. CASE ~overlapped'
    <3>1. r \notin InFlight'
      BY <2>1, <2>4, OneAtATime
    <3>. QED
      BY <3>1 DEF InFlight, Answers
  <2>. QED
    BY <2>3, <2>4 DEF Steady
<1>4. CASE readStep(r)
  <2>1. /\ steps' = steps
        /\ pc'[r] = IF steps[task[r].step].txHash \in {NoHash, task[r].hash}
                     THEN "patchHash" ELSE "internal"
    BY <1>4 DEF readStep, Goto, TypeOK
  <2>. QED
    BY <2>1
<1>5. CASE Start(r) \/ (Proceed(r) /\ ~readStep(r))
  <2>1. pc'[r] # "patchHash"
    BY <1>5 DEF Start, submitEvidence, verifyEvidence, recordEvidenceOutcome, getEvidence,
       Proceed, Fail, ReadFails, WriteFails, ChainFails, Stop, readParent, Load, Goto,
       loadEvidenceSteps, rollUpEvidenceStatus, respond, patchHash, readHash,
       askChain, patchReceipt, patchVerification, recordOutcome, TypeOK, Phases, RollUps
  <2>. QED
    BY <2>1
<1>6. CASE PrepareNext \/ \E h \in Hashes : Mine(h)
  BY <1>2, <1>6 DEF PrepareNext, Prepare, persistEvidenceIntent, prepareBundle,
       persistPreparedEvidence, returnBundle, PreparationFails, Mine
<1>. QED
  BY NextCases, <1>3, <1>4, <1>5, <1>6

LEMMA ViewsAreOldStep ==
    ASSUME FlowInv, RecordsOK, SameHash, KnowledgeOK, ViewsAreOld, Next
    PROVE  ViewsAreOld'
<1>. USE DEF FlowInv
<1>. SUFFICES ASSUME NEW r \in Requests, NEW s \in Steps
              PROVE  Precedes(local'[r].view[s], steps'[s])
  BY DEF ViewsAreOld
<1>1. Precedes(local[r].view[s], steps'[s]) /\ Precedes(steps[s], steps'[s])
  BY RecordsAge, PrecedesOrder DEF ViewsAreOld
<1>2. local'[r].view[s] = local[r].view[s] \/ local'[r].view[s] = steps[s]
  <2>. USE DEF TypeOK
  <2>1. CASE UNCHANGED local
    BY <2>1
  <2>2. CASE Start(r)
    BY <2>2 DEF Start, submitEvidence, verifyEvidence, recordEvidenceOutcome, getEvidence, Load
  <2>3. CASE loadEvidenceSteps(r)
    BY <2>3 DEF loadEvidenceSteps
  <2>4. CASE patchHash(r) \/ patchReceipt(r) \/ patchVerification(r)
    BY <2>4 DEF patchHash, patchReceipt, patchVerification, Load
  <2>6. CASE readParent(r)
    BY <2>6 DEF readParent
  <2>7. CASE readHash(r)
    BY <2>7 DEF readHash
  <2>8. CASE askChain(r)
    BY <2>8 DEF askChain
  <2>5. CASE \E q \in Requests : q # r /\ (Start(q) \/ Proceed(q))
    BY <2>5, OthersWait
  <2>. QED
    BY NextCases, <2>1, <2>2, <2>3, <2>4, <2>5, <2>6, <2>7, <2>8 DEF PrepareNext, Prepare,
       persistEvidenceIntent, prepareBundle, persistPreparedEvidence, returnBundle,
       PreparationFails, Proceed, Fail, ReadFails, WriteFails, ChainFails, Stop,
       rollUpEvidenceStatus, respond, readStep, recordOutcome, Mine
<1>. QED
  BY <1>1, <1>2

LEMMA KnowledgeOKStep ==
    ASSUME FlowInv, RecordsOK, SameHash, KnowledgeOK, Next
    PROVE  KnowledgeOK'
<1>. USE DEF FlowInv
<1>. DEFINE Record(q) == steps[task[q].step]
            Asks(q) == pc[q] \in {"askChain", "patchReceipt", "patchVerification"}
            Told(q) == pc[q] \in {"patchReceipt", "patchVerification"}
            Notes(q) == pc[q] \in Loading \cup {"rollUp"} /\ local[q].after = "patchVerification"
            Answered(q) == local[q].receipt # "none" /\ mined[local[q].hash] = local[q].receipt
            Known(q) ==
              /\ Asks(q) => local[q].hash = Record(q).txHash
              /\ Told(q) => Answered(q)
              /\ pc[q] = "patchVerification" => Record(q).receiptStatus = local[q].receipt
              /\ Notes(q) => /\ local[q].hash = Record(q).txHash
                             /\ Answered(q)
                             /\ Record(q).receiptStatus = local[q].receipt
<1>1. task' = task
  BY TasksStay
<1>2. ASSUME NEW q \in Requests, Known(q), pc'[q] = pc[q], local'[q] = local[q]
      PROVE  Known(q)'
  <2>1. Asks(q) \/ Notes(q) => task[q].step \in Steps /\ Record(q).txHash # NoHash
    BY TaskFields DEF HashBeforeRollUp, RollUps, Phases, Loading
  <2>2. task[q].step \in Steps =>
          /\ Precedes(Record(q), Record(q)')
          /\ Record(q).txHash \in Hashes \cup {NoHash}
    BY <1>1, RecordsAge DEF TypeOK, StepRecord
  <2>3. \A h \in Hashes : mined[h] # "no" => mined'[h] = mined[h]
    BY ChainIsFinal
  <2>4. local[q].receipt # "no"
    BY DEF TypeOK
  <2>5. Told(q) => Asks(q)
    OBVIOUS
  <2>6. (Asks(q) \/ Notes(q)) /\ Answered(q) => Answered(q)'
    BY <1>2, <2>1, <2>2, <2>3, <2>4
  <2>. QED
    BY <1>2, <2>1, <2>2, <2>5, <2>6 DEF Precedes
<1>3. \A q \in Requests : Known(q)
  BY DEF KnowledgeOK
<1>4. ASSUME NEW r \in Requests, Start(r) \/ Proceed(r)
      PROVE  Known(r)'
  <2>. USE <1>4 DEF Loading, Goto, TypeOK
  <2>1. CASE Start(r)
    BY <2>1 DEF Start, submitEvidence, verifyEvidence, recordEvidenceOutcome, getEvidence, Load
  <2>2. CASE Fail(r) \/ respond(r) \/ readStep(r) \/ recordOutcome(r)
    BY <2>2 DEF Fail, ReadFails, WriteFails, ChainFails, Stop, respond, readStep, recordOutcome
  <2>3. CASE patchHash(r) \/ patchVerification(r)
    BY <2>3 DEF patchHash, patchVerification, Load
  <2>4. CASE readHash(r)
    BY <1>1, <2>4 DEF readHash
  <2>5. CASE askChain(r)
    BY <1>1, <1>3, <2>5 DEF askChain, Environment, Phases
  <2>6. CASE patchReceipt(r)
    <3>1. /\ task[r].step \in Steps
          /\ Record(r)' = [Record(r) EXCEPT !.receiptStatus = local[r].receipt]
      BY <1>1, <2>6, Writes
    <3>2. pc'[r] = "readParent" /\ mined' = mined
      BY <2>6 DEF patchReceipt, Load, Environment
    <3>3. local'[r].hash = local[r].hash /\ local'[r].receipt = local[r].receipt
      BY <2>6 DEF patchReceipt, Load
    <3>4. /\ Record(r)'.txHash = Record(r).txHash
          /\ Record(r)'.receiptStatus = local[r].receipt
      BY <3>1 DEF StepRecord
    <3>5. local[r].hash = Record(r).txHash /\ Answered(r)
      BY <1>3, <2>6 DEF patchReceipt
    <3>. HIDE DEF TypeOK
    <3>. QED
      BY <3>2, <3>3, <3>4, <3>5
  <2>7. CASE readParent(r) \/ loadEvidenceSteps(r)
    <3>1. /\ local'[r].hash = local[r].hash /\ local'[r].receipt = local[r].receipt
          /\ local'[r].after = local[r].after
      BY <2>7 DEF readParent, loadEvidenceSteps
    <3>2. steps' = steps /\ mined' = mined
      BY <2>7 DEF readParent, loadEvidenceSteps, Environment
    <3>3. pc[r] \in Loading /\ pc'[r] \in {"loadEvidenceSteps", "recordOutcome", "respond", "rollUp"}
      BY <2>7 DEF readParent, loadEvidenceSteps
    <3>. QED
      BY <1>1, <1>3, <3>1, <3>2, <3>3
  <2>8. CASE rollUpEvidenceStatus(r)
    <3>1. /\ UNCHANGED <<local, steps, mined, task>> /\ pc[r] = "rollUp"
          /\ pc'[r] = local[r].after /\ pc'[r] \in RollUps
      BY <2>8 DEF rollUpEvidenceStatus, Environment, given, Phases
    <3>. QED
      BY <1>3, <3>1 DEF RollUps
  <2>. QED
    BY <2>1, <2>2, <2>3, <2>4, <2>5, <2>6, <2>7, <2>8 DEF Proceed
<1>5. \A q \in Requests : Known(q)'
  <2>. SUFFICES ASSUME NEW q \in Requests PROVE Known(q)'
    OBVIOUS
  <2>1. CASE \E r \in Requests : Start(r) \/ Proceed(r)
    <3>. PICK r \in Requests : Start(r) \/ Proceed(r)
      BY <2>1
    <3>1. CASE q = r
      BY <1>4, <3>1
    <3>2. CASE q # r
      BY <1>2, <1>3, <3>2, OthersWait
    <3>. QED
      BY <3>1, <3>2
  <2>2. CASE UNCHANGED <<pc, local>>
    BY <1>2, <1>3, <2>2
  <2>. QED
    BY NextCases, <2>1, <2>2 DEF PrepareNext, Prepare, persistEvidenceIntent, prepareBundle,
       persistPreparedEvidence, returnBundle, PreparationFails, Mine
<1>. QED
  BY <1>5 DEF KnowledgeOK

\* What a request sees grows with the records.
LEMMA SeenAges ==
    ASSUME FlowInv, RecordsOK, SameHash, KnowledgeOK, Next,
           NEW q \in Requests, pc'[q] = pc[q], local'[q] = local[q], NEW s \in Steps
    PROVE  Precedes(Seen(q)[s], Seen(q)'[s])
BY RecordsAge, PrecedesOrder DEF Seen

LEMMA ParentIsBackedStep ==
    ASSUME FlowInv, EvidenceInv, Next
    PROVE  Backed(parent'.status, steps')
<1>. USE DEF FlowInv, EvidenceInv
<1>1. \A s \in Steps : Precedes(steps[s], steps'[s])
  BY RecordsAge
<1>2. CASE parent' = parent
  BY <1>1, <1>2, BackedStays
<1>3. CASE PrepareNext
  <2>1. parent' = parent \/ parent'.status \in {"intent-recorded", "prepared"}
    BY <1>3 DEF PrepareNext, Prepare, persistEvidenceIntent, prepareBundle,
         persistPreparedEvidence, returnBundle, PreparationFails, TypeOK
  <2>. QED
    BY <1>2, <2>1 DEF Backed
<1>4. ASSUME NEW r \in Requests, \A s \in Steps : Seen(r)[s] = local[r].view[s]
      PROVE  \A s \in Steps : Precedes(Seen(r)[s], steps'[s])
  BY <1>1, <1>4, PrecedesOrder DEF ViewsAreOld
<1>5. ASSUME NEW r \in Requests, rollUpEvidenceStatus(r)
      PROVE  Backed(parent'.status, steps')
  <2>1. Seen(r) = [s \in Steps |-> local[r].view[s]] /\ local[r].view \in [Steps -> StepRecord]
    BY <1>5 DEF Seen, Loading, rollUpEvidenceStatus, TypeOK
  <2>2. Seen(r) = local[r].view
    BY <2>1
  <2>3. parent' = parent \/ Backed(parent'.status, Seen(r))
    BY <1>5, <2>2, DerivedIsBacked DEF ReadingsAreBacked, rollUpEvidenceStatus, PatchParent
  <2>. QED
    BY <1>2, <1>4, <2>2, <2>3, BackedStays
<1>6. ASSUME NEW r \in Requests, recordOutcome(r)
      PROVE  Backed(parent'.status, steps')
  <2>1. CASE parent' = parent
    BY <1>2, <2>1
  <2>2. CASE parent' # parent
    <3>1. parent'.status = task[r].outcome /\ OutcomeAllowed(task[r].outcome, local[r].view)
      BY <1>6, <2>2 DEF recordOutcome, PatchParent
    <3>2. CASE task[r].outcome = "cancelled-before-submission"
      BY <3>1, <3>2 DEF Backed
    <3>3. CASE task[r].outcome = "partially-executed"
      <4>1. Backed(parent'.status, local[r].view)
        BY <3>1, <3>3 DEF OutcomeAllowed, Backed
      <4>2. \A s \in Steps : Precedes(local[r].view[s], steps'[s])
        BY <1>1, PrecedesOrder DEF ViewsAreOld
      <4>. QED
        BY <4>1, <4>2, BackedStays
    <3>. QED
      BY <3>1, <3>2, <3>3 DEF OutcomeAllowed
  <2>. QED
    BY <2>1, <2>2
<1>. QED
  BY <1>2, <1>3, <1>5, <1>6, ParentWrites

LEMMA ReadingsAreBackedStep ==
    ASSUME FlowInv, EvidenceInv, Next
    PROVE  ReadingsAreBacked'
<1>. USE DEF FlowInv, EvidenceInv
<1>. DEFINE Informed(r) == \/ pc[r] \in {"loadEvidenceSteps", "rollUp", "recordOutcome", "respond"}
                           \/ task[r].op = "export" /\ pc[r] = "done"
<1>1. task' = task
  BY TasksStay
<1>2. ASSUME NEW q \in Requests, Informed(q), pc'[q] = pc[q], local'[q] = local[q]
      PROVE  Backed(local[q].status, Seen(q))'
  <2>1. \A s \in Steps : Precedes(Seen(q)[s], Seen(q)'[s])
    BY <1>2, SeenAges
  <2>. QED
    BY <1>2, <2>1, BackedStays DEF ReadingsAreBacked
<1>3. ASSUME NEW r \in Requests, Start(r) \/ Proceed(r), Informed(r)'
      PROVE  Backed(local[r].status, Seen(r))'
  <2>. USE <1>3 DEF Goto, TypeOK
  <2>1. CASE Start(r)
    BY <1>1, <2>1 DEF Start, submitEvidence, verifyEvidence, recordEvidenceOutcome,
                      getEvidence, Load
  <2>2. CASE readParent(r)
    <3>1. local'[r].status = parent.status /\ pc[r] = "readParent"
      BY <2>2 DEF readParent
    <3>2. Seen(r)' = Seen(r)
      BY <2>2, SeenByReading
    <3>3. \A s \in Steps : Seen(r)[s] = steps[s]
      BY <3>1 DEF Seen, Loading
    <3>4. Backed(parent.status, Seen(r))
      BY <3>3, BackedStays, PrecedesOrder
    <3>. QED
      BY <3>1, <3>2, <3>4
  <2>3. CASE loadEvidenceSteps(r)
    <3>1. local'[r].status = local[r].status /\ pc[r] = "loadEvidenceSteps"
      BY <2>3 DEF loadEvidenceSteps
    <3>. QED
      BY <2>3, <3>1, SeenByReading DEF ReadingsAreBacked
  <2>4. CASE respond(r)
    <3>1. /\ local' = local /\ pc[r] = "respond" /\ pc'[r] = "done"
      BY <2>4 DEF respond
    <3>2. Seen(r)' = Seen(r)
      BY <3>1 DEF Seen, Loading
    <3>. QED
      BY <3>1, <3>2 DEF ReadingsAreBacked
  <2>5. CASE rollUpEvidenceStatus(r)
    BY <1>1, <2>5 DEF rollUpEvidenceStatus, Phases, RollUps
  <2>6. CASE Fail(r) \/ readStep(r) \/ recordOutcome(r)
    BY <1>1, <2>6 DEF Fail, ReadFails, WriteFails, ChainFails, Stop, readStep, recordOutcome,
                      Phases
  <2>7. CASE patchHash(r) \/ patchReceipt(r) \/ patchVerification(r)
    BY <2>7 DEF patchHash, patchReceipt, patchVerification, Load
  <2>8. CASE readHash(r) \/ askChain(r)
    BY <2>8 DEF readHash, askChain
  <2>. QED
    BY <2>1, <2>2, <2>3, <2>4, <2>5, <2>6, <2>7, <2>8 DEF Proceed
<1>4. ASSUME NEW q \in Requests, Informed(q)'
      PROVE  Backed(local[q].status, Seen(q))'
  <2>1. CASE \E r \in Requests : Start(r) \/ Proceed(r)
    <3>. PICK r \in Requests : Start(r) \/ Proceed(r)
      BY <2>1
    <3>1. CASE q = r
      BY <1>3, <1>4, <3>1
    <3>2. CASE q # r
      BY <1>1, <1>2, <1>4, <3>2, OthersWait
    <3>. QED
      BY <3>1, <3>2
  <2>2. CASE UNCHANGED <<pc, local>>
    BY <1>1, <1>2, <1>4, <2>2
  <2>. QED
    BY NextCases, <2>1, <2>2 DEF PrepareNext, Prepare, persistEvidenceIntent, prepareBundle,
       persistPreparedEvidence, returnBundle, PreparationFails, Mine
<1>. QED
  BY <1>4 DEF ReadingsAreBacked

LEMMA InitEvidence == Init => EvidenceInv
<1>. SUFFICES ASSUME Init PROVE EvidenceInv
  OBVIOUS
<1>1. RecordsOK /\ SameHash /\ ViewsAreOld
  BY DEF Init, RecordsOK, RecordOK, SameHash, ViewsAreOld, Precedes, Blank, Idle
<1>2. KnowledgeOK /\ ReadingsAreBacked
  BY DEF Init, KnowledgeOK, ReadingsAreBacked, Loading
<1>3. Backed(parent.status, steps)
  BY DEF Init, Backed
<1>. QED
  BY <1>1, <1>2, <1>3 DEF EvidenceInv

\* Two requests that have overlapped have done so for good.
LEMMA StaysSteady ==
    ASSUME Next
    PROVE  /\ overlapped => overlapped'
           /\ Steady' => Steady
<1>1. CASE \E r \in Requests : Start(r)
  <2>1. overlapped' = (overlapped \/ InFlight # {})
    BY <1>1 DEF Start, submitEvidence, verifyEvidence, recordEvidenceOutcome, getEvidence, Accept
  <2>. QED
    BY <2>1, Zenon DEF Steady
<1>2. CASE ~\E r \in Requests : Start(r)
  <2>1. overlapped' = overlapped
    BY <1>2, NextCases DEF PrepareNext, Prepare, persistEvidenceIntent, prepareBundle,
       persistPreparedEvidence, returnBundle, PreparationFails, Proceed, Fail, ReadFails,
       WriteFails, ChainFails, Stop, readParent, loadEvidenceSteps, rollUpEvidenceStatus,
       respond, readStep, patchHash, readHash, askChain, patchReceipt, patchVerification,
       recordOutcome, Mine
  <2>. QED
    BY <2>1 DEF Steady
<1>. QED
  BY <1>1, <1>2

LEMMA EvidenceAlways == Spec => [](Steady => EvidenceInv)
<1>1. ASSUME FlowInv, Steady => EvidenceInv, Next
      PROVE  Steady' => EvidenceInv'
  <2>. SUFFICES ASSUME Steady' PROVE EvidenceInv'
    OBVIOUS
  <2>1. EvidenceInv
    BY <1>1, StaysSteady
  <2>2. RecordsOK' /\ SameHash' /\ KnowledgeOK' /\ ViewsAreOld'
    BY <1>1, <2>1, RecordsOKStep, SameHashStep, KnowledgeOKStep, ViewsAreOldStep
    DEF EvidenceInv
  <2>3. ReadingsAreBacked' /\ Backed(parent.status, steps)'
    BY <1>1, <2>1, ReadingsAreBackedStep, ParentIsBackedStep
  <2>. QED
    BY <2>2, <2>3 DEF EvidenceInv
<1>2. ASSUME EvidenceInv, UNCHANGED vars
      PROVE  EvidenceInv'
  BY <1>2 DEF vars, given, EvidenceInv, RecordsOK, RecordOK, SameHash, KnowledgeOK,
     ViewsAreOld, ReadingsAreBacked, Seen, Backed
<1>3. UNCHANGED vars => (Steady' <=> Steady)
  BY DEF vars, given, Steady
<1>4. FlowInv /\ (Steady => EvidenceInv) /\ [Next]_vars => (Steady => EvidenceInv)'
  BY <1>1, <1>2, <1>3
<1>. QED
  BY <1>4, InitEvidence, FlowAlways, PTL DEF Spec

\* With one transaction per step, or as long as no two requests overlap, the parent
\* never claims more than the step records hold, whatever breaks off and fails; and a
\* step counts as verified only with a transaction that succeeded and makes the
\* prepared call.
THEOREM StatusIsBackedHolds == Spec => [](Steady => StatusIsBacked)
<1>1. FlowInv /\ EvidenceInv => StatusIsBacked
  BY DEF FlowInv, TypeOK, StepRecord, EvidenceInv, RecordsOK, RecordOK, StatusIsBacked
<1>. QED
  BY <1>1, FlowAlways, EvidenceAlways, PTL

\* With one transaction per step, or as long as no two requests overlap, no export
\* contradicts itself.
THEOREM ExportIsBackedHolds == Spec => [](Steady => ExportIsBacked)
<1>1. ASSUME FlowInv, EvidenceInv, NEW r \in Requests, task[r].op = "export", pc[r] = "done"
      PROVE  Backed(local[r].status, local[r].view)
  <2>1. Backed(local[r].status, Seen(r))
    BY <1>1 DEF EvidenceInv, ReadingsAreBacked
  <2>2. \A s \in Steps : Seen(r)[s] = local[r].view[s]
    BY <1>1 DEF Seen, Loading
  <2>. QED
    BY <2>1, <2>2 DEF Backed
<1>2. FlowInv /\ EvidenceInv => ExportIsBacked
  BY <1>1 DEF ExportIsBacked
<1>. QED
  BY <1>2, FlowAlways, EvidenceAlways, PTL

\* As long as no two requests have overlapped, whatever the wallet broadcasts and
\* submits, a step keeps the hash it was given: the comparison in readStep protects it
\* from every later request, and only from a simultaneous one (run EvidenceRace) not.
THEOREM ImmutableUnlessOverlapped ==
    Spec => [][~overlapped' =>
                 \A s \in Steps : steps[s].txHash # NoHash
                                   => steps'[s].txHash = steps[s].txHash]_vars
<1>1. FlowInv /\ (Steady => EvidenceInv) /\ [Next]_vars =>
        [~overlapped' => \A s \in Steps : steps[s].txHash # NoHash
                                           => steps'[s].txHash = steps[s].txHash]_vars
  <2>1. ASSUME FlowInv, Steady => EvidenceInv, Next, ~overlapped',
               NEW s \in Steps, steps[s].txHash # NoHash
        PROVE  steps'[s].txHash = steps[s].txHash
    <3>1. EvidenceInv
      BY <2>1, StaysSteady DEF Steady
    <3>. QED
      BY <2>1, <3>1, RecordsAge DEF EvidenceInv, Precedes
  <2>. QED
    BY <2>1
<1>. QED
  BY <1>1, FlowAlways, EvidenceAlways, PTL DEF Spec

-----------------------------------------------------------------------------
(* Requests that come one at a time                                        *)

\* Deriving the parent's status from the records changes nothing.
Current == parent = deriveEvidenceLifecycleStatus(steps, parent.status, parent.verification)

VerdictsHaveHash == \A s \in Steps : steps[s].verified # "unset" => HasHash(steps[s])

\* How far a status derived from the records has come.  While records are only added
\* to, it never goes back.
Rank(status) ==
    CASE status = "partially-submitted" -> 1
      [] status = "submitted"           -> 2
      [] status = "partially-confirmed" -> 3
      [] status = "confirmed"           -> 4
      [] status = "verified"            -> 5
      [] status = "verification-failed" -> 6
      [] status = "reverted"            -> 7
      [] OTHER                          -> 0

\* What the records say, whatever the parent said before.
Grade(records) == deriveEvidenceLifecycleStatus(records, "prepared", "null")

\* As long as no two requests overlap, the keys of roll-ups name statuses the records
\* had reached, and if they name the present one, the parent has it: a write that the
\* gateway ignores would have changed nothing, or only what the wallet has reported.
Written ==
    ~overlapped =>
        /\ \A status : <<"rollup", status>> \in keys =>
             Rank(status) <= Rank(Grade(steps).status)
        /\ /\ Rank(Grade(steps).status) > 0
           /\ <<"rollup", Grade(steps).status>> \in keys
           => parent = Grade(steps) \/ parent.status = "partially-executed"

\* As long as no two requests overlap, a request sees the records as they are, and the
\* parent is current unless the request is about to update it or the wallet has
\* reported an outcome.
SerialInv ==
    ~overlapped =>
        /\ \A r \in Requests :
             /\ pc[r] \in Loading \cup {"rollUp", "recordOutcome", "respond"} =>
                  \A s \in Steps : Seen(r)[s] = steps[s]
             /\ pc[r] \in {"loadEvidenceSteps", "rollUp", "recordOutcome", "respond"} =>
                  local[r].status = parent.status /\ local[r].verification = parent.verification
        /\ ~broken /\ preparation = "returned" =>
             \/ Current \/ parent.status = "partially-executed"
             \/ \E r \in Requests : Rolls(r)

\* Deriving a derived status from the same records changes nothing.
LEMMA DerivingIsIdempotent ==
    ASSUME NEW view, NEW status \in Statuses, NEW verification \in Verifications,
           NEW d, d = deriveEvidenceLifecycleStatus(view, status, verification)
    PROVE  deriveEvidenceLifecycleStatus(view, d.status, d.verification) = d
BY DEF deriveEvidenceLifecycleStatus, Statuses, Verifications

\* Without any hash the status stays what it is.
LEMMA NothingToDerive ==
    ASSUME NEW view, NEW status, NEW verification, \A s \in Steps : ~HasHash(view[s]),
           \A s \in Steps : view[s].verified = "true" => HasHash(view[s])
    PROVE  deriveEvidenceLifecycleStatus(view, status, verification)
             = [status |-> status, verification |-> verification]
BY StepNumbers DEF deriveEvidenceLifecycleStatus, HasHash

\* Only what the records hold matters for the status.
LEMMA DerivedFromRecords ==
    ASSUME NEW view, NEW records, \A s \in Steps : view[s] = records[s],
           NEW status, NEW verification
    PROVE  deriveEvidenceLifecycleStatus(view, status, verification)
             = deriveEvidenceLifecycleStatus(records, status, verification)
<1>. DEFINE Submitted(v) == {s \in Steps : v[s].txHash # NoHash}
            Confirmed(v) == {s \in Submitted(v) : v[s].receiptStatus # "none"}
<1>1. Submitted(view) = Submitted(records) /\ Confirmed(view) = Confirmed(records)
  OBVIOUS
<1>2. /\ (\E s \in Confirmed(view) : view[s].receiptStatus = "reverted")
           <=> \E s \in Confirmed(records) : records[s].receiptStatus = "reverted"
      /\ (\A s \in Steps : view[s].verified = "true")
           <=> \A s \in Steps : records[s].verified = "true"
      /\ (\E s \in Submitted(view) : view[s].verified = "false")
           <=> \E s \in Submitted(records) : records[s].verified = "false"
  OBVIOUS
<1>. HIDE DEF Submitted, Confirmed
<1>. QED
  BY <1>1, <1>2 DEF deriveEvidenceLifecycleStatus, Submitted, Confirmed

\* What is derived from records with a hash is their grade, unless the wallet has
\* reported a partial execution.
LEMMA DerivedIsGrade ==
    ASSUME NEW view, NEW status, NEW verification, \E s \in Steps : HasHash(view[s]),
           NEW d, d = deriveEvidenceLifecycleStatus(view, status, verification)
    PROVE  \/ d = Grade(view)
           \/ d.status = "partially-executed" /\ status = "partially-executed"
BY DEF deriveEvidenceLifecycleStatus, Grade, HasHash

\* The grade, spelled out.
Cases(view, g) ==
    LET submitted == {s \in Steps : view[s].txHash # NoHash}
        confirmed == {s \in submitted : view[s].receiptStatus # "none"}
        reverted == \E s \in confirmed : view[s].receiptStatus = "reverted"
        verified == \A s \in Steps : view[s].verified = "true"
        failed == \E s \in submitted : view[s].verified = "false"
        Is(name, result) == g = [status |-> name, verification |-> result]
    IN  \/ reverted /\ Is("reverted", "failed")
        \/ ~reverted /\ verified /\ Is("verified", "verified")
        \/ /\ ~reverted /\ ~verified
           /\ \/ failed /\ Is("verification-failed", "failed")
              \/ ~failed /\ confirmed = Steps /\ Is("confirmed", "pending")
              \/ ~failed /\ confirmed \notin {{}, Steps} /\ Is("partially-confirmed", "pending")
              \/ ~failed /\ confirmed = {} /\ submitted = Steps /\ Is("submitted", "pending")
              \/ /\ ~failed /\ confirmed = {} /\ submitted \notin {{}, Steps}
                 /\ Is("partially-submitted", "pending")
              \/ ~failed /\ submitted = {} /\ Is("prepared", "null")

LEMMA GradeCases == \A view : Cases(view, Grade(view))
BY StepNumbers DEF Grade, Cases, deriveEvidenceLifecycleStatus

\* The grade does not go back, and grades of one rank are the same.
LEMMA GradeGrows ==
    ASSUME NEW old, NEW new, \A s \in Steps : Precedes(old[s], new[s])
    PROVE  /\ Rank(Grade(old).status) <= Rank(Grade(new).status)
           /\ Rank(Grade(old).status) = Rank(Grade(new).status) => Grade(old) = Grade(new)
<1>. DEFINE Submitted(v) == {s \in Steps : v[s].txHash # NoHash}
            Confirmed(v) == {s \in Submitted(v) : v[s].receiptStatus # "none"}
            Reverted(v) == \E s \in Confirmed(v) : v[s].receiptStatus = "reverted"
            Verified(v) == \A s \in Steps : v[s].verified = "true"
            Failed(v) == \E s \in Submitted(v) : v[s].verified = "false"
<1>1. /\ Submitted(old) \subseteq Submitted(new) /\ Submitted(new) \subseteq Steps
      /\ Confirmed(old) \subseteq Confirmed(new) /\ Confirmed(new) \subseteq Submitted(new)
      /\ Confirmed(old) \subseteq Submitted(old)
  BY DEF Precedes
<1>2. Reverted(old) => Reverted(new)
  BY <1>1 DEF Precedes
<1>3. Verified(old) => Verified(new)
  BY DEF Precedes
<1>4. Failed(old) => Failed(new) /\ ~Verified(new)
  BY <1>1 DEF Precedes
<1>5. /\ Rank("prepared") = 0 /\ Rank("partially-submitted") = 1 /\ Rank("submitted") = 2
      /\ Rank("partially-confirmed") = 3 /\ Rank("confirmed") = 4 /\ Rank("verified") = 5
      /\ Rank("verification-failed") = 6 /\ Rank("reverted") = 7
  BY DEF Rank
<1>. DEFINE G == Grade(old)
            H == Grade(new)
            Is(g, name, result) == g = [status |-> name, verification |-> result]
            Graded(v, g) ==
              \/ Reverted(v) /\ Is(g, "reverted", "failed")
              \/ ~Reverted(v) /\ Verified(v) /\ Is(g, "verified", "verified")
              \/ /\ ~Reverted(v) /\ ~Verified(v)
                 /\ \/ Failed(v) /\ Is(g, "verification-failed", "failed")
                    \/ /\ ~Failed(v)
                       /\ \/ Confirmed(v) = Steps /\ Is(g, "confirmed", "pending")
                          \/ /\ Confirmed(v) \notin {{}, Steps}
                             /\ Is(g, "partially-confirmed", "pending")
                          \/ /\ Confirmed(v) = {} /\ Submitted(v) = Steps
                             /\ Is(g, "submitted", "pending")
                          \/ /\ Confirmed(v) = {} /\ Submitted(v) \notin {{}, Steps}
                             /\ Is(g, "partially-submitted", "pending")
                          \/ Submitted(v) = {} /\ Is(g, "prepared", "null")
<1>6. Graded(old, G) /\ Graded(new, H)
  BY GradeCases DEF Cases
<1>7. Steps # {}
  BY StepNumbers
<1>. HIDE DEF G, H, Submitted, Confirmed, Reverted, Verified, Failed
<1>8. ASSUME NEW v, NEW g, Graded(v, g), Confirmed(v) \subseteq Submitted(v)
      PROVE  /\ Rank(g.status) \in 0 .. 7
             /\ Rank(g.status) = 7 <=> Reverted(v)
             /\ Rank(g.status) >= 5 <=> Reverted(v) \/ Verified(v) \/ Failed(v)
             /\ Rank(g.status) = 5 <=> ~Reverted(v) /\ Verified(v)
             /\ Rank(g.status) < 5 =>
                  /\ Rank(g.status) = 4 <=> Confirmed(v) = Steps
                  /\ Rank(g.status) >= 3 <=> Confirmed(v) # {}
                  /\ Rank(g.status) = 2 <=> Confirmed(v) = {} /\ Submitted(v) = Steps
                  /\ Rank(g.status) = 0 <=> Submitted(v) = {}
  <2>1. CASE Reverted(v) \/ Verified(v) \/ Failed(v)
    BY <1>5, <1>8, <2>1
  <2>2. CASE ~Reverted(v) /\ ~Verified(v) /\ ~Failed(v)
    BY <1>5, <1>7, <1>8, <2>2
  <2>. QED
    BY <2>1, <2>2
<1>9. Rank(G.status) <= Rank(H.status)
  BY <1>1, <1>2, <1>3, <1>4, <1>6, <1>7, <1>8
<1>10. ASSUME Rank(G.status) = Rank(H.status)
       PROVE  G = H
  BY <1>5, <1>6, <1>10
<1>. QED
  BY <1>9, <1>10 DEF G, H

LEMMA VerdictsHaveHashStep ==
    ASSUME FlowInv, VerdictsHaveHash, Next
    PROVE  VerdictsHaveHash'
<1>. USE DEF FlowInv
<1>. SUFFICES ASSUME NEW s \in Steps, steps'[s].verified # "unset"
              PROVE  HasHash(steps'[s])
  BY DEF VerdictsHaveHash
<1>1. CASE HasHash(steps[s])
  BY <1>1, HashesStay
<1>2. CASE ~HasHash(steps[s])
  <2>1. steps'[s] # steps[s]
    BY <1>2 DEF VerdictsHaveHash
  <2>. QED
    BY <2>1, Writes, NoWrites, StepHasHash
<1>. QED
  BY <1>1, <1>2

\* Roll-ups without overlap see the records as they are.
LEMMA RollUpSeesRecords ==
    ASSUME FlowInv, SerialInv, ~overlapped, NEW r \in Requests, rollUpEvidenceStatus(r),
           NEW d, d = deriveEvidenceLifecycleStatus(local[r].view, local[r].status,
                                                    local[r].verification)
    PROVE  /\ d = deriveEvidenceLifecycleStatus(steps, parent.status, parent.verification)
           /\ \/ d = Grade(steps)
              \/ d.status = "partially-executed" /\ parent.status = "partially-executed"
<1>1. pc[r] = "rollUp" /\ task[r].step \in Steps
  BY TaskFields DEF rollUpEvidenceStatus, FlowInv, Phases
<1>2. /\ \A s \in Steps : Seen(r)[s] = steps[s]
      /\ local[r].status = parent.status /\ local[r].verification = parent.verification
  BY <1>1 DEF SerialInv
<1>3. \A s \in Steps : local[r].view[s] = steps[s]
  BY <1>1, <1>2 DEF Seen, Loading
<1>4. \E s \in Steps : HasHash(steps[s])
  BY <1>1, <1>2 DEF FlowInv, RollUpSeesHash, Rolls
<1>5. d = deriveEvidenceLifecycleStatus(steps, parent.status, parent.verification)
  BY <1>2, <1>3, DerivedFromRecords
<1>. QED
  BY <1>4, <1>5, DerivedIsGrade

\* An outcome that is written without overlap: the wallet has stopped half-way, or no
\* step has a hash.
LEMMA OutcomeSeesRecords ==
    ASSUME FlowInv, SerialInv, ~overlapped, NEW r \in Requests, recordOutcome(r),
           parent' # parent
    PROVE  \/ parent'.status = "partially-executed"
           \/ \A s \in Steps : ~HasHash(steps[s])
<1>1. pc[r] = "recordOutcome" /\ parent'.status = task[r].outcome
      /\ OutcomeAllowed(task[r].outcome, local[r].view)
  BY DEF recordOutcome, PatchParent
<1>2. \A s \in Steps : local[r].view[s] = steps[s]
  BY <1>1 DEF SerialInv, Seen, Loading
<1>. QED
  BY <1>1, <1>2 DEF OutcomeAllowed, HasHash

LEMMA WrittenStep ==
    ASSUME FlowInv, EvidenceInv, VerdictsHaveHash, SerialInv, Written, Next
    PROVE  Written'
<1>. SUFFICES ASSUME ~overlapped' PROVE Written'
  BY DEF Written
<1>. DEFINE g == Grade(steps)
<1>1. ~overlapped
  BY StaysSteady
<1>2. Grade(steps') = g \/ UNCHANGED <<parent, keys>>
  <2>1. CASE \E r \in Requests : patchHash(r) \/ patchReceipt(r) \/ patchVerification(r)
    BY <2>1 DEF patchHash, patchReceipt, patchVerification
  <2>2. CASE ~\E r \in Requests : patchHash(r) \/ patchReceipt(r) \/ patchVerification(r)
    BY <2>2, NoWrites
  <2>. QED
    BY <2>1, <2>2
<1>3. CASE UNCHANGED <<parent, keys>>
  <2>1. /\ Rank(g.status) <= Rank(Grade(steps').status)
        /\ Rank(g.status) = Rank(Grade(steps').status) => g = Grade(steps')
    BY RecordsAge, GradeGrows, <1>1 DEF EvidenceInv
  <2>2. \A status : Rank(status) \in Nat
    BY DEF Rank
  <2>. QED
    BY <1>1, <1>3, <2>1, <2>2 DEF Written
<1>4. CASE PrepareNext
  <2>1. keys = {} /\ keys' = {}
    BY <1>4 DEF FlowInv, BundleFirst, PrepareNext, Prepare, persistEvidenceIntent,
       prepareBundle, persistPreparedEvidence, returnBundle, PreparationFails
  <2>. QED
    BY <2>1 DEF Written
<1>5. ASSUME NEW r \in Requests, rollUpEvidenceStatus(r)
      PROVE  Written'
  <2>. DEFINE d == deriveEvidenceLifecycleStatus(local[r].view, local[r].status,
                                                 local[r].verification)
  <2>1. d = g \/ (d.status = "partially-executed" /\ parent.status = "partially-executed")
    BY <1>1, <1>5, RollUpSeesRecords
  <2>2. /\ keys' = keys \cup {<<"rollup", d.status>>} /\ steps' = steps
        /\ parent' = d \/ (<<"rollup", d.status>> \in keys /\ parent' = parent)
    BY <1>5 DEF rollUpEvidenceStatus, PatchParent
  <2>3. Rank("partially-executed") = 0 /\ \A status : Rank(status) \in Nat
    BY DEF Rank
  <2>4. ASSUME NEW status, <<"rollup", status>> \in keys'
        PROVE  Rank(status) <= Rank(g.status)
    <3>1. <<"rollup", status>> \in keys \/ status = d.status
      BY <2>2, <2>4
    <3>. HIDE DEF d, g
    <3>2. d.status = g.status \/ d.status = "partially-executed"
      BY <2>1
    <3>3. CASE <<"rollup", status>> \in keys
      BY <1>1, <3>3 DEF Written, g
    <3>4. CASE status = d.status
      BY <2>3, <3>2, <3>4
    <3>. QED
      BY <3>1, <3>3, <3>4
  <2>5. ASSUME Rank(g.status) > 0, <<"rollup", g.status>> \in keys'
        PROVE  parent' = g \/ parent'.status = "partially-executed"
    <3>1. CASE d = g
      <4>1. <<"rollup", g.status>> \in keys
               => parent = g \/ parent.status = "partially-executed"
        BY <1>1, <2>5 DEF Written
      <4>. HIDE DEF d, g
      <4>. QED
        BY <2>2, <3>1, <4>1
    <3>2. CASE d.status = "partially-executed" /\ parent.status = "partially-executed"
      <4>. HIDE DEF d, g
      <4>. QED
        BY <2>2, <3>2
    <3>. QED
      BY <2>1, <3>1, <3>2
  <2>. QED
    BY <2>2, <2>4, <2>5 DEF Written
<1>6. ASSUME NEW r \in Requests, recordOutcome(r)
      PROVE  Written'
  <2>1. /\ steps' = steps
        /\ \A status : <<"rollup", status>> \in keys' => <<"rollup", status>> \in keys
    BY <1>6 DEF recordOutcome, PatchParent
  <2>2. ASSUME parent' # parent
        PROVE  parent'.status = "partially-executed" \/ Rank(g.status) = 0
    <3>1. CASE \A s \in Steps : ~HasHash(steps[s])
      <4>1. g = [status |-> "prepared", verification |-> "null"]
        BY <3>1, NothingToDerive DEF VerdictsHaveHash, Grade
      <4>. HIDE DEF g
      <4>. QED
        BY <4>1 DEF Rank
    <3>. QED
      BY <1>1, <1>6, <2>2, <3>1, OutcomeSeesRecords
  <2>. QED
    BY <1>1, <2>1, <2>2 DEF Written
<1>. QED
  BY <1>3, <1>4, <1>5, <1>6, ParentWrites

LEMMA SerialStep ==
    ASSUME FlowInv, VerdictsHaveHash, SerialInv, Written, Next
    PROVE  SerialInv'
<1>. USE DEF FlowInv
<1>. DEFINE Reads(r) == pc[r] \in Loading \cup {"rollUp", "recordOutcome", "respond"}
            Informed(r) == pc[r] \in {"loadEvidenceSteps", "rollUp", "recordOutcome", "respond"}
            Fresh(r) == Reads(r) => \A s \in Steps : Seen(r)[s] = steps[s]
            Knows(r) == Informed(r) => /\ local[r].status = parent.status
                                       /\ local[r].verification = parent.verification
            Served == \/ Current \/ parent.status = "partially-executed"
                      \/ \E r \in Requests : Rolls(r)
<1>. SUFFICES ASSUME ~overlapped'
              PROVE  /\ \A r \in Requests : Fresh(r)' /\ Knows(r)'
                     /\ ~broken' /\ preparation' = "returned" => Served'
  BY DEF SerialInv
<1>. HIDE DEF Served, Fresh, Knows
<1>1. CASE PrepareNext
  <2>1. /\ preparation # "returned" /\ UNCHANGED <<steps, pc, local, overlapped>>
    BY <1>1 DEF PrepareNext, Prepare, persistEvidenceIntent, prepareBundle,
         persistPreparedEvidence, returnBundle, PreparationFails
  <2>2. /\ \A r \in Requests : pc[r] = "idle"
        /\ \A s \in Steps : ~HasHash(steps[s])
        /\ \A s \in Steps : steps[s].verified = "true" => HasHash(steps[s])
    BY <2>1 DEF BundleFirst, Blank, HasHash, VerdictsHaveHash
  <2>3. \A r \in Requests : Fresh(r)' /\ Knows(r)'
    BY <2>1, <2>2 DEF Fresh, Knows, Loading
  <2>4. Current'
    <3>1. deriveEvidenceLifecycleStatus(steps', parent'.status, parent'.verification)
             = [status |-> parent'.status, verification |-> parent'.verification]
      BY <2>1, <2>2, NothingToDerive
    <3>2. parent' \in [status : Statuses, verification : Verifications]
      BY TypeStep DEF TypeOK
    <3>. QED
      BY <3>1, <3>2 DEF Current
  <2>. QED
    BY <2>3, <2>4 DEF Served
<1>2. CASE \E h \in Hashes : Mine(h)
  <2>1. UNCHANGED <<preparation, parent, steps, pc, local, broken, overlapped>>
    BY <1>2 DEF Mine
  <2>. QED
    BY <2>1 DEF SerialInv, InFlight, Seen, Current, Rolls, Fresh, Knows, Served
<1>3. ASSUME NEW r \in Requests, Start(r) \/ Proceed(r)
      PROVE  /\ \A q \in Requests : Fresh(q)' /\ Knows(q)'
             /\ ~broken' /\ preparation' = "returned" => Served'
  <2>1. /\ ~overlapped
        /\ \A q \in Requests : q # r => q \notin InFlight /\ q \notin InFlight'
    BY <1>3, OneAtATime
  <2>3. ASSUME NEW q \in Requests, q # r
        PROVE  Fresh(q)' /\ Knows(q)'
    BY <2>1, <2>3 DEF InFlight, Fresh, Knows, Loading, Answers
  <2>4. Fresh(r) /\ Knows(r) /\ (~broken /\ preparation = "returned" => Served)
    BY <2>1 DEF SerialInv, Fresh, Knows, Served
  <2>5. \A q \in Requests : Rolls(q) => q = r
    BY <2>1 DEF InFlight, Rolls, Loading, Answers
  <2>. USE DEF TypeOK, Goto
  <2>6. ASSUME ~Informed(r)', ~Reads(r)' \/ pc'[r] = "readParent"
        PROVE  Fresh(r)' /\ Knows(r)'
    BY <2>6, SeenAtLoad DEF Fresh, Knows
  <2>7. ASSUME UNCHANGED <<preparation, parent, steps>>, ~Rolls(r), ~broken'
        PROVE  preparation = "returned" => Served'
    BY <1>3, <2>4, <2>5, <2>7, BrokenForGood DEF Served, Current
  <2>8. CASE Start(r) \/ respond(r) \/ readStep(r) \/ readHash(r) \/ askChain(r)
    <3>1. UNCHANGED <<preparation, parent, steps>> /\ ~Rolls(r)
      BY <2>8 DEF Start, submitEvidence, verifyEvidence, recordEvidenceOutcome, getEvidence,
         Accept, respond, readStep, readHash, askChain, Environment, Rolls, Loading
    <3>2. ~Informed(r)' /\ (~Reads(r)' \/ pc'[r] = "readParent")
      BY <2>8 DEF Start, submitEvidence, verifyEvidence, recordEvidenceOutcome, getEvidence,
         Load, respond, readStep, readHash, askChain, Loading
    <3>. QED
      BY <2>3, <2>6, <2>7, <3>1, <3>2
  <2>9. CASE Fail(r)
    <3>1. /\ UNCHANGED <<preparation, parent, steps>> /\ pc'[r] = "internal"
          /\ broken' \/ ~Rolls(r)
      BY <2>9 DEF Fail, ReadFails, WriteFails, ChainFails, Stop, Rolls, Loading
    <3>2. ~Informed(r)' /\ ~Reads(r)'
      BY <3>1 DEF Loading
    <3>. QED
      BY <2>3, <2>6, <2>7, <3>1, <3>2
  <2>10. CASE patchHash(r) \/ patchReceipt(r) \/ patchVerification(r)
    <3>1. pc'[r] = "readParent" /\ local'[r].after \in RollUps
      BY <2>10 DEF patchHash, patchReceipt, patchVerification, Load, RollUps
    <3>2. Rolls(r)' /\ ~Informed(r)'
      BY <3>1 DEF Rolls, Loading
    <3>. QED
      BY <2>3, <2>6, <3>1, <3>2 DEF Served
  <2>11. CASE readParent(r) \/ loadEvidenceSteps(r)
    <3>1. UNCHANGED <<preparation, parent, steps, broken>> /\ Reads(r)
      BY <2>11 DEF readParent, loadEvidenceSteps, Environment, Loading
    <3>2. Fresh(r)'
      BY <2>4, <2>11, <3>1, SeenByReading DEF Fresh
    <3>3. Knows(r)'
      <4>1. CASE readParent(r)
        BY <3>1, <4>1 DEF readParent, Knows
      <4>2. CASE loadEvidenceSteps(r)
        <5>1. /\ local'[r].status = local[r].status
              /\ local'[r].verification = local[r].verification
              /\ Informed(r)
          BY <4>2 DEF loadEvidenceSteps
        <5>. QED
          BY <2>4, <3>1, <5>1 DEF Knows
      <4>. QED
        BY <2>11, <4>1, <4>2
    <3>4. Rolls(r) => Rolls(r)'
      <4>1. local'[r].after = local[r].after
        BY <2>11 DEF readParent, loadEvidenceSteps
      <4>. QED
        BY <2>11, <4>1 DEF readParent, loadEvidenceSteps, Rolls, Loading, RollUps
    <3>. QED
      BY <2>3, <2>4, <2>5, <3>1, <3>2, <3>3, <3>4 DEF Served, Current
  <2>12. CASE rollUpEvidenceStatus(r)
    <3>0. PICK d : d = deriveEvidenceLifecycleStatus(local[r].view, local[r].status,
                                                     local[r].verification)
      OBVIOUS
    <3>1. /\ pc[r] = "rollUp" /\ pc'[r] \in RollUps /\ steps' = steps
          /\ parent' = d \/ (<<"rollup", d.status>> \in keys /\ parent' = parent)
      BY <2>12, <3>0 DEF rollUpEvidenceStatus, PatchParent, Phases
    <3>2. /\ d = deriveEvidenceLifecycleStatus(steps, parent.status, parent.verification)
          /\ \/ d = Grade(steps)
             \/ d.status = "partially-executed" /\ parent.status = "partially-executed"
      BY <2>1, <2>12, <3>0, RollUpSeesRecords
    <3>3. d = deriveEvidenceLifecycleStatus(steps, d.status, d.verification)
      BY <3>2, DerivingIsIdempotent
    <3>4. Rank(Grade(steps).status) > 0
      <4>1. task[r].step \in Steps /\ HasHash(steps[task[r].step])
        BY <3>1, <2>12, TaskFields DEF HashBeforeRollUp, HasHash, Phases
      <4>. QED
        BY <4>1, GradeCases DEF Cases, HasHash, Rank
    <3>5. parent' = d \/ parent'.status = "partially-executed"
      BY <2>1, <3>1, <3>2, <3>4 DEF Written
    <3>6. Served'
      BY <3>1, <3>3, <3>5 DEF Served, Current
    <3>7. ~Informed(r)' /\ ~Reads(r)'
      BY <3>1 DEF RollUps, Loading
    <3>. QED
      BY <2>3, <2>6, <3>6, <3>7
  <2>13. CASE recordOutcome(r)
    <3>1. /\ pc[r] = "recordOutcome" /\ UNCHANGED <<preparation, steps, local, broken>>
          /\ ~Informed(r)' /\ ~Reads(r)' /\ ~Rolls(r)
      BY <2>13 DEF recordOutcome, Environment, Loading, Rolls
    <3>2. \A s \in Steps : local[r].view[s] = steps[s]
      BY <2>4, <3>1 DEF Fresh, Seen, Loading
    <3>3. CASE parent' = parent
      BY <2>3, <2>6, <2>7, <3>1, <3>3
    <3>4. CASE parent' # parent
      <4>1. /\ parent'.status = task[r].outcome
            /\ OutcomeAllowed(task[r].outcome, local[r].view)
        BY <2>13, <3>4 DEF recordOutcome, PatchParent
      <4>2. CASE task[r].outcome = "partially-executed"
        BY <2>3, <2>6, <3>1, <4>1, <4>2 DEF Served
      <4>3. CASE task[r].outcome = "cancelled-before-submission"
        <5>1. \A s \in Steps : ~HasHash(steps'[s])
          BY <3>1, <3>2, <4>1, <4>3 DEF OutcomeAllowed, HasHash
        <5>2. \A s \in Steps : steps'[s].verified = "true" => HasHash(steps'[s])
          BY <3>1 DEF VerdictsHaveHash
        <5>3. deriveEvidenceLifecycleStatus(steps', parent'.status, parent'.verification)
                = [status |-> parent'.status, verification |-> parent'.verification]
          BY <5>1, <5>2, NothingToDerive
        <5>4. parent' \in [status : Statuses, verification : Verifications]
          BY TypeStep
        <5>5. Current'
          BY <5>3, <5>4 DEF Current
        <5>. QED
          BY <2>3, <2>6, <3>1, <5>5 DEF Served
      <4>. QED
        BY <4>1, <4>2, <4>3 DEF OutcomeAllowed
    <3>. QED
      BY <3>3, <3>4
  <2>. QED
    BY <1>3, <2>8, <2>9, <2>10, <2>11, <2>12, <2>13 DEF Proceed
<1>. QED
  BY NextCases, <1>1, <1>2, <1>3

LEMMA SerialAlways == Spec => [](SerialInv /\ VerdictsHaveHash /\ Written)
<1>1. Init => SerialInv /\ VerdictsHaveHash /\ Written
  BY DEF Init, SerialInv, VerdictsHaveHash, Written, Loading, Blank
<1>2. ASSUME SerialInv, VerdictsHaveHash, Written, UNCHANGED vars
      PROVE  SerialInv' /\ VerdictsHaveHash' /\ Written'
  BY <1>2 DEF vars, given, SerialInv, VerdictsHaveHash, Written, Seen, Current, Rolls
<1>3. ASSUME FlowInv, Steady => EvidenceInv, SerialInv, VerdictsHaveHash, Written, Next
      PROVE  SerialInv' /\ VerdictsHaveHash' /\ Written'
  <2>1. CASE overlapped'
    BY <1>3, <2>1, VerdictsHaveHashStep DEF SerialInv, Written
  <2>2. CASE ~overlapped'
    BY <1>3, <2>2, StaysSteady, SerialStep, VerdictsHaveHashStep, WrittenStep DEF Steady
  <2>. QED
    BY <2>1, <2>2
<1>4. FlowInv /\ (Steady => EvidenceInv) /\ SerialInv /\ VerdictsHaveHash /\ Written
        /\ [Next]_vars => (SerialInv /\ VerdictsHaveHash /\ Written)'
  BY <1>2, <1>3
<1>. QED
  BY <1>1, <1>4, FlowAlways, EvidenceAlways, PTL DEF Spec

\* When requests come one at a time and the gateway works, the parent is up to date
\* after each of them, whichever hashes the wallet submits.
THEOREM FinalStatusIsCurrentHolds == Spec => []FinalStatusIsCurrent
<1>1. SerialInv => FinalStatusIsCurrent
  BY DEF SerialInv, FinalStatusIsCurrent, Current, InFlight, Rolls, Loading, Answers
<1>. QED
  BY <1>1, SerialAlways, PTL

=============================================================================
