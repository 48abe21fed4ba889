----------------------------- MODULE AdminExports ------------------------------
(***************************************************************************)
(* The evidence routes of avax-swap.controller.ts together: the records of *)
(* bundles and bridges, and the identities.  They share the list of        *)
(* administrators and no state, so the requests of a behaviour are about   *)
(* records or, all the same, about identities.                             *)
(***************************************************************************)
EXTENDS EvidenceRecords

CONSTANTS
    IdentityRows,       \* see Rows of UserIdentityEvidence
    IdentityPage

ASSUME IdentitiesAssumption == IdentityPage \in Nat \ {0}

VARIABLES tables, lists, skip, phase, classOf, before

estateVars == <<tables, lists, skip, phase, classOf, before>>

Identity == INSTANCE UserIdentityEvidence WITH Rows <- IdentityRows, PageSize <- IdentityPage

AboutIdentities(r) == task[r].op = "exportUserEstate"

AllInit ==
    /\ Init
    /\ Identity!Init
    /\ \A r, q \in Requests : AboutIdentities(r) => task[q] = task[r]

exportUserEstateEvidenceAdmin(r) ==
    /\ pc[r] = "idle"
    /\ AboutIdentities(r)
    /\ IF isPhase2EvidenceAdmin(task[r].wallet)
         THEN Goto(r, "estate") /\ Identity!exportUserIdentityEvidenceAdmin
         ELSE Goto(r, "forbidden") /\ UNCHANGED estateVars
    /\ UNCHANGED <<task, store, local, due, broken>>

\* The export is answered with the identities, or INTERNAL_ERROR.
EstateAnswer(r) ==
    /\ pc[r] = "estate"
    /\ phase \in {"built", "failed"}
    /\ Goto(r, IF phase = "built" THEN "done" ELSE "internal")
    /\ UNCHANGED <<task, store, local, due, broken, estateVars>>

AllNext ==
    \/ Next /\ UNCHANGED estateVars
    \/ \E r \in Requests : exportUserEstateEvidenceAdmin(r) \/ EstateAnswer(r)
    \/ \E r \in Requests : AboutIdentities(r) /\ Identity!Next /\ UNCHANGED vars

AllSpec == AllInit /\ [][AllNext]_<<vars, estateVars>>

\* StableIdentitiesAreReported of UserIdentityEvidence: what an administrator's export
\* says of an identity that was settled is what the tables say.
IdentitiesAreReported == Identity!StableIdentitiesAreReported
=============================================================================
