------------------------- MODULE UserIdentityEvidence --------------------------
(***************************************************************************)
(* user-identity-evidence.service.ts: the administrator's export of who    *)
(* owns which wallet.  Three tables of the gateway are paged through at    *)
(* the same time and then joined: a profile names a wallet address, a      *)
(* wallet names a user.                                                    *)
(*                                                                         *)
(* Other services register identities meanwhile (external): they add rows. *)
(* The listings ask for no order, so the gateway (external) may list the   *)
(* rows in another one for each page, and what lies beyond a first page    *)
(* can be missed or repeated.  Addresses are normalised.                   *)
(***************************************************************************)
EXTENDS Integers, Sequences, SequencesExt

CONSTANTS
    Rows,           \* entity -> the rows that may come to be in its table
    PageSize

Entities == {"profiles", "wallets", "users"}

VARIABLES
    tables,         \* entity -> the rows of its table
    lists,          \* entity -> what the export has read
    skip,           \* entity -> where its next page begins
    phase,          \* "idle", "listing", "built" or "failed"
    classOf,        \* the result: the class of each profile exported
    before          \* history: the class of each profile when the export began

-----------------------------------------------------------------------------
(* buildUserIdentityEvidence, over the three lists                         *)

MatchedWallets(profile, wallets) ==
    {i \in DOMAIN wallets : wallets[i].address = profile.address}

ReferencedUserIds(profile, wallets) ==
    {wallets[i].user : i \in MatchedWallets(profile, wallets)}

MatchedUsers(profile, wallets, users) ==
    {i \in DOMAIN users : users[i].id \in ReferencedUserIds(profile, wallets)}

\* One user id, and one row of the list of users with that id.
UniquelyResolved(profile, wallets, users) ==
    /\ Cardinality(ReferencedUserIds(profile, wallets)) = 1
    /\ Cardinality(MatchedUsers(profile, wallets, users)) = 1

TenantConsistent(profile, wallets, users) ==
    \A w \in MatchedWallets(profile, wallets), u \in MatchedUsers(profile, wallets, users) :
        wallets[w].tenant = profile.tenant /\ wallets[w].tenant = users[u].tenant

\* The column of the summary that counts the profile.
Class(profile, wallets, users) ==
    IF Cardinality(ReferencedUserIds(profile, wallets)) > 1 THEN "ambiguous"
    ELSE IF ~UniquelyResolved(profile, wallets, users) THEN "unresolved"
    ELSE IF TenantConsistent(profile, wallets, users) THEN "resolved"
    ELSE "tenantInconsistent"

\* The records of the profiles of a list; a profile listed twice has two of them.
Classes(t) ==
    [i \in DOMAIN t.profiles |->
        [id |-> t.profiles[i].id, class |-> Class(t.profiles[i], t.wallets, t.users)]]

-----------------------------------------------------------------------------
Init ==
    /\ tables = [e \in Entities |-> {}]
    /\ lists = [e \in Entities |-> <<>>]
    /\ skip = [e \in Entities |-> 0]
    /\ phase = "idle"
    /\ classOf = <<>>
    /\ before = <<>>

\* Another service adds a row to a table.
Register(e, row) ==
    /\ phase # "built"
    /\ \A other \in tables[e] : other.id # row.id
    /\ tables' = [tables EXCEPT ![e] = @ \cup {row}]
    /\ UNCHANGED <<lists, skip, phase, classOf, before>>

\* The tables as lists without a gap or a repetition; which order they have is no matter.
Listed(ts) == [e \in Entities |-> SetToSeq(ts[e])]

exportUserIdentityEvidenceAdmin ==
    /\ phase = "idle"
    /\ phase' = "listing"
    /\ before' = Classes(Listed(tables))
    /\ UNCHANGED <<tables, lists, skip, classOf>>

Listing == {e \in Entities : skip[e] >= 0}

\* Mutant of NextSkip: the pages overlap by one row.
NextSkipOverlapping(at) == at + PageSize - 1

NextSkip(at) == at + PageSize

\* External: the pages the gateway may answer with, for the query names no order.
Pages(table, from) ==
    LET size == Cardinality(table) IN
    {SubSeq(rows, from + 1, Min({from + PageSize, size})) : rows \in Bijection(1 .. size, table)}

\* listAll: one page of one of the tables; a page that is not full is the last.
listPage(e) ==
    /\ phase = "listing"
    /\ e \in Listing
    /\ \E page \in Pages(tables[e], skip[e]) :
          /\ lists' = [lists EXCEPT ![e] = @ \o page]
          /\ skip' = [skip EXCEPT ![e] = IF Len(page) < PageSize THEN -1 ELSE NextSkip(@)]
    /\ UNCHANGED <<tables, phase, classOf, before>>

\* A page cannot be read, or is no list.
listFails ==
    /\ phase = "listing"
    /\ phase' = "failed"
    /\ UNCHANGED <<tables, lists, skip, classOf, before>>

buildUserIdentityEvidence ==
    /\ phase = "listing"
    /\ Listing = {}
    /\ phase' = "built"
    /\ classOf' = Classes(lists)
    /\ UNCHANGED <<tables, lists, skip, before>>

Next ==
    \/ \E e \in Entities : listPage(e) \/ (\E row \in Rows[e] : Register(e, row))
    \/ listFails \/ buildUserIdentityEvidence

-----------------------------------------------------------------------------
(* Properties                                                              *)

\* A table whose rows one page holds is read at one moment, in whatever order.
Fits(e) == Cardinality(tables[e]) <= PageSize

\* The profiles whose class was the same when the export began and at its end.
Settled == Range(before) \cap Range(Classes(Listed(tables)))

\* The export reads three tables at different times, while identities are registered,
\* and joins what it has read.  As long as wallets and users fit a page, a settled
\* profile is reported with its own class and no other, wherever the pages of profiles
\* fall; and if the profiles fit a page as well, every settled profile is reported,
\* and none twice.  Beyond a page nothing of the kind holds: the listing names no order.
StableIdentitiesAreReported ==
    phase = "built" /\ Fits("wallets") /\ Fits("users") =>
        /\ \A r \in Range(classOf), s \in Settled : r.id = s.id => r = s
        /\ Fits("profiles") =>
             /\ \A i, j \in DOMAIN classOf : classOf[i].id = classOf[j].id => i = j
             /\ Settled \subseteq Range(classOf)
=============================================================================
