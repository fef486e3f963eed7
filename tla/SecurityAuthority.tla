-------------------------- MODULE SecurityAuthority --------------------------
(***************************************************************************)
(* The security authority (security/authority.py): principals, documents,  *)
(* grants and epochs in one database, and a bounded audit trail written in *)
(* the same transaction as every change.  Every operation is one BEGIN     *)
(* IMMEDIATE transaction, so it needs the database's write lock.           *)
(***************************************************************************)
EXTENDS Integers, FiniteSets

CONSTANTS Owner,       \* principals, named by the owner of their scope
          Document,
          OwnerOf,     \* [Document -> Owner]
          AuditLimit   \* audit_limit

VARIABLES account,   \* [Owner -> the row of principals]
          document,  \* [Document -> the row of documents]
          grants,    \* [Document -> the grantees of its rows not revoked]
          granted,   \* [Document -> the grantees that have a row at all]
          audit      \* the number of audit rows

authorityVars == <<account, document, grants, granted, audit>>

Free == "free"

ASSUME AuthorityAssumption ==
    OwnerOf \in [Document -> Owner] /\ AuditLimit \in Nat /\ Free \notin Owner

Roles == {"user", "admin"}     \* an admin has TENANT_ADMIN and PUBLICATION_MANAGE
States == {"NONE", "ACTIVE", "TOMBSTONED", "PURGE_PENDING"}

AuthorityInit ==
    /\ account = [o \in Owner |-> [known |-> FALSE, role |-> "user", epoch |-> 0, disabled |-> FALSE]]
    /\ document = [d \in Document |-> [state |-> "NONE", epoch |-> 0]]
    /\ grants = [d \in Document |-> {}] /\ granted = [d \in Document |-> {}]
    /\ audit = 0

\* n audit rows, or the transaction is rolled back: the trail never evicts.
Audit(n) == audit + n <= AuditLimit /\ audit' = audit + n

\* _principal: the row is there, enabled, and says what the token says.
Valid(o, role) == account[o].known /\ ~account[o].disabled /\ account[o].role = role

\* _document: owner, administrator or, to read and analyse, a grantee.
MayAct(o, role, d, action) ==
    /\ Valid(o, role) /\ document[d].state = "ACTIVE"
    /\ \/ OwnerOf[d] = o \/ role = "admin"
       \/ action = "ANALYZE" /\ o \in grants[d]

\* register, on every authenticated request.
Register(o, role) ==
    /\ ~account[o].disabled
    /\ account' = [account EXCEPT
          ![o] = [known |-> TRUE, role |-> role, disabled |-> FALSE,
                  epoch |-> IF @.known /\ @.role # role THEN @.epoch + 1 ELSE @.epoch]]
    /\ Audit(1) /\ UNCHANGED <<document, grants, granted>>

\* One audit row and nothing else: an authorization, allowed or denied, or a
\* mutation that was refused.
AuditOnly == Audit(1) /\ UNCHANGED <<account, document, grants, granted>>

RegisterDocument(o, role, d) ==
    /\ Valid(o, role) /\ role = "admin" /\ account[OwnerOf[d]].known
    /\ document[d].state = "NONE"
    /\ document' = [document EXCEPT ![d].state = "ACTIVE"]
    /\ Audit(1) /\ UNCHANGED <<account, grants, granted>>

\* Mutated: the grant is changed and the document's epoch is not.
ShareKeepsEpoch(o, role, d, g, revoke) ==
    /\ MayAct(o, role, d, "SHARE")
    /\ account[g].known /\ ~account[g].disabled
    /\ IF revoke THEN g \in grants[d] ELSE g \notin grants[d]
    /\ grants' = [grants EXCEPT ![d] = IF revoke THEN @ \ {g} ELSE @ \cup {g}]
    /\ granted' = [granted EXCEPT ![d] = @ \cup {g}]
    /\ Audit(1) /\ UNCHANGED <<account, document>>

\* share; repeating it returns the same grant and changes nothing.
Share(o, role, d, g, revoke) ==
    /\ MayAct(o, role, d, "SHARE")
    /\ account[g].known /\ ~account[g].disabled
    /\ IF revoke THEN g \in grants[d] ELSE g \notin grants[d]
    /\ grants' = [grants EXCEPT ![d] = IF revoke THEN @ \ {g} ELSE @ \cup {g}]
    /\ granted' = [granted EXCEPT ![d] = @ \cup {g}]
    /\ document' = [document EXCEPT ![d].epoch = @ + 1]
    /\ Audit(1) /\ UNCHANGED account

\* Mutated: the grants of a deleted document are left as they were.
TombstoneKeepsGrants(o, role, d) ==
    /\ Valid(o, role)
    /\ OwnerOf[d] = o \/ role = "admin"
    /\ document[d].state = "ACTIVE"
    /\ document' = [document EXCEPT ![d] = [state |-> "TOMBSTONED", epoch |-> @.epoch + 1]]
    /\ Audit(2) /\ UNCHANGED <<account, grants, granted>>

Tombstone(o, role, d) ==
    /\ Valid(o, role)
    /\ OwnerOf[d] = o \/ role = "admin"
    /\ document[d].state = "ACTIVE"
    /\ document' = [document EXCEPT ![d] = [state |-> "TOMBSTONED", epoch |-> @.epoch + 1]]
    /\ grants' = [grants EXCEPT ![d] = {}]
    /\ Audit(2) /\ UNCHANGED <<account, granted>>

TrackPurge(o, role, d) ==
    /\ Valid(o, role) /\ role = "admin"
    /\ document[d].state \in {"TOMBSTONED", "PURGE_PENDING"}
    /\ document' = [document EXCEPT ![d].state = "PURGE_PENDING"]
    /\ Audit(1) /\ UNCHANGED <<account, grants, granted>>

DisablePrincipal(o, role, t) ==
    /\ Valid(o, role) /\ role = "admin" /\ account[t].known
    /\ account' = [account EXCEPT
          ![t].disabled = TRUE, ![t].epoch = IF account[t].disabled THEN @ ELSE @ + 1]
    /\ Audit(1) /\ UNCHANGED <<document, grants, granted>>

\* snapshot: the epochs a request was admitted under.
Snapshot(o, role, docs) ==
    [owner |-> o, role |-> role, epoch |-> account[o].epoch,
     docs |-> [d \in docs |-> document[d].epoch]]

MaySnapshot(o, role, docs) ==
    Valid(o, role) /\ \A d \in docs : MayAct(o, role, d, "ANALYZE")

\* _revalidate
Revalidates(s) ==
    /\ Valid(s.owner, s.role) /\ account[s.owner].epoch = s.epoch
    /\ \A d \in DOMAIN s.docs : MayAct(s.owner, s.role, d, "ANALYZE") /\ document[d].epoch = s.docs[d]

\* Any administrative operation on the authority by a principal.
Mutation(o, role) ==
    \/ \E d \in Document : \/ RegisterDocument(o, role, d) \/ Tombstone(o, role, d)
                           \/ TrackPurge(o, role, d)
                           \/ \E g \in Owner, revoke \in BOOLEAN : Share(o, role, d, g, revoke)
    \/ \E t \in Owner : DisablePrincipal(o, role, t)

(* ---------------------------------------------------------------------- *)

\* No change of a principal, a document or a grant is committed without its audit row,
\* also when the trail is full, and the trail is never cut (_audit).  A deleted document
\* has no live grant left and never becomes active again, whatever shares,
\* registrations and purges are asked for (tombstone).
ChangesAreLawful ==
    [][/\ <<account, document, grants, granted>>' # <<account, document, grants, granted>>
             => audit' > audit
       /\ \A d \in Document :
             /\ document'[d].state \in {"TOMBSTONED", "PURGE_PENDING"} => grants'[d] = {}
             /\ document[d].state \in {"TOMBSTONED", "PURGE_PENDING"} =>
                   /\ document'[d].state \in {"TOMBSTONED", "PURGE_PENDING"}
                   /\ \A o \in Owner, r \in Roles : ~MayAct(o, r, d, "ANALYZE")']_authorityVars
=============================================================================
