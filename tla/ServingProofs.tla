---------------------------- MODULE ServingProofs -----------------------------
(* The security authority and the release of responses, for any number of principals,
   documents, requests and administrative operations; the cache of signing keys, for any keys,
   any rotation and outage of the issuer, and any settings; and the versioned corpus, for any
   number of replicas, administrative commands, versions, chunks and resets. *)
EXTENDS SecureRelease, OidcKeys, Retrieval, TLAPS

\* A proof leaf is sent to Zenon unless it names another prover.
USE ZenonT(60)

AccountRow == [known : BOOLEAN, role : Roles, epoch : Nat, disabled : BOOLEAN]
DocumentRow == [state : States, epoch : Nat]
Dead == {"TOMBSTONED", "PURGE_PENDING"}

\* The tables of the authority.  A deleted document has no live grants.
Tables ==
    /\ account \in [Owner -> AccountRow] /\ document \in [Document -> DocumentRow]
    /\ grants \in [Document -> SUBSET Owner] /\ granted \in [Document -> SUBSET Owner]
    /\ \A d \in Document : /\ grants[d] \subseteq granted[d]
                           /\ document[d].state \in Dead => grants[d] = {}
    /\ audit \in 0 .. AuditLimit

\* What may become of the row a of a principal: epochs grow, and a principal keeps what a
\* snapshot saw of it or its epoch moves on.
AccountMoves(a, b) ==
    /\ a.epoch <= b.epoch
    /\ a.known /\ ~a.disabled => \/ b.known /\ ~b.disabled /\ b.role = a.role
                                 \/ a.epoch < b.epoch

\* What may become of the row x of a document with the grants g.
DocumentMoves(x, y, g, h) ==
    /\ x.epoch <= y.epoch
    /\ x.state = "ACTIVE" => (y.state = "ACTIVE" /\ g \subseteq h) \/ x.epoch < y.epoch
    /\ x.state \in Dead => y.state \in Dead

\* What every transaction of the authority does.
AuthorityMoves ==
    /\ Tables'
    /\ \A o \in Owner : AccountMoves(account[o], account'[o])
    /\ \A d \in Document : DocumentMoves(document[d], document'[d], grants[d], grants'[d])
    /\ <<account, document, grants, granted>>' # <<account, document, grants, granted>> => audit' > audit

-----------------------------------------------------------------------------
(* The transactions of the authority. *)

\* A row that stays moves (SecurityAuthority).
LEMMA RowsStay ==
    ASSUME Tables
    PROVE  /\ \A o \in Owner : AccountMoves(account[o], account[o])
           /\ \A d \in Document : DocumentMoves(document[d], document[d], grants[d], grants[d])
<1>1. ASSUME NEW o \in Owner PROVE account[o].epoch <= account[o].epoch
  <2>1. account[o].epoch \in Nat
    BY DEF Tables, AccountRow
  <2> QED  BY SMTT(60), <2>1
<1>2. ASSUME NEW d \in Document PROVE document[d].epoch <= document[d].epoch
  <2>1. document[d].epoch \in Nat
    BY DEF Tables, DocumentRow
  <2> QED  BY SMTT(60), <2>1
<1> QED  BY <1>1, <1>2 DEF AccountMoves, DocumentMoves

\* An audit row more, within the limit (_audit).
LEMMA Audited ==
    ASSUME Tables, NEW n \in {1, 2}, Audit(n)
    PROVE  audit' \in 0 .. AuditLimit /\ audit' > audit
BY SMTT(60), AuthorityAssumption DEF Tables, Audit

\* A transaction that only audits.
LEMMA AuditOnlyMoves ==
    ASSUME Tables, AuditOnly
    PROVE  AuthorityMoves
<1>1. /\ account' = account /\ document' = document /\ grants' = grants /\ granted' = granted /\ Audit(1)
  BY DEF AuditOnly
<1>2. audit' \in 0 .. AuditLimit /\ audit' > audit
  BY <1>1, Audited
<1>3. Tables'
  BY <1>1, <1>2 DEF Tables
<1> QED  BY <1>1, <1>2, <1>3, RowsStay DEF AuthorityMoves

\* One row of principals becomes b.
LEMMA AccountChange ==
    ASSUME Tables, NEW o \in Owner, NEW b \in AccountRow, account' = [account EXCEPT ![o] = b],
           AccountMoves(account[o], b), Audit(1), UNCHANGED <<document, grants, granted>>
    PROVE  AuthorityMoves
<1>1. audit' \in 0 .. AuditLimit /\ audit' > audit
  BY Audited
<1>2. account' \in [Owner -> AccountRow] /\ \A p \in Owner : account'[p] = IF p = o THEN b ELSE account[p]
  BY DEF Tables
<1>3. Tables'
  BY <1>1, <1>2 DEF Tables
<1> QED  BY <1>1, <1>2, <1>3, RowsStay DEF AuthorityMoves

\* One row of documents becomes y, and its grants h, among the granted k.
LEMMA DocumentChange ==
    ASSUME Tables, NEW d \in Document, NEW y \in DocumentRow, NEW h \in SUBSET Owner, NEW k \in SUBSET Owner,
           document' = [document EXCEPT ![d] = y], grants' = [grants EXCEPT ![d] = h],
           granted' = [granted EXCEPT ![d] = k], h \subseteq k, y.state \in Dead => h = {},
           DocumentMoves(document[d], y, grants[d], h),
           account' = account, audit' \in 0 .. AuditLimit, audit' > audit
    PROVE  AuthorityMoves
<1>1. /\ document' \in [Document -> DocumentRow]
      /\ \A e \in Document : document'[e] = IF e = d THEN y ELSE document[e]
  BY DEF Tables
<1>2. /\ grants' \in [Document -> SUBSET Owner]
      /\ \A e \in Document : grants'[e] = IF e = d THEN h ELSE grants[e]
  BY DEF Tables
<1>3. /\ granted' \in [Document -> SUBSET Owner]
      /\ \A e \in Document : granted'[e] = IF e = d THEN k ELSE granted[e]
  BY DEF Tables
<1>4. Tables'
  BY <1>1, <1>2, <1>3 DEF Tables
<1>5. \A e \in Document : DocumentMoves(document[e], document'[e], grants[e], grants'[e])
  BY <1>1, <1>2, RowsStay
<1> QED  BY <1>4, <1>5, RowsStay DEF AuthorityMoves

\* register: a principal whose role changes gets a new epoch.
LEMMA RegisterMoves ==
    ASSUME Tables, NEW o \in Owner, NEW role \in Roles, Register(o, role)
    PROVE  AuthorityMoves
<1>1. PICK a : a = account[o]  OBVIOUS
<1>2. a \in AccountRow
  BY <1>1 DEF Tables
<1>3. PICK e : e = IF a.known /\ a.role # role THEN a.epoch + 1 ELSE a.epoch  OBVIOUS
<1>4. PICK b : b = [known |-> TRUE, role |-> role, disabled |-> FALSE, epoch |-> e]  OBVIOUS
<1>5. account' = [account EXCEPT ![o] = b]
  BY <1>1, <1>3, <1>4 DEF Register
<1>6. a.epoch \in Nat
  BY <1>2 DEF AccountRow
<1>7. e \in Nat /\ a.epoch <= e /\ (a.known /\ a.role # role => a.epoch < e)
  BY SMTT(60), <1>3, <1>6
<1>8. b \in AccountRow /\ b.known = TRUE /\ b.role = role /\ b.disabled = FALSE /\ b.epoch = e
  BY <1>4, <1>7 DEF AccountRow
<1>9. AccountMoves(a, b)
  BY <1>7, <1>8 DEF AccountMoves
<1> QED  BY <1>1, <1>5, <1>8, <1>9, AccountChange DEF Register

\* disable_principal: the epoch moves on when the principal was enabled.
LEMMA DisableMoves ==
    ASSUME Tables, NEW o, NEW role, NEW t \in Owner, DisablePrincipal(o, role, t)
    PROVE  AuthorityMoves
<1>1. PICK a : a = account[t]  OBVIOUS
<1>2. a \in AccountRow
  BY <1>1 DEF Tables
<1>3. PICK e : e = IF a.disabled THEN a.epoch ELSE a.epoch + 1  OBVIOUS
<1>4. PICK b : b = [a EXCEPT !.disabled = TRUE, !.epoch = e]  OBVIOUS
<1>5. account' = [account EXCEPT ![t] = b]
  BY <1>1, <1>3, <1>4 DEF DisablePrincipal, Tables
<1>6. a.epoch \in Nat
  BY <1>2 DEF AccountRow
<1>7. e \in Nat /\ a.epoch <= e /\ (~a.disabled => a.epoch < e)
  BY SMTT(60), <1>3, <1>6
<1>8. b \in AccountRow /\ b.epoch = e
  BY <1>2, <1>4, <1>7 DEF AccountRow
<1>9. AccountMoves(a, b)
  BY <1>7, <1>8 DEF AccountMoves
<1> QED  BY <1>1, <1>5, <1>8, <1>9, AccountChange DEF DisablePrincipal

\* The row of a document with another state or the next epoch.
LEMMA DocumentRows ==
    ASSUME Tables, NEW d \in Document
    PROVE  /\ document[d] \in DocumentRow /\ document[d].epoch \in Nat
           /\ document[d].epoch < document[d].epoch + 1 /\ document[d].epoch <= document[d].epoch + 1
           /\ document[d].epoch + 1 \in Nat /\ document[d].epoch <= document[d].epoch
           /\ grants[d] \in SUBSET Owner /\ granted[d] \in SUBSET Owner /\ grants[d] \subseteq granted[d]
           /\ grants = [grants EXCEPT ![d] = grants[d]] /\ granted = [granted EXCEPT ![d] = granted[d]]
<1>1. document[d] \in DocumentRow /\ document[d].epoch \in Nat
  BY DEF Tables, DocumentRow
<1>2. PICK e : e = document[d].epoch  OBVIOUS
<1>3. e < e + 1 /\ e <= e + 1 /\ e + 1 \in Nat /\ e <= e
  BY SMTT(60), <1>1, <1>2
<1>4. /\ grants[d] \in SUBSET Owner /\ granted[d] \in SUBSET Owner /\ grants[d] \subseteq granted[d]
      /\ grants = [grants EXCEPT ![d] = grants[d]] /\ granted = [granted EXCEPT ![d] = granted[d]]
  BY DEF Tables
<1> QED  BY <1>1, <1>2, <1>3, <1>4

\* register_document: a new row becomes active, without grants to lose.
LEMMA RegisterDocumentMoves ==
    ASSUME Tables, NEW o, NEW role, NEW d \in Document, RegisterDocument(o, role, d)
    PROVE  AuthorityMoves
<1>1. PICK x : x = document[d]  OBVIOUS
<1>2. PICK y : y = [x EXCEPT !.state = "ACTIVE"]  OBVIOUS
<1>3. document' = [document EXCEPT ![d] = y]
  BY <1>1, <1>2 DEF RegisterDocument, Tables
<1>4. x \in DocumentRow /\ x.epoch <= x.epoch
  BY <1>1, DocumentRows
<1>5. y \in DocumentRow /\ y.state = "ACTIVE" /\ y.epoch = x.epoch
  BY <1>2, <1>4 DEF DocumentRow, States
<1>6. x.state = "NONE"
  BY <1>1 DEF RegisterDocument
<1>7. PICK h, k : h = grants[d] /\ k = granted[d]  OBVIOUS
<1>8. DocumentMoves(x, y, h, h)
  BY <1>4, <1>5, <1>6 DEF DocumentMoves, Dead
<1>9. y.state \notin Dead
  BY <1>5 DEF Dead
<1>10. /\ h \in SUBSET Owner /\ k \in SUBSET Owner /\ h \subseteq k
       /\ grants' = [grants EXCEPT ![d] = h] /\ granted' = [granted EXCEPT ![d] = k]
  BY <1>7, DocumentRows DEF RegisterDocument
<1>11. account' = account /\ audit' \in 0 .. AuditLimit /\ audit' > audit
  BY Audited DEF RegisterDocument
<1> QED  BY <1>1, <1>3, <1>5, <1>7, <1>8, <1>9, <1>10, <1>11, DocumentChange

\* share: a grant that changes gives the document a new epoch.
LEMMA ShareMoves ==
    ASSUME Tables, NEW o, NEW role, NEW d \in Document, NEW g \in Owner, NEW revoke,
           Share(o, role, d, g, revoke)
    PROVE  AuthorityMoves
<1>1. PICK x : x = document[d]  OBVIOUS
<1>2. PICK e : e = x.epoch + 1  OBVIOUS
<1>3. PICK y : y = [x EXCEPT !.epoch = e]  OBVIOUS
<1>4. document' = [document EXCEPT ![d] = y]
  BY <1>1, <1>2, <1>3 DEF Share, Tables
<1>5. x \in DocumentRow /\ x.epoch < e /\ x.epoch <= e /\ e \in Nat
  BY <1>1, <1>2, DocumentRows
<1>6. y \in DocumentRow /\ y.state = x.state /\ y.epoch = e
  BY <1>3, <1>5 DEF DocumentRow
<1>7. x.state = "ACTIVE"
  BY <1>1 DEF Share, MayAct
<1>8. PICK h, k : /\ h = IF revoke THEN grants[d] \ {g} ELSE grants[d] \cup {g}
                  /\ k = granted[d] \cup {g}
  OBVIOUS
<1>9. h \in SUBSET Owner /\ k \in SUBSET Owner /\ h \subseteq k
  BY <1>8, DocumentRows
<1>10. grants' = [grants EXCEPT ![d] = h] /\ granted' = [granted EXCEPT ![d] = k]
  BY <1>8 DEF Share
<1>11. DocumentMoves(x, y, grants[d], h)
  BY <1>5, <1>6, <1>7 DEF DocumentMoves, Dead
<1>12. y.state \notin Dead
  BY <1>6, <1>7 DEF Dead
<1>13. account' = account /\ audit' \in 0 .. AuditLimit /\ audit' > audit
  BY Audited DEF Share
<1> QED  BY <1>1, <1>4, <1>6, <1>9, <1>10, <1>11, <1>12, <1>13, DocumentChange

\* tombstone: the document is dead, its grants are gone and its epoch moves on.
LEMMA TombstoneMoves ==
    ASSUME Tables, NEW o, NEW role, NEW d \in Document, Tombstone(o, role, d)
    PROVE  AuthorityMoves
<1>1. PICK x : x = document[d]  OBVIOUS
<1>2. PICK e : e = x.epoch + 1  OBVIOUS
<1>3. PICK y : y = [state |-> "TOMBSTONED", epoch |-> e]  OBVIOUS
<1>4. document' = [document EXCEPT ![d] = y]
  BY <1>1, <1>2, <1>3 DEF Tombstone
<1>5. x \in DocumentRow /\ x.epoch < e /\ x.epoch <= e /\ e \in Nat
  BY <1>1, <1>2, DocumentRows
<1>6. y \in DocumentRow /\ y.state = "TOMBSTONED" /\ y.epoch = e
  BY <1>3, <1>5 DEF DocumentRow, States
<1>7. PICK h, k : h = {} /\ k = granted[d]  OBVIOUS
<1>8. h \in SUBSET Owner /\ k \in SUBSET Owner /\ h \subseteq k
  BY <1>7, DocumentRows
<1>9. grants' = [grants EXCEPT ![d] = h] /\ granted' = [granted EXCEPT ![d] = k]
  BY <1>7, DocumentRows DEF Tombstone
<1>10. DocumentMoves(x, y, grants[d], h)
  BY <1>5, <1>6 DEF DocumentMoves, Dead
<1>11. account' = account /\ audit' \in 0 .. AuditLimit /\ audit' > audit
  BY Audited DEF Tombstone
<1> QED  BY <1>1, <1>4, <1>6, <1>7, <1>8, <1>9, <1>10, <1>11, DocumentChange

\* track_purge: a dead document stays dead.
LEMMA TrackPurgeMoves ==
    ASSUME Tables, NEW o, NEW role, NEW d \in Document, TrackPurge(o, role, d)
    PROVE  AuthorityMoves
<1>1. PICK x : x = document[d]  OBVIOUS
<1>2. PICK y : y = [x EXCEPT !.state = "PURGE_PENDING"]  OBVIOUS
<1>3. document' = [document EXCEPT ![d] = y]
  BY <1>1, <1>2 DEF TrackPurge, Tables
<1>4. x \in DocumentRow /\ x.epoch <= x.epoch
  BY <1>1, DocumentRows
<1>5. y \in DocumentRow /\ y.state = "PURGE_PENDING" /\ y.epoch = x.epoch
  BY <1>2, <1>4 DEF DocumentRow, States
<1>6. x.state \in Dead
  BY <1>1 DEF TrackPurge, Dead
<1>7. PICK h, k : h = grants[d] /\ k = granted[d]  OBVIOUS
<1>8. h = {}
  BY <1>1, <1>6, <1>7 DEF Tables
<1>9. DocumentMoves(x, y, h, h)
  BY <1>4, <1>5, <1>6 DEF DocumentMoves, Dead
<1>10. /\ h \in SUBSET Owner /\ k \in SUBSET Owner /\ h \subseteq k
       /\ grants' = [grants EXCEPT ![d] = h] /\ granted' = [granted EXCEPT ![d] = k]
  BY <1>7, DocumentRows DEF TrackPurge
<1>11. account' = account /\ audit' \in 0 .. AuditLimit /\ audit' > audit
  BY Audited DEF TrackPurge
<1> QED  BY <1>1, <1>3, <1>5, <1>7, <1>8, <1>9, <1>10, <1>11, DocumentChange

\* Every operation on the authority, whoever asks for it.
LEMMA MutationMoves ==
    ASSUME Tables, NEW o, NEW role, Mutation(o, role)
    PROVE  AuthorityMoves
<1>1. CASE \E d \in Document : RegisterDocument(o, role, d) \/ Tombstone(o, role, d) \/ TrackPurge(o, role, d)
  BY <1>1, RegisterDocumentMoves, TombstoneMoves, TrackPurgeMoves
<1>2. CASE \E d \in Document : \E g \in Owner, revoke \in BOOLEAN : Share(o, role, d, g, revoke)
  BY <1>2, ShareMoves
<1>3. CASE \E t \in Owner : DisablePrincipal(o, role, t)
  BY <1>3, DisableMoves
<1> QED  BY <1>1, <1>2, <1>3 DEF Mutation

\* A step that does not touch the authority.
LEMMA StillMoves ==
    ASSUME Tables, UNCHANGED authorityVars
    PROVE  AuthorityMoves
BY RowsStay DEF Tables, AuthorityMoves, authorityVars

-----------------------------------------------------------------------------
(* Snapshots against the tables acc, doc and gr. *)

Sees(s, acc, doc, gr) ==
    /\ acc[s.owner].known /\ ~acc[s.owner].disabled /\ acc[s.owner].role = s.role
    /\ \A d \in DOMAIN s.docs : /\ doc[d].state = "ACTIVE"
                                /\ OwnerOf[d] = s.owner \/ s.role = "admin" \/ s.owner \in gr[d]
Late(s, acc, doc) ==
    s.epoch < acc[s.owner].epoch \/ \E d \in DOMAIN s.docs : s.docs[d] < doc[d].epoch
Early(s, acc, doc) ==
    s.epoch > acc[s.owner].epoch \/ \E d \in DOMAIN s.docs : s.docs[d] > doc[d].epoch

\* The epochs of a snapshot and of the rows it names are numbers (snapshot).
LEMMA EpochTypes ==
    ASSUME Tables, NEW s, IsSnapshot(s)
    PROVE  /\ s.owner \in Owner /\ s.epoch \in Nat /\ account[s.owner].epoch \in Nat
           /\ \A d \in DOMAIN s.docs : d \in Document /\ s.docs[d] \in Nat /\ document[d].epoch \in Nat
<1>1. s.owner \in Owner /\ s.epoch \in Nat /\ s.docs \in [DOMAIN s.docs -> Nat] /\ DOMAIN s.docs \subseteq Document
  BY DEF IsSnapshot
<1>2. \A d \in DOMAIN s.docs : d \in Document /\ s.docs[d] \in Nat
  BY <1>1
<1>3. \A o \in Owner : account[o].epoch \in Nat
  BY DEF Tables, AccountRow
<1>4. \A d \in Document : document[d].epoch \in Nat
  BY DEF Tables, DocumentRow
<1> QED  BY <1>1, <1>2, <1>3, <1>4

\* Epochs only grow: a snapshot that was not ahead never is, and one that is behind stays
\* behind (register, share, tombstone, disable_principal).
LEMMA EpochsGrow ==
    ASSUME Tables, AuthorityMoves, NEW s, IsSnapshot(s)
    PROVE  /\ ~Early(s, account, document) => ~Early(s, account', document')
           /\ Late(s, account, document) => Late(s, account', document')
<1>1. /\ s.owner \in Owner /\ s.epoch \in Nat /\ account[s.owner].epoch \in Nat
      /\ \A d \in DOMAIN s.docs : d \in Document /\ s.docs[d] \in Nat /\ document[d].epoch \in Nat
  BY EpochTypes
<1>2. account'[s.owner].epoch \in Nat /\ account[s.owner].epoch <= account'[s.owner].epoch
  BY <1>1 DEF AuthorityMoves, Tables, AccountRow, AccountMoves
<1>3. \A d \in DOMAIN s.docs : document'[d].epoch \in Nat /\ document[d].epoch <= document'[d].epoch
  BY <1>1 DEF AuthorityMoves, Tables, DocumentRow, DocumentMoves
<1>4. \A x, y, z \in Nat : x <= y /\ y <= z => x <= z
  BY SMTT(60)
<1>5. \A x, y, z \in Nat : x < y /\ y <= z => x < z
  BY SMTT(60)
<1>6. \A x, y \in Nat : ~(x > y) <=> x <= y
  BY SMTT(60)
<1>7. ASSUME ~Early(s, account, document) PROVE ~Early(s, account', document')
  <2>1. s.epoch <= account[s.owner].epoch /\ \A d \in DOMAIN s.docs : s.docs[d] <= document[d].epoch
    BY <1>1, <1>6, <1>7 DEF Early
  <2>2. s.epoch <= account'[s.owner].epoch /\ \A d \in DOMAIN s.docs : s.docs[d] <= document'[d].epoch
    BY <1>1, <1>2, <1>3, <1>4, <2>1
  <2> QED  BY <1>1, <1>2, <1>3, <1>6, <2>2 DEF Early
<1>8. ASSUME Late(s, account, document) PROVE Late(s, account', document')
  BY <1>1, <1>2, <1>3, <1>5, <1>8 DEF Late
<1> QED  BY <1>7, <1>8

\* Whoever loses what a snapshot saw finds it behind afterwards.
LEMMA LossShows ==
    ASSUME Tables, AuthorityMoves, NEW s, IsSnapshot(s), ~Early(s, account, document),
           Sees(s, account, document, grants), ~Sees(s, account', document', grants')
    PROVE  Late(s, account', document')
<1>1. /\ s.owner \in Owner /\ s.epoch \in Nat /\ account[s.owner].epoch \in Nat
      /\ \A d \in DOMAIN s.docs : d \in Document /\ s.docs[d] \in Nat /\ document[d].epoch \in Nat
  BY EpochTypes
<1>2. \A x, y \in Nat : ~(x > y) <=> x <= y
  BY SMTT(60)
<1>3. \A x, y, z \in Nat : x <= y /\ y < z => x < z
  BY SMTT(60)
<1>4. s.epoch <= account[s.owner].epoch /\ \A d \in DOMAIN s.docs : s.docs[d] <= document[d].epoch
  BY <1>1, <1>2 DEF Early
<1>5. account'[s.owner].epoch \in Nat /\ AccountMoves(account[s.owner], account'[s.owner])
  BY <1>1 DEF AuthorityMoves, Tables, AccountRow
<1>6. \A d \in DOMAIN s.docs : /\ document'[d].epoch \in Nat
                               /\ DocumentMoves(document[d], document'[d], grants[d], grants'[d])
  BY <1>1 DEF AuthorityMoves, Tables, DocumentRow
<1>7. \/ account[s.owner].epoch < account'[s.owner].epoch
      \/ account'[s.owner].known /\ ~account'[s.owner].disabled /\ account'[s.owner].role = s.role
  BY <1>5 DEF Sees, AccountMoves
<1>8. CASE account[s.owner].epoch < account'[s.owner].epoch
  BY <1>1, <1>3, <1>4, <1>5, <1>8 DEF Late
<1>9. CASE ~(account[s.owner].epoch < account'[s.owner].epoch)
  <2>1. PICK d \in DOMAIN s.docs :
           ~(document'[d].state = "ACTIVE" /\ (OwnerOf[d] = s.owner \/ s.role = "admin" \/ s.owner \in grants'[d]))
    BY <1>7, <1>9 DEF Sees
  <2>2. document[d].state = "ACTIVE" /\ (OwnerOf[d] = s.owner \/ s.role = "admin" \/ s.owner \in grants[d])
    BY DEF Sees
  <2>3. document[d].epoch < document'[d].epoch
    BY <1>6, <2>1, <2>2 DEF DocumentMoves
  <2>4. s.docs[d] < document'[d].epoch
    BY <1>1, <1>3, <1>4, <1>6, <2>3
  <2> QED  BY <2>4 DEF Late
<1> QED  BY <1>8, <1>9

\* What _revalidate accepts is not behind, and its caller is entitled to it.
LEMMA RevalidatedIsFresh ==
    ASSUME Tables, NEW s, IsSnapshot(s), Revalidates(s)
    PROVE  Sees(s, account, document, grants) /\ ~Late(s, account, document)
<1>1. Sees(s, account, document, grants)
  BY DEF Revalidates, Valid, MayAct, Sees
<1>2. /\ s.owner \in Owner /\ s.epoch \in Nat /\ account[s.owner].epoch \in Nat
      /\ \A d \in DOMAIN s.docs : d \in Document /\ s.docs[d] \in Nat /\ document[d].epoch \in Nat
  BY EpochTypes
<1>3. \A x \in Nat : ~(x < x)
  BY SMTT(60)
<1>4. account[s.owner].epoch = s.epoch /\ \A d \in DOMAIN s.docs : document[d].epoch = s.docs[d]
  BY DEF Revalidates
<1> QED  BY <1>1, <1>2, <1>3, <1>4 DEF Late

\* A snapshot just taken is neither ahead nor behind (snapshot).
LEMMA NewSnapshot ==
    ASSUME Tables, NEW o \in Owner, NEW role \in Roles, NEW docs \in SUBSET Document, NEW s,
           s = Snapshot(o, role, docs)
    PROVE  IsSnapshot(s) /\ s # NoSnapshot /\ ~Early(s, account, document)
<1>1. PICK e, f : e = account[o].epoch /\ f = [d \in docs |-> document[d].epoch]  OBVIOUS
<1>2. s = [owner |-> o, role |-> role, epoch |-> e, docs |-> f]
  BY <1>1 DEF Snapshot
<1>3. s.owner = o /\ s.role = role /\ s.epoch = e /\ s.docs = f
  BY SMTT(60), <1>2
<1>4. e \in Nat
  BY <1>1 DEF Tables, AccountRow
<1>5. DOMAIN f = docs /\ \A d \in docs : f[d] = document[d].epoch /\ f[d] \in Nat
  BY <1>1 DEF Tables, DocumentRow
<1>6. f \in [docs -> Nat]
  BY <1>1, <1>5
<1>7. IsSnapshot(s)
  BY <1>2, <1>3, <1>4, <1>5, <1>6 DEF IsSnapshot
<1>8. NoSnapshot.owner = Free
  BY SMTT(60) DEF NoSnapshot
<1>9. s # NoSnapshot
  BY <1>3, <1>8, AuthorityAssumption
<1>10. \A x \in Nat : ~(x > x)
  BY SMTT(60)
<1>11. ~Early(s, account, document)
  BY <1>1, <1>3, <1>4, <1>5, <1>10 DEF Early
<1> QED  BY <1>7, <1>9, <1>11

-----------------------------------------------------------------------------
(* Requests. *)

Waits == {"register", "snapshot", "refuse", "send"}

\* The locals k of a request: it has a snapshot from its endpoint on.
RequestOK(k) ==
    /\ k = [pc |-> k.pc, snapshot |-> k.snapshot, sent |-> k.sent]
    /\ k.pc \in PCs /\ k.sent \in Nat
    /\ k.snapshot = NoSnapshot \/ IsSnapshot(k.snapshot)
    /\ k.pc \in {"register", "snapshot"} => k.snapshot = NoSnapshot
    /\ k.pc \in {"endpoint", "analyze", "send", "sending"} => k.snapshot # NoSnapshot

\* The inductive invariant: the tables, the requests, the lock, what the epochs remember of
\* revocations, and what is sent.
Requests == request = [q \in Request |-> request[q]] /\ \A q \in Request : RequestOK(request[q])
Locking ==
    /\ \A q \in Request : request[q].pc = "sending" <=> lock = q
    /\ blocked # Free => blocked \in Request /\ request[blocked].pc \in Waits
Remembering ==
    /\ \A q \in Request : request[q].snapshot # NoSnapshot => ~Early(request[q].snapshot, account, document)
    /\ revoked \subseteq Request
    /\ \A q \in revoked : /\ request[q].snapshot # NoSnapshot
                          /\ Late(request[q].snapshot, account, document)
Sending ==
    \A q \in Request : request[q].pc = "sending" =>
        Sees(request[q].snapshot, account, document, grants) /\ q \notin revoked
Inv == Tables /\ Requests /\ Locking /\ Remembering /\ Sending

\* The invariant implies what a run checks (release, correlated_send).
LEMMA ReleaseFollows ==
    ASSUME Inv
    PROVE  ReleaseInv
<1>1. TypeOK
  <2>1. request = [q \in Request |-> [pc |-> request[q].pc, snapshot |-> request[q].snapshot,
                                      sent |-> request[q].sent]]
    BY DEF Inv, Requests, RequestOK
  <2>2. \A q \in Request : /\ request[q].pc \in PCs /\ request[q].sent \in Nat
                           /\ request[q].snapshot = NoSnapshot \/ IsSnapshot(request[q].snapshot)
                           /\ At(q, "sending") <=> lock = q
    BY DEF Inv, Requests, RequestOK, Locking, At
  <2> QED  BY <2>1, <2>2 DEF Inv, Tables, AccountRow, DocumentRow, Locking, Waits, TypeOK
<1>2. NothingSentAfterRevocation
  BY DEF Inv, Sending, Sees, NothingSentAfterRevocation, Entitled, At
<1>3. EpochsRemember
  <2>1. \A q \in Request :
          /\ At(q, "register") \/ At(q, "snapshot") => q \notin Holding
          /\ request[q].pc \in {"endpoint", "analyze", "send", "sending"} => q \in Holding
    BY DEF Inv, Requests, RequestOK, Holding, At
  <2>2. \A q \in Holding : ~Ahead(request[q].snapshot)
    BY DEF Inv, Remembering, Early, Ahead, Holding
  <2>3. revoked \subseteq {q \in Holding : Behind(request[q].snapshot)}
    BY DEF Inv, Remembering, Late, Behind, Holding
  <2> QED  BY <2>1, <2>2, <2>3 DEF EpochsRemember
<1> QED  BY <1>1, <1>2, <1>3 DEF ReleaseInv

\* A request that moves to pc p.
LEMMA GotoFields ==
    ASSUME Inv, NEW q \in Request, NEW p \in PCs, Goto(q, p),
           p \notin {"register", "snapshot", "endpoint", "analyze", "send", "sending"}
              \/ (p \in {"register", "snapshot"} /\ request[q].snapshot = NoSnapshot)
              \/ (p \notin {"register", "snapshot"} /\ request[q].snapshot # NoSnapshot)
    PROVE  /\ Requests' /\ request'[q].pc = p /\ request'[q].snapshot = request[q].snapshot
           /\ \A r \in Request : r # q => request'[r] = request[r]
           /\ \A r \in Request : request'[r].snapshot = request[r].snapshot
<1>1. PICK k, x, n : k = request[q] /\ x = k.snapshot /\ n = k.sent  OBVIOUS
<1>2. RequestOK(k)
  BY <1>1 DEF Inv, Requests
<1>3. PICK c : c = k.pc  OBVIOUS
<1>4. k = [pc |-> c, snapshot |-> x, sent |-> n]
  BY <1>1, <1>2, <1>3 DEF RequestOK
<1>5. PICK m : m = [k EXCEPT !.pc = p]  OBVIOUS
<1>6. m = [pc |-> p, snapshot |-> x, sent |-> n]
  BY SMTT(60), <1>4, <1>5
<1>7. m.pc = p /\ m.snapshot = x /\ m.sent = n
  BY SMTT(60), <1>6
<1>8. request' = [request EXCEPT ![q] = m]
  BY <1>1, <1>5 DEF Goto, Inv, Requests
<1>9. /\ request' = [r \in Request |-> request'[r]] /\ request'[q] = m
      /\ \A r \in Request : r # q => request'[r] = request[r]
  BY <1>8 DEF Inv, Requests
<1>10. RequestOK(m)
  BY <1>1, <1>2, <1>6, <1>7 DEF RequestOK
<1>11. Requests'
  BY <1>9, <1>10 DEF Inv, Requests
<1>12. request'[q].pc = p /\ request'[q].snapshot = request[q].snapshot
  BY <1>1, <1>7, <1>9
<1> QED  BY <1>9, <1>11, <1>12

\* A request takes the snapshot s and moves to pc p.
LEMMA SnapshotFields ==
    ASSUME Inv, NEW q \in Request, NEW p \in {"endpoint", "analyze"}, NEW s, IsSnapshot(s), s # NoSnapshot,
           request' = [request EXCEPT ![q].pc = p, ![q].snapshot = s]
    PROVE  /\ Requests' /\ request'[q].pc = p /\ request'[q].snapshot = s
           /\ \A r \in Request : r # q => request'[r] = request[r]
<1>1. PICK k, x, n : k = request[q] /\ x = k.snapshot /\ n = k.sent  OBVIOUS
<1>2. RequestOK(k)
  BY <1>1 DEF Inv, Requests
<1>3. PICK c : c = k.pc  OBVIOUS
<1>4. k = [pc |-> c, snapshot |-> x, sent |-> n]
  BY <1>1, <1>2, <1>3 DEF RequestOK
<1>5. PICK k1 : k1 = [k EXCEPT !.pc = p]  OBVIOUS
<1>6. k1 = [pc |-> p, snapshot |-> x, sent |-> n]
  BY SMTT(60), <1>4, <1>5
<1>7. PICK m : m = [k1 EXCEPT !.snapshot = s]  OBVIOUS
<1>8. m = [pc |-> p, snapshot |-> s, sent |-> n]
  BY SMTT(60), <1>6, <1>7
<1>9. m.pc = p /\ m.snapshot = s /\ m.sent = n
  BY SMTT(60), <1>8
<1>10. m = [k EXCEPT !.pc = p, !.snapshot = s]
  BY <1>5, <1>7
<1>11. request' = [request EXCEPT ![q] = m]
  BY <1>1, <1>10 DEF Inv, Requests
<1>12. /\ request' = [r \in Request |-> request'[r]] /\ request'[q] = m
       /\ \A r \in Request : r # q => request'[r] = request[r]
  BY <1>11 DEF Inv, Requests
<1>13. RequestOK(m)
  <2>1. n \in Nat
    BY <1>1, <1>2 DEF RequestOK
  <2>2. p \in PCs /\ p \notin {"register", "snapshot"}
    BY DEF PCs
  <2> QED  BY <1>8, <1>9, <2>1, <2>2 DEF RequestOK
<1>14. Requests'
  BY <1>12, <1>13 DEF Inv, Requests
<1> QED  BY <1>9, <1>12, <1>14

\* While nobody sends, a step of q that does not begin to send keeps the lock free and
\* whoever waits for it waiting (correlated_send).
LEMMA UnlockedStep ==
    ASSUME Inv, NEW q \in Request, lock = Free, lock' = Free, blocked' = blocked, blocked # q,
           request'[q].pc # "sending", \A r \in Request : r # q => request'[r] = request[r]
    PROVE  Locking' /\ Sending'
<1>1. \A r \in Request : request[r].pc # "sending" /\ lock # r
  BY ReleaseAssumption DEF Inv, Locking
<1>2. \A r \in Request : request'[r].pc # "sending"
  BY <1>1
<1>3. Locking'
  BY <1>1, <1>2 DEF Inv, Locking
<1> QED  BY <1>2, <1>3 DEF Sending

\* Snapshots stay while the authority moves, and losses are recorded.
LEMMA TrackedStep ==
    ASSUME Inv, AuthorityMoves, Track, \A r \in Request : request'[r].snapshot = request[r].snapshot
    PROVE  Remembering'
<1>1. ASSUME NEW r \in Request, NEW s, s = request[r].snapshot, s # NoSnapshot
      PROVE  IsSnapshot(s) /\ ~Early(s, account, document) /\ ~Early(s, account', document')
  <2>1. IsSnapshot(s)
    BY <1>1 DEF Inv, Requests, RequestOK
  <2>2. ~Early(s, account, document)
    BY <1>1 DEF Inv, Remembering
  <2> QED  BY <2>1, <2>2, EpochsGrow DEF Inv
<1>2. \A r \in Request : request'[r].snapshot # NoSnapshot => ~Early(request'[r].snapshot, account', document')
  BY <1>1
<1>3. revoked' \subseteq Request
  BY DEF Track, Inv, Remembering, Holding
<1>4. ASSUME NEW r \in revoked'
      PROVE  request'[r].snapshot # NoSnapshot /\ Late(request'[r].snapshot, account', document')
  <2>1. PICK s : s = request[r].snapshot  OBVIOUS
  <2>2. r \in Request /\ request'[r].snapshot = s
    BY <1>3, <2>1
  <2>3. CASE r \in revoked
    <3>1. s # NoSnapshot /\ Late(s, account, document)
      BY <2>1, <2>3 DEF Inv, Remembering
    <3>2. Late(s, account', document')
      BY <1>1, <2>1, <2>2, <3>1, EpochsGrow DEF Inv
    <3> QED  BY <2>2, <3>1, <3>2
  <2>4. CASE r \notin revoked
    <3>1. r \in Holding /\ Entitled(r) /\ ~Entitled(r)'
      BY <2>4 DEF Track
    <3>2. s # NoSnapshot
      BY <2>1, <3>1 DEF Holding
    <3>3. Sees(s, account, document, grants)
      BY <2>1, <3>1 DEF Entitled, Sees
    <3>4. ~Sees(s, account', document', grants')
      BY <2>2, <3>1 DEF Entitled, Sees
    <3>5. Late(s, account', document')
      BY <1>1, <2>1, <2>2, <3>2, <3>3, <3>4, LossShows DEF Inv
    <3> QED  BY <2>2, <3>2, <3>5
  <2> QED  BY <2>3, <2>4
<1> QED  BY <1>2, <1>3, <1>4 DEF Remembering

\* Snapshots and epochs stay.
LEMMA QuietStep ==
    ASSUME Inv, UNCHANGED <<account, document>>, revoked' \subseteq revoked,
           \A r \in Request : request'[r].snapshot = request[r].snapshot
    PROVE  Remembering'
BY DEF Inv, Remembering

\* The steps that leave the authority alone or only audit.
LEMMA AuditedOrStill ==
    ASSUME Tables, AuditOnly \/ UNCHANGED authorityVars
    PROVE  AuthorityMoves /\ UNCHANGED <<account, document, grants>>
<1>1. AuthorityMoves
  BY AuditOnlyMoves, StillMoves
<1> QED  BY <1>1 DEF AuditOnly, authorityVars

\* A request moves from a place other than sending to the place p other than sending.
LEMMA PlainStep ==
    ASSUME Inv, NEW q \in Request, NEW p \in PCs \ {"sending"}, Goto(q, p), lock = Free, blocked # q,
           p \notin {"register", "snapshot", "endpoint", "analyze", "send", "sending"}
              \/ (p \in {"register", "snapshot"} /\ request[q].snapshot = NoSnapshot)
              \/ (p \notin {"register", "snapshot"} /\ request[q].snapshot # NoSnapshot),
           AuditOnly \/ UNCHANGED authorityVars, UNCHANGED <<revoked, lock, blocked>>
    PROVE  Inv'
<1>1. /\ Requests' /\ request'[q].pc = p /\ \A r \in Request : r # q => request'[r] = request[r]
      /\ \A r \in Request : request'[r].snapshot = request[r].snapshot
  BY GotoFields
<1>2. AuthorityMoves /\ UNCHANGED <<account, document, grants>>
  BY AuditedOrStill DEF Inv
<1>3. Locking' /\ Sending'
  BY <1>1, UnlockedStep
<1>4. Remembering'
  BY <1>1, <1>2, QuietStep
<1> QED  BY <1>1, <1>2, <1>3, <1>4 DEF Inv, AuthorityMoves

\* snapshot: the epochs of now become those of the request.
LEMMA TakeSnapshot ==
    ASSUME Inv, NEW q \in Request, NEW docs \in SUBSET Document, NEW p \in {"endpoint", "analyze"},
           request' = [request EXCEPT ![q].pc = p, ![q].snapshot = Snapshot(CallerOf[q], RoleOf[q], docs)],
           AuditOnly, lock = Free, blocked # q, UNCHANGED <<lock, blocked>>,
           revoked' \subseteq revoked, q \notin revoked'
    PROVE  Inv'
<1>1. PICK s : s = Snapshot(CallerOf[q], RoleOf[q], docs)  OBVIOUS
<1>2. CallerOf[q] \in Owner /\ RoleOf[q] \in Roles
  BY ReleaseAssumption
<1>3. IsSnapshot(s) /\ s # NoSnapshot /\ ~Early(s, account, document)
  BY <1>1, <1>2, NewSnapshot DEF Inv
<1>4. request' = [request EXCEPT ![q].pc = p, ![q].snapshot = s]
  BY <1>1
<1>5. /\ Requests' /\ request'[q].pc = p /\ request'[q].snapshot = s
      /\ \A r \in Request : r # q => request'[r] = request[r]
  BY <1>3, <1>4, SnapshotFields
<1>6. AuthorityMoves /\ UNCHANGED <<account, document, grants>>
  BY AuditedOrStill DEF Inv
<1>7. request'[q].pc # "sending"
  BY <1>5
<1>8. Locking' /\ Sending'
  BY <1>5, <1>7, UnlockedStep
<1>9. Remembering'
  BY <1>3, <1>5, <1>6 DEF Inv, Remembering
<1> QED  BY <1>5, <1>6, <1>8, <1>9 DEF Inv, AuthorityMoves

\* A step on the event loop is not one of the request that blocks it.
LEMMA LoopIsFree ==
    ASSUME NEW q \in Request, OnLoop(q)
    PROVE  blocked # q
BY ReleaseAssumption DEF OnLoop

\* register: the roles of the caller may change under other requests.
LEMMA RegisterStepKeeps ==
    ASSUME Inv, NEW q \in Request, RegisterStep(q)
    PROVE  Inv'
<1>1. /\ request[q].pc = "register" /\ OnLoop(q) /\ lock = Free /\ lock' = Free /\ blocked' = blocked /\ Track
  BY DEF RegisterStep, At, Unlocked, UnchangedServer
<1>2. blocked # q
  BY <1>1, LoopIsFree
<1>3. request[q].snapshot = NoSnapshot
  BY <1>1 DEF Inv, Requests, RequestOK
<1>4. AuthorityMoves
  <2>1. CallerOf[q] \in Owner /\ RoleOf[q] \in Roles
    BY ReleaseAssumption
  <2> QED  BY <2>1, RegisterMoves, StillMoves DEF RegisterStep, Inv
<1>5. PICK p \in {"snapshot", "refuse"} : Goto(q, p)
  BY DEF RegisterStep
<1>6. p \in PCs /\ p # "sending"
  BY DEF PCs
<1>7. /\ Requests' /\ request'[q].pc = p /\ \A r \in Request : r # q => request'[r] = request[r]
      /\ \A r \in Request : request'[r].snapshot = request[r].snapshot
  BY <1>3, <1>5, <1>6, GotoFields
<1>8. Locking' /\ Sending'
  BY <1>1, <1>2, <1>6, <1>7, UnlockedStep
<1>9. Remembering'
  BY <1>1, <1>4, <1>7, TrackedStep
<1> QED  BY <1>4, <1>7, <1>8, <1>9 DEF Inv, AuthorityMoves

\* The middleware takes its snapshot.
LEMMA SnapshotStepKeeps ==
    ASSUME Inv, NEW q \in Request, SnapshotStep(q)
    PROVE  Inv'
<1>1. /\ request[q].pc = "snapshot" /\ OnLoop(q) /\ lock = Free /\ UNCHANGED <<revoked, lock, blocked>>
  BY DEF SnapshotStep, At, Unlocked, UnchangedServer
<1>2. blocked # q
  BY <1>1, LoopIsFree
<1>3. request[q].snapshot = NoSnapshot
  BY <1>1 DEF Inv, Requests, RequestOK
<1>4. q \notin revoked
  BY <1>3 DEF Inv, Remembering
<1>5. CASE /\ AuditOnly
           /\ request' = [request EXCEPT ![q].pc = "endpoint",
                            ![q].snapshot = Snapshot(CallerOf[q], RoleOf[q], {})]
  BY <1>1, <1>2, <1>4, <1>5, TakeSnapshot
<1>6. CASE Goto(q, "refuse") /\ (AuditOnly \/ UNCHANGED authorityVars)
  <2>1. "refuse" \in PCs \ {"sending"}
    BY DEF PCs
  <2> QED  BY <1>1, <1>2, <1>6, <2>1, PlainStep
<1> QED  BY <1>5, <1>6 DEF SnapshotStep

\* A refusal is audited.
LEMMA RefuseStepKeeps ==
    ASSUME Inv, NEW q \in Request, RefuseStep(q)
    PROVE  Inv'
<1>1. /\ OnLoop(q) /\ lock = Free /\ UNCHANGED <<revoked, lock, blocked>> /\ Goto(q, "done")
      /\ AuditOnly \/ UNCHANGED authorityVars
  BY DEF RefuseStep, Unlocked, UnchangedServer
<1>2. blocked # q
  BY <1>1, LoopIsFree
<1>3. "done" \in PCs \ {"sending"}
  BY DEF PCs
<1> QED  BY <1>1, <1>2, <1>3, PlainStep

\* The endpoint takes the snapshot the response is released under.
LEMMA EndpointStepKeeps ==
    ASSUME Inv, NEW q \in Request, EndpointStep(q)
    PROVE  Inv'
<1>1. /\ request[q].pc = "endpoint" /\ lock = Free /\ UNCHANGED <<lock, blocked>>
  BY DEF EndpointStep, At, Unlocked, UnchangedServer
<1>2. blocked # q
  BY <1>1, ReleaseAssumption DEF Inv, Locking, Waits
<1>3. request[q].snapshot # NoSnapshot
  BY <1>1 DEF Inv, Requests, RequestOK
<1>4. CASE /\ AuditOnly /\ revoked' = revoked \ {q}
           /\ request' = [request EXCEPT ![q].pc = "analyze",
                            ![q].snapshot = Snapshot(CallerOf[q], RoleOf[q], DocsOf[q])]
  <2>1. DocsOf[q] \in SUBSET Document
    BY ReleaseAssumption
  <2>2. revoked' \subseteq revoked /\ q \notin revoked'
    BY <1>4
  <2> QED  BY <1>1, <1>2, <1>4, <2>1, <2>2, TakeSnapshot
<1>5. CASE Goto(q, "send") /\ (AuditOnly \/ UNCHANGED authorityVars) /\ UNCHANGED revoked
  <2>1. "send" \in PCs \ {"sending"}
    BY DEF PCs
  <2> QED  BY <1>1, <1>2, <1>3, <1>5, <2>1, PlainStep
<1> QED  BY <1>4, <1>5 DEF EndpointStep

\* The analysis ends with a revalidation.
LEMMA AnalyzeStepKeeps ==
    ASSUME Inv, NEW q \in Request, AnalyzeStep(q)
    PROVE  Inv'
<1>1. /\ request[q].pc = "analyze" /\ lock = Free /\ UNCHANGED <<revoked, lock, blocked>>
      /\ UNCHANGED authorityVars
  BY DEF AnalyzeStep, At, Unlocked, UnchangedServer
<1>2. blocked # q
  BY <1>1, ReleaseAssumption DEF Inv, Locking, Waits
<1>3. request[q].snapshot # NoSnapshot
  BY <1>1 DEF Inv, Requests, RequestOK
<1>4. PICK p \in {"send", "deny"} : Goto(q, p)
  BY DEF AnalyzeStep
<1>5. p \in PCs \ {"sending"} /\ p \notin {"register", "snapshot"}
  BY DEF PCs
<1> QED  BY <1>1, <1>2, <1>3, <1>4, <1>5, PlainStep

\* A request that is denied ends.
LEMMA DenyStepKeeps ==
    ASSUME Inv, NEW q \in Request, DenyStep(q)
    PROVE  Inv'
<1>1. /\ request[q].pc = "deny" /\ OnLoop(q) /\ UNCHANGED <<account, document, grants, granted, audit>>
      /\ UNCHANGED <<revoked, lock, blocked>> /\ Goto(q, "done")
  BY DEF DenyStep, At, UnchangedServer, authorityVars
<1>2. "done" \in PCs
  BY DEF PCs
<1>3. /\ Requests' /\ request'[q].pc = "done" /\ \A r \in Request : r # q => request'[r] = request[r]
      /\ \A r \in Request : request'[r].snapshot = request[r].snapshot
  BY <1>1, <1>2, GotoFields
<1>4. blocked # q
  BY <1>1, LoopIsFree
<1>5. Locking' /\ Sending'
  BY <1>1, <1>3, <1>4 DEF Inv, Locking, Sending
<1>6. Remembering' /\ Tables'
  BY <1>1, <1>3, QuietStep DEF Inv, Tables
<1> QED  BY <1>3, <1>5, <1>6 DEF Inv

\* correlated_send: the lock is taken for a response whose snapshot is still that of now.
LEMMA SendBeginKeeps ==
    ASSUME Inv, NEW q \in Request, SendBegin(q)
    PROVE  Inv'
<1>1. /\ request[q].pc = "send" /\ OnLoop(q) /\ lock = Free
      /\ UNCHANGED <<account, document, grants, granted, audit, revoked, blocked>>
  BY DEF SendBegin, At, Unlocked, authorityVars
<1>2. blocked # q
  BY <1>1, LoopIsFree
<1>3. /\ request[q].snapshot # NoSnapshot /\ IsSnapshot(request[q].snapshot)
  BY <1>1 DEF Inv, Requests, RequestOK
<1>4. CASE ~Revalidates(request[q].snapshot) /\ Goto(q, "deny") /\ UNCHANGED lock
  <2>1. "deny" \in PCs \ {"sending"}
    BY DEF PCs
  <2>2. UNCHANGED authorityVars /\ UNCHANGED <<revoked, lock, blocked>>
    BY <1>1, <1>4 DEF authorityVars
  <2> QED  BY <1>1, <1>2, <1>3, <1>4, <2>1, <2>2, PlainStep
<1>5. CASE Revalidates(request[q].snapshot) /\ Goto(q, "sending") /\ lock' = q
  <2>1. "sending" \in PCs
    BY DEF PCs
  <2>2. /\ Requests' /\ request'[q].pc = "sending" /\ \A r \in Request : r # q => request'[r] = request[r]
        /\ \A r \in Request : request'[r].snapshot = request[r].snapshot
    BY <1>3, <1>5, <2>1, GotoFields
  <2>3. Sees(request[q].snapshot, account, document, grants) /\ ~Late(request[q].snapshot, account, document)
    BY <1>3, <1>5, RevalidatedIsFresh DEF Inv
  <2>4. q \notin revoked
    BY <2>3 DEF Inv, Remembering
  <2>5. \A r \in Request : request[r].pc # "sending"
    BY <1>1, ReleaseAssumption DEF Inv, Locking
  <2>6. Locking'
    BY <1>1, <1>2, <1>5, <2>2, <2>5 DEF Inv, Locking, OnLoop
  <2>7. Sending'
    BY <1>1, <2>2, <2>3, <2>4, <2>5 DEF Sending
  <2>8. Remembering' /\ Tables'
    BY <1>1, <2>2, QuietStep DEF Inv, Tables
  <2> QED  BY <2>2, <2>6, <2>7, <2>8 DEF Inv
<1> QED  BY <1>4, <1>5 DEF SendBegin

\* A message was sent: the request counts it and goes on.
LEMMA SentFields ==
    ASSUME Inv, NEW q \in Request, NEW p \in {"send", "done"}, request[q].pc = "sending",
           request' = [request EXCEPT ![q].sent = @ + 1, ![q].pc = p]
    PROVE  /\ Requests' /\ request'[q].pc = p /\ request'[q].snapshot = request[q].snapshot
           /\ \A r \in Request : r # q => request'[r] = request[r]
<1>1. PICK k, x, n, i : k = request[q] /\ x = k.snapshot /\ n = k.sent /\ i = n + 1  OBVIOUS
<1>2. RequestOK(k)
  BY <1>1 DEF Inv, Requests
<1>3. PICK c : c = k.pc  OBVIOUS
<1>4. k = [pc |-> c, snapshot |-> x, sent |-> n]
  BY <1>1, <1>2, <1>3 DEF RequestOK
<1>5. PICK k1 : k1 = [k EXCEPT !.sent = i]  OBVIOUS
<1>6. k1 = [pc |-> c, snapshot |-> x, sent |-> i]
  BY SMTT(60), <1>4, <1>5
<1>7. PICK m : m = [k1 EXCEPT !.pc = p]  OBVIOUS
<1>8. m = [pc |-> p, snapshot |-> x, sent |-> i]
  BY SMTT(60), <1>6, <1>7
<1>9. m.pc = p /\ m.snapshot = x /\ m.sent = i
  BY SMTT(60), <1>8
<1>10. m = [k EXCEPT !.sent = @ + 1, !.pc = p]
  BY <1>1, <1>5, <1>7
<1>11. request' = [request EXCEPT ![q] = m]
  BY <1>1, <1>10 DEF Inv, Requests
<1>12. /\ request' = [r \in Request |-> request'[r]] /\ request'[q] = m
       /\ \A r \in Request : r # q => request'[r] = request[r]
  BY <1>11 DEF Inv, Requests
<1>13. RequestOK(m)
  <2>1. n \in Nat /\ (x = NoSnapshot \/ IsSnapshot(x)) /\ x # NoSnapshot
    BY <1>1, <1>2 DEF RequestOK
  <2>2. i \in Nat
    BY SMTT(60), <1>1, <2>1
  <2>3. p \in PCs /\ p \notin {"register", "snapshot"}
    BY DEF PCs
  <2> QED  BY <1>8, <1>9, <2>1, <2>2, <2>3 DEF RequestOK
<1>14. Requests'
  BY <1>12, <1>13 DEF Inv, Requests
<1> QED  BY <1>1, <1>9, <1>12, <1>14

\* The transport took the message or the wait for it ended: the lock is given back.
LEMMA SendEndKeeps ==
    ASSUME Inv, NEW q \in Request, SendEnd(q)
    PROVE  Inv'
<1>1. /\ request[q].pc = "sending" /\ OnLoop(q) /\ lock' = Free
      /\ UNCHANGED <<account, document, grants, granted, audit, revoked, blocked>>
  BY DEF SendEnd, At, authorityVars
<1>2. /\ Requests' /\ request'[q].pc # "sending" /\ request'[q].snapshot = request[q].snapshot
      /\ \A r \in Request : r # q => request'[r] = request[r]
  <2>1. CASE Goto(q, "done")
    <3>1. "done" \in PCs
      BY DEF PCs
    <3> QED  BY <2>1, <3>1, GotoFields
  <2>2. CASE request' = [request EXCEPT ![q].sent = @ + 1,
                          ![q].pc = IF @ = "sending" /\ request[q].sent + 1 < Messages
                                    THEN "send" ELSE "done"]
    <3>1. PICK p : p = IF request[q].pc = "sending" /\ request[q].sent + 1 < Messages
                                    THEN "send" ELSE "done"  OBVIOUS
    <3>2. p \in {"send", "done"}
      BY <3>1
    <3>3. request' = [request EXCEPT ![q].sent = @ + 1, ![q].pc = p]
      BY <2>2, <3>1
    <3> QED  BY <1>1, <3>2, <3>3, SentFields
  <2> QED  BY <2>1, <2>2 DEF SendEnd
<1>3. \A r \in Request : request'[r].pc # "sending"
  BY <1>1, <1>2 DEF Inv, Locking
<1>4. Locking' /\ Sending'
  BY <1>1, <1>3, ReleaseAssumption DEF Locking, Sending, OnLoop
<1>5. \A r \in Request : request'[r].snapshot = request[r].snapshot
  BY <1>2
<1>6. Remembering' /\ Tables'
  BY <1>1, <1>5, QuietStep DEF Inv, Tables
<1> QED  BY <1>2, <1>4, <1>6 DEF Inv

\* A middleware stops the loop on the lock.
LEMMA BlockKeeps ==
    ASSUME Inv, NEW q \in Request, Block(q)
    PROVE  Inv'
<1>1. /\ request[q].pc \in Waits /\ blocked' = q /\ request' = request
      /\ UNCHANGED <<account, document, grants, granted, audit, lock, revoked>>
  BY DEF Block, Waits, authorityVars
<1> QED  BY <1>1 DEF Inv, Tables, Requests, Locking, Remembering, Sending

\* The busy timeout of sqlite lets the loop go on.
LEMMA BusyTimeoutKeeps ==
    ASSUME Inv, NEW q \in Request, BusyTimeout(q)
    PROVE  Inv'
<1>1. /\ blocked = q /\ blocked' = Free
      /\ UNCHANGED <<account, document, grants, granted, audit, lock, revoked>>
  BY DEF BusyTimeout, authorityVars
<1>2. request[q].pc \in Waits
  BY <1>1, ReleaseAssumption DEF Inv, Locking
<1>3. PICK p : Goto(q, p) /\ p \in {"refuse", "done", "deny"}
  <2>1. PICK c : c = request[q].pc  OBVIOUS
  <2>2. Goto(q, CASE c \in {"register", "snapshot"} -> "refuse" [] c = "refuse" -> "done" [] OTHER -> "deny")
    BY <2>1 DEF BusyTimeout
  <2>3. (CASE c \in {"register", "snapshot"} -> "refuse" [] c = "refuse" -> "done" [] OTHER -> "deny")
           \in {"refuse", "done", "deny"}
    BY SMTT(60)
  <2> QED  BY <2>2, <2>3
<1>4. p \in PCs /\ p # "sending" /\ p \notin {"register", "snapshot", "endpoint", "analyze", "send", "sending"}
  BY <1>3 DEF PCs
<1>5. /\ Requests' /\ request'[q].pc = p /\ \A r \in Request : r # q => request'[r] = request[r]
      /\ \A r \in Request : request'[r].snapshot = request[r].snapshot
  BY <1>3, <1>4, GotoFields
<1>6. request[q].pc # "sending"
  BY <1>2 DEF Waits
<1>7. Locking' /\ Sending'
  BY <1>1, <1>4, <1>5, <1>6 DEF Inv, Locking, Sending
<1>8. Remembering' /\ Tables'
  BY <1>1, <1>5, QuietStep DEF Inv, Tables
<1> QED  BY <1>5, <1>7, <1>8 DEF Inv

\* An administrative operation waits for the lock; whoever loses access is recorded.
LEMMA AdministerKeeps ==
    ASSUME Inv, Administer
    PROVE  Inv' /\ AuthorityMoves
<1>1. /\ lock = Free /\ request' = request /\ lock' = lock /\ blocked' = blocked /\ Track
  BY DEF Administer, Unlocked
<1>2. AuthorityMoves
  <2>1. Admin \in Owner /\ "admin" \in Roles
    BY ReleaseAssumption DEF Roles
  <2> QED  BY <2>1, MutationMoves, RegisterMoves, AuditOnlyMoves DEF Administer, Inv
<1>3. \A r \in Request : request[r].pc # "sending"
  BY <1>1, ReleaseAssumption DEF Inv, Locking
<1>4. Requests' /\ Locking' /\ Sending'
  BY <1>1, <1>3 DEF Inv, Requests, Locking, Sending
<1>5. Remembering'
  BY <1>1, <1>2, TrackedStep
<1> QED  BY <1>2, <1>4, <1>5 DEF Inv, AuthorityMoves

-----------------------------------------------------------------------------
(* The theorems. *)

\* Nobody is registered, nothing is published and no request has begun (initialise).
LEMMA InitHolds ==
    ASSUME Init
    PROVE  Inv
<1>1. 0 \in Nat /\ audit \in 0 .. AuditLimit
  BY SMTT(60), AuthorityAssumption DEF Init, AuthorityInit
<1>2. Tables
  <2>1. [known |-> FALSE, role |-> "user", epoch |-> 0, disabled |-> FALSE] \in AccountRow
    BY SMTT(60) DEF AccountRow, Roles
  <2>2. [state |-> "NONE", epoch |-> 0] \in DocumentRow /\ [state |-> "NONE", epoch |-> 0].state \notin Dead
    BY SMTT(60) DEF DocumentRow, States, Dead
  <2>3. account \in [Owner -> AccountRow] /\ document \in [Document -> DocumentRow]
    BY <2>1, <2>2 DEF Init, AuthorityInit
  <2>4. /\ grants \in [Document -> SUBSET Owner] /\ granted \in [Document -> SUBSET Owner]
        /\ \A d \in Document : grants[d] = {} /\ granted[d] = {} /\ document[d].state \notin Dead
    BY <2>2 DEF Init, AuthorityInit
  <2> QED  BY <1>1, <2>3, <2>4 DEF Tables
<1>3. PICK k : k = [pc |-> "register", snapshot |-> NoSnapshot, sent |-> 0]  OBVIOUS
<1>4. k.pc = "register" /\ k.snapshot = NoSnapshot /\ k.sent = 0
  BY SMTT(60), <1>3
<1>5. RequestOK(k)
  BY <1>1, <1>3, <1>4 DEF RequestOK, PCs
<1>6. request = [q \in Request |-> k]
  BY <1>3 DEF Init
<1>7. \A q \in Request : request[q] = k
  BY <1>6
<1>8. Requests
  BY <1>5, <1>6, <1>7 DEF Requests
<1>9. Locking /\ Remembering /\ Sending
  BY <1>4, <1>7, ReleaseAssumption DEF Init, Locking, Remembering, Sending
<1> QED  BY <1>2, <1>8, <1>9 DEF Inv

\* Every step of a request and of the administration keeps the invariant.
LEMMA NextKeeps ==
    ASSUME Inv, [Next]_vars
    PROVE  Inv'
<1>1. CASE UNCHANGED vars
  <2>1. UNCHANGED <<account, document, grants, granted, audit, request, lock, blocked, revoked>>
    BY <1>1 DEF vars, serverVars, authorityVars
  <2> QED  BY <2>1 DEF Inv, Tables, Requests, Locking, Remembering, Sending
<1>2. CASE Administer
  BY <1>2, AdministerKeeps
<1>3. ASSUME NEW q \in Request, Step(q) PROVE Inv'
  BY <1>3, RegisterStepKeeps, SnapshotStepKeeps, RefuseStepKeeps, EndpointStepKeeps, AnalyzeStepKeeps,
     SendBeginKeeps, SendEndKeeps, DenyStepKeeps, BusyTimeoutKeeps DEF Step
<1>4. ASSUME NEW q \in Request, Block(q) PROVE Inv'
  BY <1>4, BlockKeeps
<1> QED  BY <1>1, <1>2, <1>3, <1>4 DEF Next

\* Every step is a transaction of the authority or leaves it alone.
LEMMA NextMoves ==
    ASSUME Inv, [Next]_vars
    PROVE  AuthorityMoves
<1>1. ASSUME UNCHANGED authorityVars PROVE AuthorityMoves
  BY <1>1, StillMoves DEF Inv
<1>2. ASSUME AuditOnly PROVE AuthorityMoves
  BY <1>2, AuditOnlyMoves DEF Inv
<1>3. CASE UNCHANGED vars
  BY <1>1, <1>3 DEF vars
<1>4. CASE Administer
  BY <1>4, AdministerKeeps
<1>5. ASSUME NEW q \in Request, RegisterStep(q) PROVE AuthorityMoves
  <2>1. CallerOf[q] \in Owner /\ RoleOf[q] \in Roles
    BY ReleaseAssumption
  <2> QED  BY <1>1, <1>5, <2>1, RegisterMoves DEF RegisterStep, Inv
<1>6. ASSUME NEW q \in Request, SnapshotStep(q) \/ RefuseStep(q) \/ EndpointStep(q) PROVE AuthorityMoves
  BY <1>1, <1>2, <1>6 DEF SnapshotStep, RefuseStep, EndpointStep
<1>7. ASSUME NEW q \in Request,
             \/ AnalyzeStep(q) \/ SendBegin(q) \/ SendEnd(q) \/ DenyStep(q) \/ BusyTimeout(q) \/ Block(q)
      PROVE  AuthorityMoves
  BY <1>1, <1>7 DEF AnalyzeStep, SendBegin, SendEnd, DenyStep, BusyTimeout, Block
<1> QED  BY <1>3, <1>4, <1>5, <1>6, <1>7 DEF Next, Step

\* A transaction of the authority is audited, and what is deleted stays deleted.
LEMMA MovesAreLawful ==
    ASSUME AuthorityMoves
    PROVE  /\ <<account, document, grants, granted>>' # <<account, document, grants, granted>>
                 => audit' > audit
           /\ \A d \in Document :
                 /\ document'[d].state \in {"TOMBSTONED", "PURGE_PENDING"} => grants'[d] = {}
                 /\ document[d].state \in {"TOMBSTONED", "PURGE_PENDING"} =>
                       /\ document'[d].state \in {"TOMBSTONED", "PURGE_PENDING"}
                       /\ \A o \in Owner, r \in Roles : ~MayAct(o, r, d, "ANALYZE")'
<1>1. ASSUME NEW d \in Document, document[d].state \in Dead
      PROVE  /\ document'[d].state \in Dead
             /\ \A o \in Owner, r \in Roles : ~MayAct(o, r, d, "ANALYZE")'
  <2>1. document'[d].state \in Dead
    BY <1>1 DEF AuthorityMoves, DocumentMoves
  <2> QED  BY <2>1 DEF Dead, MayAct
<1>2. \A d \in Document : document'[d].state \in Dead => grants'[d] = {}
  BY DEF AuthorityMoves, Tables
<1> QED  BY <1>1, <1>2 DEF AuthorityMoves, Dead

\* The inductive invariant holds throughout.
LEMMA InvHolds == ReleaseSpec => []Inv
<1>1. Init => Inv
  BY InitHolds
<1>2. Inv /\ [Next]_vars => Inv'
  BY NextKeeps
<1> QED  BY <1>1, <1>2, PTL DEF ReleaseSpec

\* While a message of a response is handed to the transport its caller is entitled to it and
\* was at every moment since the snapshot; a revocation, also one that was undone, leaves an
\* epoch of the snapshot behind; the lock of the database is held exactly while sending
\* (correlated_send, release, _revalidate).
THEOREM NothingIsReleasedLate == ReleaseSpec => []ReleaseInv
<1>1. Inv => ReleaseInv
  BY ReleaseFollows
<1> QED  BY <1>1, InvHolds, PTL

\* Every change of the authority is audited in its own transaction, and a deleted document
\* keeps no grant and admits nobody again (_audit, tombstone, share, register_document).
THEOREM AuthorityIsLawful == ReleaseSpec => ChangesAreLawful
<1> DEFINE Lawful ==
    /\ <<account, document, grants, granted>>' # <<account, document, grants, granted>>
             => audit' > audit
    /\ \A d \in Document :
          /\ document'[d].state \in {"TOMBSTONED", "PURGE_PENDING"} => grants'[d] = {}
          /\ document[d].state \in {"TOMBSTONED", "PURGE_PENDING"} =>
                /\ document'[d].state \in {"TOMBSTONED", "PURGE_PENDING"}
                /\ \A o \in Owner, r \in Roles : ~MayAct(o, r, d, "ANALYZE")'
<1>1. Inv /\ [Next]_vars => [Lawful]_authorityVars
  BY NextMoves, MovesAreLawful
<1>2. ReleaseSpec => [][Lawful]_authorityVars
  <2> HIDE DEF Lawful
  <2> QED  BY <1>1, InvHolds, PTL DEF ReleaseSpec
<1> QED  BY <1>2 DEF ChangesAreLawful

-----------------------------------------------------------------------------
(* The signing keys. *)

\* KeysInv with the types of what the issuer and the lookups say.
KeysHold ==
    /\ KeysInv /\ published # {} /\ up \in BOOLEAN /\ outage \in BOOLEAN
    /\ verdict = [key |-> verdict.key, is |-> verdict.is]
    /\ verdict.is = "accepted" => verdict.key \in Key

\* Ages stay within their caps, and keep their order.
LEMMA UpFacts ==
    ASSUME NEW cap \in Nat, NEW a \in 0..cap
    PROVE  /\ Up(a, cap) \in 0..cap /\ (a = cap => Up(a, cap) = cap) /\ a <= Up(a, cap)
           /\ \A b \in 0..cap : b <= a => Up(b, cap) <= Up(a, cap)
BY SMTT(60) DEF Up

\* So does the age of the cache stay behind that of the last attempt, until another is allowed.
LEMMA UpOrder ==
    ASSUME NEW c \in Nat, NEW r \in Nat, NEW a \in 0..c, NEW b \in 0..r + 1,
           a <= b \/ b >= r
    PROVE  Up(a, c) <= Up(b, r + 1) \/ Up(b, r + 1) >= r
BY SMTT(60) DEF Up

\* Nothing is cached at the start.
LEMMA KeysStart ==
    ASSUME KeysInit
    PROVE  KeysHold
<1>1. KeysTypeOK
  BY SMTT(60), Settings DEF KeysInit, KeysTypeOK, Expired
<1>2. verdict.is = "none"
  BY SMTT(60) DEF KeysInit, NoVerdict
<1>3. AgesAgree
  BY SMTT(60), Settings DEF KeysInit, AgesAgree
<1>4. WithdrawnKeysDie /\ NeverUnavailable
  BY <1>2 DEF WithdrawnKeysDie, NeverUnavailable
<1>5. verdict = [key |-> verdict.key, is |-> verdict.is]
  BY SMTT(60) DEF KeysInit, NoVerdict
<1> QED  BY <1>1, <1>2, <1>3, <1>4, <1>5 DEF KeysHold, KeysInv, KeysInit

\* Time passes: every age grows, and the last verdict is forgotten.
LEMMA TickKeeps ==
    ASSUME KeysHold, Tick
    PROVE  KeysHold'
<1>1. KeysTypeOK /\ AgesAgree
  BY DEF KeysHold, KeysInv
<1>2. /\ loaded' = Up(loaded, Cache) /\ attempted' = Up(attempted, Refresh + 1)
      /\ quiet' = Up(quiet, Refresh + 1)
      /\ gone' = [k \in Key |-> IF k \in published THEN 0 ELSE Up(gone[k], Cache)]
      /\ verdict' = NoVerdict /\ UNCHANGED <<keys, published, up, outage>>
  BY DEF Tick
<1>3. Cache \in Nat /\ Refresh \in Nat /\ Refresh + 1 \in Nat
  BY SMTT(60), Settings
<1>4. loaded \in 0..Cache /\ attempted \in 0..Refresh + 1 /\ attempted = quiet
  BY <1>1 DEF KeysTypeOK
<1>5. loaded' \in 0..Cache /\ attempted' \in 0..Refresh + 1 /\ attempted' = quiet'
  BY <1>2, <1>3, <1>4, UpFacts
<1>6. \A k \in Key : gone[k] \in 0..Cache /\ Up(gone[k], Cache) \in 0..Cache
  BY <1>1, <1>3, UpFacts DEF KeysTypeOK
<1>7. 0 \in 0..Cache
  BY SMTT(60), <1>3
<1>8. gone' \in [Key -> 0..Cache]
  BY <1>2, <1>6, <1>7
<1>9. Expired => Expired'
  BY <1>2, <1>3, <1>4, UpFacts DEF Expired
<1>10. KeysTypeOK'
  BY <1>1, <1>2, <1>5, <1>8, <1>9 DEF KeysTypeOK
<1>11. \A k \in keys : gone'[k] <= loaded'
  <2> SUFFICES ASSUME NEW k \in keys PROVE gone'[k] <= loaded'
    OBVIOUS
  <2>1. k \in Key /\ gone[k] <= loaded
    BY <1>1 DEF KeysTypeOK, AgesAgree
  <2>2. Up(gone[k], Cache) <= loaded'
    BY <1>2, <1>3, <1>4, <1>6, <2>1, UpFacts
  <2>3. gone'[k] = 0 \/ gone'[k] = Up(gone[k], Cache)
    BY <1>2, <2>1
  <2>4. 0 <= loaded'
    BY SMTT(60), <1>3, <1>5
  <2> QED  BY <2>2, <2>3, <2>4
<1>12. ~outage' => up' /\ (loaded' <= attempted' \/ attempted' >= Refresh)
  BY <1>1, <1>2, <1>3, <1>4, UpOrder DEF AgesAgree
<1>13. AgesAgree'
  BY <1>1, <1>2, <1>11, <1>12 DEF AgesAgree, KeysTypeOK
<1>14. verdict'.is = "none" /\ verdict' = [key |-> verdict'.key, is |-> verdict'.is]
  BY SMTT(60), <1>2 DEF NoVerdict
<1>15. WithdrawnKeysDie' /\ NeverUnavailable'
  BY <1>14 DEF WithdrawnKeysDie, NeverUnavailable
<1> QED  BY <1>2, <1>10, <1>13, <1>14, <1>15 DEF KeysHold, KeysInv

\* The issuer rotates its keys: what is published again was never long gone.
LEMMA RotateKeeps ==
    ASSUME KeysHold, Rotate
    PROVE  KeysHold'
<1>1. KeysTypeOK /\ AgesAgree /\ WithdrawnKeysDie /\ NeverUnavailable
  BY DEF KeysHold, KeysInv
<1>2. /\ published' \subseteq Key /\ published' # {}
      /\ gone' = [k \in Key |-> IF k \in published \cup published' THEN 0 ELSE gone[k]]
      /\ UNCHANGED <<keys, loaded, attempted, quiet, up, outage, verdict>>
  BY DEF Rotate
<1>3. /\ loaded \in 0..Cache /\ keys \subseteq Key
      /\ \A k \in Key : gone[k] \in 0..Cache /\ (gone'[k] = 0 \/ gone'[k] = gone[k])
  BY <1>1, <1>2 DEF KeysTypeOK
<1>4. 0 \in 0..Cache /\ 0 < Cache /\ 0 <= loaded
  BY SMTT(60), Settings, <1>3
<1>5. gone' \in [Key -> 0..Cache]
  BY <1>2, <1>3, <1>4
<1>6. KeysTypeOK'
  BY <1>1, <1>2, <1>5 DEF KeysTypeOK, Expired
<1>7. \A k \in keys : gone'[k] <= loaded
  BY <1>1, <1>3, <1>4 DEF AgesAgree
<1>8. \A k \in published' : gone'[k] = 0
  BY <1>2
<1>9. AgesAgree'
  BY <1>1, <1>2, <1>7, <1>8 DEF AgesAgree
<1>10. WithdrawnKeysDie'
  BY <1>1, <1>2, <1>3, <1>4 DEF WithdrawnKeysDie, KeysHold
<1>11. NeverUnavailable'
  BY <1>1, <1>2 DEF NeverUnavailable
<1> QED  BY <1>2, <1>6, <1>9, <1>10, <1>11 DEF KeysHold, KeysInv

\* The issuer goes down or comes back.
LEMMA OutageKeeps ==
    ASSUME KeysHold, Outage
    PROVE  KeysHold'
<1>1. KeysTypeOK /\ AgesAgree /\ WithdrawnKeysDie
  BY DEF KeysHold, KeysInv
<1>2. outage' = TRUE /\ up' \in BOOLEAN
      /\ UNCHANGED <<keys, loaded, attempted, published, gone, quiet, verdict>>
  BY DEF Outage
<1>3. KeysTypeOK'
  BY <1>1, <1>2 DEF KeysTypeOK, Expired
<1>4. AgesAgree' /\ WithdrawnKeysDie' /\ NeverUnavailable'
  BY <1>1, <1>2 DEF AgesAgree, WithdrawnKeysDie, NeverUnavailable
<1> QED  BY <1>2, <1>3, <1>4 DEF KeysHold, KeysInv

\* A lookup: the cache answers, or refuses to refresh, or refreshes.
LEMMA LookupKeeps ==
    ASSUME KeysHold, NEW k \in Key, Lookup(k)
    PROVE  KeysHold'
<1>1. KeysTypeOK /\ AgesAgree /\ WithdrawnKeysDie /\ NeverUnavailable
  BY DEF KeysHold, KeysInv
<1>2. UNCHANGED issuerVars /\ UNCHANGED <<published, up, outage, gone>>
  BY DEF Lookup, LookupCached, LookupWait, LookupFetch, issuerVars
<1>3. \E is : verdict' = [key |-> k, is |-> is]
  BY DEF Lookup, LookupCached, LookupWait, LookupFetch, Answer
<1>4. verdict' = [key |-> verdict'.key, is |-> verdict'.is] /\ verdict'.key = k
  BY SMTT(60), <1>3
<1>5. 0 < Cache /\ 0 \in 0..Cache /\ 0 \in 0..Refresh + 1 /\ 0 # Cache
  BY SMTT(60), Settings
<1>6. CASE LookupCached(k)
  <2>1. /\ loaded # Cache /\ k \in keys /\ verdict' = [key |-> k, is |-> "accepted"]
        /\ UNCHANGED <<keys, loaded, attempted, quiet>>
    BY <1>6 DEF LookupCached, Expired, Answer
  <2>2. verdict'.is = "accepted"
    BY SMTT(60), <2>1
  <2>3. loaded \in 0..Cache /\ gone[k] \in 0..Cache /\ gone[k] <= loaded
    BY <1>1, <2>1 DEF KeysTypeOK, AgesAgree
  <2>4. gone[k] < Cache
    BY SMTT(60), Settings, <2>1, <2>3
  <2>5. KeysTypeOK' /\ AgesAgree'
    BY <1>1, <1>2, <2>1 DEF KeysTypeOK, AgesAgree, Expired
  <2>6. WithdrawnKeysDie' /\ NeverUnavailable'
    BY <1>2, <1>4, <2>2, <2>4 DEF WithdrawnKeysDie, NeverUnavailable
  <2> QED  BY <1>2, <1>4, <2>5, <2>6 DEF KeysHold, KeysInv
<1>7. CASE LookupWait(k)
  <2>1. /\ ~MayRefresh /\ UNCHANGED <<keys, loaded, attempted, quiet>>
        /\ verdict' = [key |-> k, is |-> IF Expired THEN "unavailable" ELSE "unknown"]
    BY <1>7 DEF LookupWait, Answer
  <2>2. verdict'.is = IF Expired THEN "unavailable" ELSE "unknown"
    BY SMTT(60), <2>1
  <2>3. ASSUME Refresh <= Cache, ~outage PROVE ~Expired
    <3>1. loaded <= attempted \/ attempted >= Refresh
      BY <1>1, <2>3 DEF AgesAgree
    <3>2. loaded \in 0..Cache /\ attempted \in 0..Refresh + 1
      BY <1>1 DEF KeysTypeOK
    <3> QED  BY SMTT(60), Settings, <2>1, <2>3, <3>1, <3>2 DEF MayRefresh, Expired
  <2>4. KeysTypeOK' /\ AgesAgree'
    BY <1>1, <1>2, <2>1 DEF KeysTypeOK, AgesAgree, Expired
  <2>5. WithdrawnKeysDie' /\ NeverUnavailable'
    BY <1>2, <2>2, <2>3 DEF WithdrawnKeysDie, NeverUnavailable
  <2> QED  BY <1>2, <1>4, <2>4, <2>5 DEF KeysHold, KeysInv
<1>8. CASE LookupFetch(k)
  <2>1. attempted' = 0 /\ quiet' = 0
    BY <1>8 DEF LookupFetch
  <2>2. CASE up
    <3>1. /\ keys' = published /\ loaded' = 0
          /\ verdict' = [key |-> k, is |-> IF k \in published THEN "accepted" ELSE "unknown"]
      BY <1>8, <2>2 DEF LookupFetch, Answer
    <3>2. verdict'.is = IF k \in published THEN "accepted" ELSE "unknown"
      BY SMTT(60), <3>1
    <3>3. KeysTypeOK'
      BY <1>1, <1>2, <1>5, <2>1, <3>1 DEF KeysTypeOK, KeysHold
    <3>4. 0 <= 0
      BY SMTT(60)
    <3>5. AgesAgree'
      BY <1>1, <1>2, <2>1, <2>2, <3>1, <3>4 DEF AgesAgree
    <3>6. WithdrawnKeysDie' /\ NeverUnavailable'
      BY <1>1, <1>2, <1>4, <1>5, <3>2 DEF WithdrawnKeysDie, NeverUnavailable, AgesAgree
    <3> QED  BY <1>2, <1>4, <3>3, <3>5, <3>6 DEF KeysHold, KeysInv
  <2>3. CASE ~up
    <3>1. UNCHANGED <<keys, loaded>> /\ verdict' = [key |-> k, is |-> "unavailable"]
      BY <1>8, <2>3 DEF LookupFetch, Answer
    <3>2. verdict'.is = "unavailable" /\ outage
      <4>1. verdict'.is = "unavailable"
        BY SMTT(60), <3>1
      <4> QED  BY <1>1, <2>3, <4>1 DEF AgesAgree
    <3>3. KeysTypeOK'
      BY <1>1, <1>2, <1>5, <2>1, <3>1 DEF KeysTypeOK, Expired
    <3>4. AgesAgree'
      BY <1>1, <1>2, <3>1, <3>2 DEF AgesAgree
    <3>5. WithdrawnKeysDie' /\ NeverUnavailable'
      BY <1>2, <3>2 DEF WithdrawnKeysDie, NeverUnavailable
    <3> QED  BY <1>2, <1>4, <3>3, <3>4, <3>5 DEF KeysHold, KeysInv
  <2> QED  BY <2>2, <2>3
<1> QED  BY <1>6, <1>7, <1>8 DEF Lookup

\* For all settings: a key the issuer withdrew is accepted for less than cache_seconds
\* after it was last published, outages included; while the issuer answers, and the cache
\* lives as long as the pause between refreshes, no token is refused for want of keys
\* (OIDCVerifier._key).
THEOREM KeysAreFresh == KeysSpec => []KeysInv
<1>1. KeysInit => KeysHold
  BY KeysStart
<1>2. KeysHold /\ [KeysNext]_keyVars => KeysHold'
  <2> SUFFICES ASSUME KeysHold, [KeysNext]_keyVars PROVE KeysHold'
    OBVIOUS
  <2>1. CASE UNCHANGED keyVars
    BY <2>1 DEF keyVars, KeysHold, KeysInv, KeysTypeOK, Expired, WithdrawnKeysDie, NeverUnavailable, AgesAgree
  <2> QED  BY <2>1, TickKeeps, RotateKeeps, OutageKeeps, LookupKeeps DEF KeysNext
<1>3. KeysHold => KeysInv
  BY DEF KeysHold
<1> QED  BY <1>1, <1>2, <1>3, PTL DEF KeysSpec

-----------------------------------------------------------------------------
(* The corpus: a snapshot labelled with a version holds every chunk of it. *)

\* The shape of the state, as far as the argument needs it: collections are
\* numbered as they are created, and nobody holds one that does not exist yet.
Shape ==
    /\ created \in Nat /\ coll \in 0..created
    /\ work \in [Operator -> {"idle", "ingest", "reset"}] /\ held \in [Operator -> 0..created]
    /\ target \in [Operator -> Version \cup {None}] /\ todo \in [Operator -> SUBSET Chunk]
    /\ stage \in [Replica -> {"down", "version", "list", "up"}]
    /\ expected \in [Replica -> Version \cup {None}]
    /\ handle \in [Replica -> [id : 0..created, version : Version \cup {None}]]
    /\ loadedVersion \in [Replica -> Version \cup {None}]
    /\ snapshot \in [Replica -> SUBSET Chunk]
    /\ chunks \subseteq Chunk /\ version \in Version \cup {None}

\* The collection holds what is published in it ...
Published == version # None => Corpus[version] \subseteq chunks

\* ... and what an ingestion that still writes to it has written.
Written ==
    \A a \in Operator : work[a] = "ingest" =>
       /\ held[a] # 0
       /\ held[a] = coll => Corpus[target[a]] \ todo[a] \subseteq chunks

\* A replica about to list read its version in the collection it holds.
Listable ==
    \A r \in Replica : stage[r] = "list" =>
       /\ handle[r].id # 0
       /\ (handle[r].id = coll /\ expected[r] # None) => Corpus[expected[r]] \subseteq chunks

CorpusInv == Shape /\ Published /\ Written /\ Listable /\ SnapshotComplete


\* At the start there is no collection, and no replica has a snapshot.
LEMMA InitCorpus == CorpusInit => CorpusInv
  BY SMTT(60) DEF CorpusInit, CorpusInv, Shape, Published, Written, Listable, SnapshotComplete, NoHandle, NewIndex

\* A reset or a new collection: objects held before name another collection.
LEMMA GetOrCreateCorpus ==
  ASSUME Shape, Published, GetOrCreate
  PROVE  /\ created' \in Nat /\ created <= created' /\ coll' \in 0..created' /\ coll' # 0
         /\ chunks' \subseteq Chunk /\ version' \in Version \cup {None}
         /\ Published'
         /\ coll' = coll => chunks' = chunks
         /\ coll' # coll => coll' > created
  BY SMTT(60) DEF Shape, Published, GetOrCreate, store

\* Nobody holds a collection that is yet to be created.
LEMMA HeldExist ==
  ASSUME Shape, created' \in Nat, created <= created'
  PROVE  /\ \A a \in Operator : held[a] \in 0..created
         /\ \A r \in Replica : handle[r].id \in 0..created
         /\ held \in [Operator -> 0..created']
         /\ handle \in [Replica -> [id : 0..created', version : Version \cup {None}]]
<1>1. created \in Nat /\ 0..created \subseteq 0..created'
  BY SMTT(60) DEF Shape
<1>2. held \in [Operator -> 0..created]
  BY DEF Shape
<1>3. handle \in [Replica -> [id : 0..created, version : Version \cup {None}]]
  BY DEF Shape
<1>4. \A r \in Replica : handle[r].id \in 0..created
  BY SMTT(60), <1>3
<1>5. held \in [Operator -> 0..created']
  BY SMTT(60), <1>1, <1>2
<1>6. handle \in [Replica -> [id : 0..created', version : Version \cup {None}]]
  BY SMTT(60), <1>1, <1>3
<1> QED  BY <1>2, <1>4, <1>5, <1>6

\* A command that ends holds nothing, and the others hold what they held (main).
LEMMA EndsCorpus ==
  ASSUME Shape, NEW a \in Operator, Ends(a), NEW n \in Nat, held \in [Operator -> 0..n]
  PROVE  /\ work' \in [Operator -> {"idle", "ingest", "reset"}] /\ held' \in [Operator -> 0..n]
         /\ target' \in [Operator -> Version \cup {None}] /\ todo' \in [Operator -> SUBSET Chunk]
         /\ \A b \in Operator : work'[b] = "ingest" =>
               work[b] = "ingest" /\ held'[b] = held[b] /\ target'[b] = target[b] /\ todo'[b] = todo[b]
<1>1. 0 \in 0..n
  BY SMTT(60)
<1>2. /\ work \in [Operator -> {"idle", "ingest", "reset"}]
      /\ target \in [Operator -> Version \cup {None}] /\ todo \in [Operator -> SUBSET Chunk]
  BY DEF Shape
<1>3. /\ work' = [work EXCEPT ![a] = "idle"] /\ held' = [held EXCEPT ![a] = 0]
      /\ target' = [target EXCEPT ![a] = None] /\ todo' = [todo EXCEPT ![a] = {}]
  BY DEF Ends
<1>4. work' \in [Operator -> {"idle", "ingest", "reset"}] /\ held' \in [Operator -> 0..n]
  BY SMTT(60), <1>1, <1>2, <1>3
<1>5. target' \in [Operator -> Version \cup {None}] /\ todo' \in [Operator -> SUBSET Chunk]
  BY SMTT(60), <1>2, <1>3
<1>6. \A b \in Operator : work'[b] = "ingest" =>
         work[b] = "ingest" /\ held'[b] = held[b] /\ target'[b] = target[b] /\ todo'[b] = todo[b]
  BY SMTT(60), <1>2, <1>3
<1> QED  BY <1>4, <1>5, <1>6

\* An ingestion begins with everything still to be written.
LEMMA IngestCorpus ==
  ASSUME CorpusInv, NEW a \in Operator, NEW v \in Version, Ingest(a, v)
  PROVE  CorpusInv'
<1> USE DEF CorpusInv
<1>1. /\ created' \in Nat /\ created <= created' /\ coll' \in 0..created' /\ coll' # 0
      /\ chunks' \subseteq Chunk /\ version' \in Version \cup {None} /\ Published'
      /\ (coll' = coll => chunks' = chunks) /\ (coll' # coll => coll' > created)
  BY GetOrCreateCorpus DEF Ingest
<1>5. /\ work' = [work EXCEPT ![a] = "ingest"] /\ target' = [target EXCEPT ![a] = v]
      /\ todo' = [todo EXCEPT ![a] = Corpus[v]] /\ held' = [held EXCEPT ![a] = coll']
      /\ UNCHANGED <<stage, expected, loadedVersion, snapshot, handle>>
  BY DEF Ingest, index
<1>6. /\ \A b \in Operator : held[b] \in 0..created
      /\ \A r \in Replica : handle[r].id \in 0..created
      /\ held \in [Operator -> 0..created']
      /\ handle \in [Replica -> [id : 0..created', version : Version \cup {None}]]
  BY <1>1, HeldExist
<1>7. /\ created \in Nat /\ work \in [Operator -> {"idle", "ingest", "reset"}]
      /\ target \in [Operator -> Version \cup {None}] /\ todo \in [Operator -> SUBSET Chunk]
  BY DEF Shape
<1>2. Shape'
  <2>1. Corpus[v] \in SUBSET Chunk
    BY CorpusType
  <2>2. work' \in [Operator -> {"idle", "ingest", "reset"}] /\ held' \in [Operator -> 0..created']
    BY SMTT(60), <1>1, <1>5, <1>6, <1>7
  <2>3. target' \in [Operator -> Version \cup {None}] /\ todo' \in [Operator -> SUBSET Chunk]
    BY SMTT(60), <1>5, <1>7, <2>1
  <2> QED  BY <1>1, <1>5, <1>6, <2>2, <2>3 DEF Shape
<1>3. Written'
  BY SMTT(60), <1>1, <1>5, <1>6, <1>7 DEF Written
<1>4. Listable' /\ SnapshotComplete'
  <2>1. Listable'
    BY SMTT(60), <1>1, <1>5, <1>6, <1>7 DEF Listable
  <2>2. SnapshotComplete'
    BY <1>5 DEF SnapshotComplete
  <2> QED  BY <2>1, <2>2
<1> QED BY <1>1, <1>2, <1>3, <1>4

\* Upserts only add chunks.
LEMMA UpsertCorpus ==
  ASSUME CorpusInv, NEW a \in Operator, NEW c \in Chunk, Upsert(a, c)
  PROVE  CorpusInv'
<1> USE DEF CorpusInv
<1>1. Shape'
  BY DEF Upsert, Shape, index
<1>2. Written'
  BY DEF Upsert, Written, Shape
<1>3. Published' /\ Listable' /\ SnapshotComplete'
  BY DEF Upsert, Published, Listable, SnapshotComplete, Shape, index
<1> QED BY <1>1, <1>2, <1>3

\* Publication comes last: nothing is left to be written.
LEMMA PublishCorpus ==
  ASSUME CorpusInv, NEW a \in Operator, Publish(a)
  PROVE  CorpusInv'
<1> USE DEF CorpusInv
<1>1. Shape'
  BY SMTT(60) DEF Publish, Ends, Shape, index
<1>2. Published'
  BY DEF Publish, Published, Written, Shape
<1>3. Written'
  BY DEF Publish, Ends, Written, Shape
<1>4. Listable' /\ SnapshotComplete'
  BY DEF Publish, Listable, SnapshotComplete, Shape, index
<1> QED BY <1>1, <1>2, <1>3, <1>4

\* Deleting, recreating and giving up: the label goes with its collection.
LEMMA ResetCorpus ==
  ASSUME CorpusInv, NEW a \in Operator, Delete(a) \/ Recreate(a) \/ Abort(a)
  PROVE  CorpusInv'
<1> USE DEF CorpusInv
<1>1. CASE Delete(a)
  <2>1. Shape' /\ Published'
    BY SMTT(60), <1>1 DEF Delete, Shape, Published, index
  <2>2. Written'
    BY <1>1 DEF Delete, Written, Shape
  <2>3. Listable' /\ SnapshotComplete'
    BY <1>1 DEF Delete, Listable, SnapshotComplete, Shape, index
  <2> QED BY <2>1, <2>2, <2>3
<1>2. CASE Recreate(a)
  <2>1. /\ created' \in Nat /\ created <= created' /\ coll' \in 0..created' /\ coll' # 0
        /\ chunks' \subseteq Chunk /\ version' \in Version \cup {None} /\ Published'
        /\ (coll' = coll => chunks' = chunks) /\ (coll' # coll => coll' > created)
    BY <1>2, GetOrCreateCorpus DEF Recreate
  <2>5. Ends(a) /\ UNCHANGED <<stage, expected, loadedVersion, snapshot, handle>>
    BY <1>2 DEF Recreate, index
  <2>6. /\ \A b \in Operator : held[b] \in 0..created
        /\ \A r \in Replica : handle[r].id \in 0..created
        /\ held \in [Operator -> 0..created']
        /\ handle \in [Replica -> [id : 0..created', version : Version \cup {None}]]
    BY <2>1, HeldExist
  <2>7. /\ work' \in [Operator -> {"idle", "ingest", "reset"}] /\ held' \in [Operator -> 0..created']
        /\ target' \in [Operator -> Version \cup {None}] /\ todo' \in [Operator -> SUBSET Chunk]
        /\ \A b \in Operator : work'[b] = "ingest" =>
              work[b] = "ingest" /\ held'[b] = held[b] /\ target'[b] = target[b] /\ todo'[b] = todo[b]
    BY <2>1, <2>5, <2>6, EndsCorpus
  <2>8. created \in Nat
    BY DEF Shape
  <2>2. Shape'
    BY <2>1, <2>5, <2>6, <2>7 DEF Shape
  <2>3. Written'
    BY SMTT(60), <2>1, <2>6, <2>7, <2>8 DEF Written
  <2>4. Listable' /\ SnapshotComplete'
    <3>1. Listable'
      BY SMTT(60), <2>1, <2>5, <2>6, <2>8 DEF Listable
    <3>2. SnapshotComplete'
      BY <2>5 DEF SnapshotComplete
    <3> QED  BY <3>1, <3>2
  <2> QED BY <2>1, <2>2, <2>3, <2>4
<1>3. CASE Abort(a)
  <2>1. /\ Ends(a) /\ UNCHANGED <<coll, created, chunks, version>>
        /\ UNCHANGED <<stage, expected, loadedVersion, snapshot, handle>>
    BY <1>3 DEF Abort, store, index
  <2>2. created \in Nat /\ held \in [Operator -> 0..created]
    BY DEF Shape
  <2>3. /\ work' \in [Operator -> {"idle", "ingest", "reset"}] /\ held' \in [Operator -> 0..created]
        /\ target' \in [Operator -> Version \cup {None}] /\ todo' \in [Operator -> SUBSET Chunk]
        /\ \A b \in Operator : work'[b] = "ingest" =>
              work[b] = "ingest" /\ held'[b] = held[b] /\ target'[b] = target[b] /\ todo'[b] = todo[b]
    BY <2>1, <2>2, EndsCorpus
  <2>4. Shape'
    BY <2>1, <2>3 DEF Shape
  <2>5. Written'
    BY <2>1, <2>3 DEF Written
  <2>6. Published' /\ Listable' /\ SnapshotComplete'
    BY <2>1 DEF Published, Listable, SnapshotComplete
  <2> QED BY <2>4, <2>5, <2>6
<1> QED BY <1>1, <1>2, <1>3

\* Start-up: the version and the chunks are read in one collection.
LEMMA BuildCorpus ==
  ASSUME CorpusInv, NEW r \in Replica,
         ReadVersion(r) \/ List(r) \/ (\E v \in Version : Start(r, v))
  PROVE  CorpusInv'
<1> USE DEF CorpusInv
<1>1. CASE ReadVersion(r)
  <2>1. UNCHANGED <<store, admins, expected, loadedVersion, snapshot>>
    BY <1>1 DEF ReadVersion, WithoutSnapshot
  <2>2. /\ stage' \in [Replica -> {"down", "version", "list", "up"}]
        /\ handle' \in [Replica -> [id : 0..created, version : Version \cup {None}]]
    <3>1. [id |-> coll, version |-> version] \in [id : 0..created, version : Version \cup {None}]
      BY DEF Shape
    <3>2. stage' = [stage EXCEPT ![r] = "up"] \/ stage' = [stage EXCEPT ![r] = "list"]
      BY <1>1 DEF ReadVersion, WithoutSnapshot
    <3>3. handle' = handle \/ handle' = [handle EXCEPT ![r] = [id |-> coll, version |-> version]]
      BY <1>1 DEF ReadVersion, WithoutSnapshot, Refreshed
    <3>4. stage' \in [Replica -> {"down", "version", "list", "up"}]
      BY <3>2 DEF Shape
    <3>5. handle \in [Replica -> [id : 0..created, version : Version \cup {None}]]
      BY DEF Shape
    <3>6. handle' \in [Replica -> [id : 0..created, version : Version \cup {None}]]
      BY <3>1, <3>3, <3>5
    <3> QED BY <3>4, <3>6
  <2>5. Shape'
    BY <2>1, <2>2 DEF Shape, store, admins
  <2>3. Published' /\ Written' /\ SnapshotComplete'
    BY <2>1 DEF Published, Written, SnapshotComplete, store, admins
  <2>4. Listable'
    <3>1. /\ UNCHANGED <<coll, chunks, version, expected>>
          /\ version # None => Corpus[version] \subseteq chunks
      BY <2>1 DEF store, Published
    <3>2. /\ stage \in [Replica -> {"down", "version", "list", "up"}]
          /\ handle \in [Replica -> [id : 0..created, version : Version \cup {None}]]
      BY DEF Shape
    <3>3. \A s \in Replica : s # r => stage'[s] = stage[s] /\ handle'[s] = handle[s]
      <4>1. stage' = [stage EXCEPT ![r] = "up"] \/ stage' = [stage EXCEPT ![r] = "list"]
        BY <1>1 DEF ReadVersion, WithoutSnapshot
      <4>2. handle' = handle \/ handle' = [handle EXCEPT ![r] = Refreshed(r)]
        BY <1>1 DEF ReadVersion
      <4> QED  BY <3>2, <4>1, <4>2
    <3>4. stage'[r] = "list" => handle'[r] = Refreshed(r) /\ coll # 0 /\ handle'[r].version = expected[r]
      <4>1. CASE stage' = [stage EXCEPT ![r] = "up"]
        BY SMTT(60), <3>2, <4>1
      <4>2. CASE /\ coll # 0 /\ handle' = [handle EXCEPT ![r] = Refreshed(r)]
                 /\ handle'[r].version = expected[r]
        BY <3>2, <4>2
      <4> QED  BY <1>1, <4>1, <4>2 DEF ReadVersion, WithoutSnapshot
    <3>5. ASSUME stage'[r] = "list"
          PROVE  /\ handle'[r].id = coll /\ coll # 0
                 /\ expected[r] # None => Corpus[expected[r]] \subseteq chunks
      <4>1. handle'[r].id = coll /\ handle'[r].version = version
        BY SMTT(60), <3>4, <3>5 DEF Refreshed
      <4> QED  BY <3>1, <3>4, <3>5, <4>1
    <3>6. ASSUME NEW s \in Replica, stage'[s] = "list"
          PROVE  /\ handle'[s].id # 0
                 /\ (handle'[s].id = coll' /\ expected'[s] # None) => Corpus[expected'[s]] \subseteq chunks'
      BY <3>1, <3>3, <3>5, <3>6 DEF Listable
    <3> QED  BY <3>6 DEF Listable
  <2> QED BY <2>3, <2>4, <2>5
<1>2. CASE List(r)
  <2>1. UNCHANGED <<store, admins, expected, handle>>
    <3>1. CASE WithoutSnapshot(r) /\ UNCHANGED handle
      BY <3>1 DEF WithoutSnapshot
    <3>2. CASE UNCHANGED <<store, admins, expected, handle, probe, ready, faults>>
      BY <3>2
    <3> QED BY <1>2, <3>1, <3>2, ZenonT(60) DEF List
  <2>2. /\ stage' \in [Replica -> {"down", "version", "list", "up"}]
        /\ loadedVersion' \in [Replica -> Version \cup {None}]
        /\ snapshot' \in [Replica -> SUBSET Chunk]
    <3>1. stage' = [stage EXCEPT ![r] = "up"]
      BY <1>2 DEF List, WithoutSnapshot
    <3>2. \/ loadedVersion' = loadedVersion /\ snapshot' = snapshot
          \/ /\ loadedVersion' = [loadedVersion EXCEPT ![r] = expected[r]]
             /\ snapshot' = [snapshot EXCEPT ![r] = chunks]
      BY <1>2 DEF List, WithoutSnapshot
    <3>3. expected[r] \in Version \cup {None} /\ chunks \in SUBSET Chunk
      BY DEF Shape
    <3> QED BY <3>1, <3>2, <3>3 DEF Shape
  <2>5. Shape'
    BY <2>1, <2>2 DEF Shape, store, admins
  <2>3. Published' /\ Written'
    BY <2>1 DEF Published, Written, store, admins
  <2>6. /\ stage[r] = "list" /\ stage' = [stage EXCEPT ![r] = "up"]
        /\ \/ loadedVersion' = loadedVersion /\ snapshot' = snapshot
           \/ /\ handle[r].id = coll /\ loadedVersion' = [loadedVersion EXCEPT ![r] = expected[r]]
              /\ snapshot' = [snapshot EXCEPT ![r] = chunks]
    BY <1>2 DEF List, WithoutSnapshot
  <2>7. UNCHANGED <<coll, chunks, expected, handle>>
    BY <2>1 DEF store
  <2>8. /\ stage \in [Replica -> {"down", "version", "list", "up"}]
        /\ loadedVersion \in [Replica -> Version \cup {None}] /\ snapshot \in [Replica -> SUBSET Chunk]
    BY DEF Shape
  <2>4. Listable'
    <3>1. \A s \in Replica : stage'[s] = "list" => stage[s] = "list"
      BY <2>6, <2>8
    <3> QED  BY <2>7, <3>1 DEF Listable
  <2>9. SnapshotComplete'
    <3>1. CASE loadedVersion' = loadedVersion /\ snapshot' = snapshot
      BY <3>1 DEF SnapshotComplete
    <3>2. CASE /\ handle[r].id = coll /\ loadedVersion' = [loadedVersion EXCEPT ![r] = expected[r]]
               /\ snapshot' = [snapshot EXCEPT ![r] = chunks]
      <4>1. expected[r] # None => Corpus[expected[r]] \subseteq chunks
        BY <2>6, <3>2 DEF Listable
      <4>2. loadedVersion'[r] = expected[r] /\ snapshot'[r] = chunks
        BY <2>8, <3>2
      <4>3. \A s \in Replica : s # r => loadedVersion'[s] = loadedVersion[s] /\ snapshot'[s] = snapshot[s]
        BY <2>8, <3>2
      <4>4. ASSUME NEW s \in Replica, loadedVersion'[s] # None
            PROVE  Corpus[loadedVersion'[s]] \subseteq snapshot'[s]
        BY <4>1, <4>2, <4>3, <4>4 DEF SnapshotComplete
      <4> QED  BY <4>4 DEF SnapshotComplete
    <3> QED  BY <2>6, <3>1, <3>2
  <2> QED BY <2>3, <2>4, <2>5, <2>9
<1>3. CASE \E v \in Version : Start(r, v)
  <2>1. PICK v \in Version : Start(r, v)
    BY <1>3
  <2>2. /\ UNCHANGED <<coll, created, chunks, version, work, held, target, todo>>
        /\ UNCHANGED <<loadedVersion, snapshot, handle>>
    BY <2>1 DEF Start, store, admins
  <2>3. stage' = [stage EXCEPT ![r] = "version"] /\ expected' = [expected EXCEPT ![r] = v]
    BY <2>1 DEF Start
  <2>4. Shape'
    BY <2>2, <2>3 DEF Shape
  <2>5. Published' /\ Written'
    BY <2>2 DEF Published, Written
  <2>6. Listable'
    BY <2>2, <2>3 DEF Listable, Shape
  <2>7. SnapshotComplete'
    BY <2>2 DEF SnapshotComplete
  <2> QED BY <2>4, <2>5, <2>6, <2>7
<1> QED BY <1>1, <1>2, <1>3

\* Serving and probing touch neither the store nor the snapshot.
LEMMA ServeCorpus ==
  ASSUME CorpusInv, NEW r \in Replica,
         ProbeCount(r) \/ ProbeVersion(r) \/ ProbeFails(r) \/ Query(r) \/ Stop(r)
  PROVE  CorpusInv'
<1> USE DEF CorpusInv
<1>1. CASE ProbeCount(r) \/ ProbeVersion(r) \/ ProbeFails(r) \/ Query(r)
  <2> DEFINE found == [id |-> coll, version |-> version]
  <2>1. UNCHANGED <<store, admins, index>> /\ stage[r] = "up"
    <3>1. CASE ProbeCount(r) BY <3>1 DEF ProbeCount
    <3>2. CASE ProbeVersion(r) BY <3>2 DEF ProbeVersion
    <3>3. CASE ProbeFails(r) BY <3>3 DEF ProbeFails
    <3>4. CASE Query(r) BY <3>4 DEF Query
    <3> QED BY <1>1, <3>1, <3>2, <3>3, <3>4
  <2>2. /\ handle' \in [Replica -> [id : 0..created, version : Version \cup {None}]]
        /\ \A s \in Replica : s # r => handle'[s] = handle[s]
    <3>1. found \in [id : 0..created, version : Version \cup {None}]
      BY DEF Shape
    <3>2. handle \in [Replica -> [id : 0..created, version : Version \cup {None}]]
      BY DEF Shape
    <3>3. CASE ProbeCount(r)
      <4>1. \/ handle' = handle
            \/ handle' = [handle EXCEPT ![r] = IF handle[r] = NoHandle THEN found ELSE handle[r]]
        BY <3>3, ZenonT(30) DEF ProbeCount
      <4> HIDE DEF found
      <4> QED BY <3>1, <3>2, <4>1
    <3>4. CASE ProbeVersion(r) \/ ProbeFails(r) \/ Query(r)
      <4>1. handle' = handle \/ handle' = [handle EXCEPT ![r] = found]
        <5>1. CASE ProbeVersion(r) BY <5>1, ZenonT(30) DEF ProbeVersion, Refreshed
        <5>2. CASE ProbeFails(r) BY <5>2 DEF ProbeFails
        <5>3. CASE Query(r) BY <5>3 DEF Query
        <5> QED BY <3>4, <5>1, <5>2, <5>3
      <4> HIDE DEF found
      <4> QED BY <3>1, <3>2, <4>1
    <3> QED BY <1>1, <3>3, <3>4
  <2>3. /\ UNCHANGED <<coll, created, chunks, version, work, held, target, todo>>
        /\ UNCHANGED <<stage, expected, loadedVersion, snapshot>>
    BY <2>1 DEF store, admins, index
  <2>4. Shape'
    BY <2>2, <2>3 DEF Shape
  <2>5. Published' /\ Written'
    BY <2>3 DEF Published, Written
  <2>6. Listable'
    BY <2>1, <2>2, <2>3 DEF Listable
  <2>7. SnapshotComplete'
    BY <2>3 DEF SnapshotComplete
  <2> QED BY <2>4, <2>5, <2>6, <2>7
<1>2. CASE Stop(r)
  <2>1. /\ UNCHANGED <<coll, created, chunks, version, work, held, target, todo>>
        /\ stage' = [stage EXCEPT ![r] = "down"] /\ expected' = [expected EXCEPT ![r] = None]
        /\ handle' = [handle EXCEPT ![r] = NoHandle]
        /\ loadedVersion' = [loadedVersion EXCEPT ![r] = None]
        /\ snapshot' = [snapshot EXCEPT ![r] = NewIndex]
    BY <1>2 DEF Stop, store, admins
  <2>2. NoHandle \in [id : 0..created, version : Version \cup {None}] /\ NewIndex \in SUBSET Chunk
    BY SMTT(60) DEF NoHandle, NewIndex, Shape
  <2>3. Shape'
    BY <2>1, <2>2 DEF Shape
  <2>8. UNCHANGED <<coll, created, chunks, version, work, held, target, todo>>
    BY <2>1
  <2>4. Published' /\ Written'
    BY <2>8 DEF Published, Written
  <2>5. \A s \in Replica : s # r => /\ stage'[s] = stage[s] /\ expected'[s] = expected[s] /\ handle'[s] = handle[s]
                                  /\ loadedVersion'[s] = loadedVersion[s] /\ snapshot'[s] = snapshot[s]
    BY <2>1 DEF Shape
  <2>6. stage'[r] # "list" /\ loadedVersion'[r] = None
    BY <2>1 DEF Shape
  <2>7. Listable' /\ SnapshotComplete'
    BY <2>1, <2>5, <2>6 DEF Listable, SnapshotComplete
  <2> QED BY <2>3, <2>4, <2>7
<1> QED BY <1>1, <1>2

\* A snapshot labelled with a version is complete, for any corpus, any number of
\* replicas and commands, and any interleaving with resets and failures
\* (build_bm25, ingest_documents).
THEOREM SnapshotsAreComplete ==
  RetrievalSpec => []SnapshotComplete
<1>1. CorpusInv /\ [CorpusNext]_corpusVars => CorpusInv'
  <2> SUFFICES ASSUME CorpusInv, [CorpusNext]_corpusVars PROVE CorpusInv'
    OBVIOUS
  <2>1. CASE \E a \in Operator : Command(a)
    BY <2>1, IngestCorpus, UpsertCorpus, PublishCorpus, ResetCorpus DEF Command
  <2>2. CASE \E r \in Replica : \/ Serve(r) \/ Query(r) \/ Stop(r) \/ ProbeFails(r)
                                \/ \E v \in Version : Start(r, v)
    BY <2>2, BuildCorpus, ServeCorpus DEF Serve
  <2>3. CASE UNCHANGED corpusVars
    BY <2>3 DEF corpusVars, store, admins, index, CorpusInv, Shape, Published, Written, Listable,
                SnapshotComplete
  <2> QED BY <2>1, <2>2, <2>3 DEF CorpusNext
<1>2. CorpusInv => SnapshotComplete
  BY DEF CorpusInv
<1> QED BY InitCorpus, <1>1, <1>2, PTL DEF RetrievalSpec
==============================================================================
