-------------------------- MODULE PublicationProofs --------------------------
(* The publication authority, its administrators and replicas, for any number of
   documents, administrators, replicas, requests and losses; and one key of the object store,
   for any number of puts, contents, failed calls, process deaths and power losses. *)
EXTENDS Publication, ObjectStore, FiniteSetTheorems, TLAPS

\* A proof leaf is sent to Zenon unless it names another prover.
USE ZenonT(60)

\* What a generation is: its versions and the complete pointer it was planned on.
Generation(g) ==
    /\ g = [versions |-> g.versions, base |-> g.base]
    /\ g.versions \subseteq Version
    /\ g.base.epoch \in Nat

\* The pointer to the newest of the activations acts.
PointerTo(acts) ==
    [generation |-> IF acts = << >> THEN NoGeneration ELSE acts[Len(acts)].generation,
     epoch |-> Len(acts)]

\* What the tables of the authority say together.  A generation is accepted for the
\* first time at the epoch after its base, so two with one base are the same.
AuthorityOK(act, cands, acts) ==
    /\ \E S : acts \in Seq(S)
    /\ act = PointerTo(acts) /\ Len(acts) <= MaxEpoch
    /\ \A i \in 1 .. Len(acts) : /\ acts[i].generation \in DOMAIN cands
                                 /\ cands[acts[i].generation] = "ACCEPTED"
    /\ \A g \in DOMAIN cands :
          /\ Generation(g) /\ cands[g] \in CandidateState
          /\ cands[g] = "ACCEPTED" => /\ g.base.epoch + 1 \in 1 .. Len(acts)
                                      /\ acts[g.base.epoch + 1].generation = g

\* All rows of a generation are written.
Written(g, rs) == \A v \in g.versions : <<g, v>> \in rs

\* What the stores hold.
StoresOK(cands, mans, rs, ok, lost) ==
    /\ lost \in 0 .. MaxFaults /\ ok \subseteq Version /\ (lost = 0 => ok = Version)
    /\ DOMAIN cands \subseteq DOMAIN mans
    /\ \A g \in DOMAIN mans : mans[g] \subseteq Job
    /\ \A row \in rs : row[2] \in row[1].versions
    /\ lost = 0 => \A g \in DOMAIN cands : cands[g] \in {"READY", "ACCEPTED"} => Written(g, rs)

\* The locals of an administrator are a record with these fields.
IsLocals(l) ==
    l = [pc |-> l.pc, generation |-> l.generation, jobs |-> l.jobs, todo |-> l.todo,
         expected |-> l.expected, revoking |-> l.revoking]

\* What an administrator with the locals l knows: known are the candidates, put the
\* manifests, rs the rows and lost the number of losses.
LocalsOK(l, known, put, rs, lost) ==
    /\ IsLocals(l) /\ l.jobs \subseteq Job
    /\ l.pc = "idle" => l = IdleAdmin
    /\ l.pc \notin {"idle", "revoke"} => Generation(l.generation)
    /\ l.pc = "register" => l.generation \in put
    /\ l.pc \notin {"idle", "revoke", "put", "register"} => l.generation \in known
    /\ l.pc = "write" =>
          /\ l.todo \subseteq l.generation.versions
          /\ lost = 0 => \A v \in l.generation.versions : v \in l.todo \/ <<l.generation, v>> \in rs
    /\ l.pc = "mark" /\ lost = 0 => Written(l.generation, rs)
    /\ l.pc = "revoke" => l.revoking \cap Documents({VersionOf[j] : j \in l.jobs}) = {}
    /\ l.pc \notin {"idle", "revoke"} => l.revoking \cap Documents(l.generation.versions) = {}

\* What an admitted request holds.
RequestOK(q, cands, acts) ==
    q.pc # "idle" =>
       /\ q.epoch \in 1 .. Len(acts) /\ acts[q.epoch].generation = q.generation
       /\ q.generation \in DOMAIN cands /\ cands[q.generation] = "ACCEPTED"
       /\ q.cited \subseteq Selected(q.generation, q.documents)

\* The locals of a request are a record with these fields.
IsRequest(q) ==
    q = [pc |-> q.pc, generation |-> q.generation, epoch |-> q.epoch, documents |-> q.documents,
         cited |-> q.cited]

\* The inductive invariant.
Authority == AuthorityOK(active, candidates, activations)
Stores == StoresOK(candidates, manifests, rows, intact, faults)
Admins == /\ admin = [a \in Admin |-> admin[a]]
          /\ \A a \in Admin : LocalsOK(admin[a], DOMAIN candidates, DOMAIN manifests, rows, faults)
Requests == /\ request = [q \in Request |-> request[q]]
            /\ \A q \in Request : IsRequest(request[q]) /\ RequestOK(request[q], candidates, activations)
Inv == Authority /\ Stores /\ Admins /\ Requests

-----------------------------------------------------------------------------
(* Sequences. *)

\* The length and the domain of a sequence such as the audit table (authority.activations).
LEMMA LenFacts ==
    ASSUME NEW S, NEW s \in Seq(S)
    PROVE  Len(s) \in Nat /\ DOMAIN s = 1 .. Len(s) /\ (s = << >> <=> Len(s) = 0)
BY SMTT(60)

\* What appending a row to the audit table does.
LEMMA AppendFacts ==
    ASSUME NEW S, NEW s \in Seq(S), NEW x
    PROVE  /\ Append(s, x) \in Seq(S \cup {x})
           /\ Len(Append(s, x)) = Len(s) + 1
           /\ \A i \in 1 .. Len(s) : Append(s, x)[i] = s[i]
           /\ Append(s, x)[Len(s) + 1] = x
<1>1. s \in Seq(S \cup {x}) /\ x \in S \cup {x}  BY SMTT(60)
<1> QED  BY SMTT(60), <1>1

-----------------------------------------------------------------------------
(* The invariant implies what the model checker checks. *)

\* The invariant implies what a run checks of the authority and the stores (authority.activate,
\* prepare).
LEMMA PublicationFollows ==
    ASSUME Inv
    PROVE  PublicationInv
<1>1. PICK S : activations \in Seq(S)
  BY DEF Inv, Authority, AuthorityOK
<1>2. /\ Len(activations) \in Nat /\ DOMAIN activations = 1 .. Len(activations)
      /\ activations = << >> <=> Len(activations) = 0
  BY <1>1, LenFacts
<1>3. active = PointerTo(activations) /\ Len(activations) <= MaxEpoch
  BY DEF Inv, Authority, AuthorityOK
<1>4. \A g \in DOMAIN candidates :
          /\ Generation(g) /\ candidates[g] \in CandidateState
          /\ candidates[g] = "ACCEPTED" => activations[g.base.epoch + 1].generation = g
  BY DEF Inv, Authority, AuthorityOK
<1>5. TypeOK
  <2>1. active.epoch = Len(activations) /\ active.epoch <= MaxEpoch
    BY <1>3 DEF PointerTo
  <2>2. active.generation = IF activations = << >> THEN NoGeneration
                            ELSE activations[Len(activations)].generation
    BY <1>3 DEF PointerTo
  <2>3. \A g \in DOMAIN candidates : candidates[g] \in CandidateState /\ g.versions \subseteq Version
    BY <1>4 DEF Generation
  <2>4. /\ \A g \in DOMAIN manifests : manifests[g] \subseteq Job
        /\ \A row \in rows : row[2] \in row[1].versions
        /\ intact \subseteq Version /\ faults \in 0 .. MaxFaults
    BY DEF Inv, Stores, StoresOK
  <2> QED  BY <2>1, <2>2, <2>3, <2>4 DEF TypeOK
<1>6. OneWinnerPerBase
  <2> SUFFICES ASSUME NEW g \in DOMAIN candidates, NEW h \in DOMAIN candidates,
                      candidates[g] = "ACCEPTED", candidates[h] = "ACCEPTED", g.base = h.base
               PROVE  g = h
    BY DEF OneWinnerPerBase
  <2> QED  BY <1>4
<1>7. ReadyIsComplete
  <2> SUFFICES ASSUME faults = 0, NEW g \in DOMAIN candidates, candidates[g] \in {"READY", "ACCEPTED"}
               PROVE  Intact(g)
    BY DEF ReadyIsComplete
  <2>1. /\ intact = Version /\ g \in DOMAIN manifests /\ \A v \in g.versions : <<g, v>> \in rows
    BY DEF Inv, Stores, StoresOK, Written
  <2> QED  BY <1>4, <2>1 DEF Intact, Validates, Generation
<1>8. CandidatesHaveManifests
  BY DEF Inv, Stores, StoresOK, CandidatesHaveManifests
<1> QED  BY <1>5, <1>6, <1>7, <1>8 DEF PublicationInv

\* The invariant implies what a run checks of admitted requests (pin, validate_pin).
LEMMA AdmittedFollows ==
    ASSUME Inv
    PROVE  AdmittedIsAnswered
<1>1. PinnedStaysServable
  <2> SUFFICES ASSUME faults = 0, NEW q \in Request, request[q].pc \in {"pinned", "retrieved", "generating"}
               PROVE  ValidatePin(q)
    BY DEF PinnedStaysServable
  <2>1. PICK g : g = request[q].generation  OBVIOUS
  <2>2. g \in DOMAIN candidates /\ candidates[g] = "ACCEPTED"
    BY <2>1 DEF Inv, Requests, RequestOK
  <2>3. Intact(g)
    BY <2>2, PublicationFollows DEF PublicationInv, ReadyIsComplete
  <2>4. Selected(g, request[q].documents) \subseteq g.versions
    BY DEF Selected
  <2> QED  BY <2>1, <2>3, <2>4 DEF Intact, Validates, ValidatePin
<1>2. AnswersFromAdmittedEpoch
  BY DEF AnswersFromAdmittedEpoch, Inv, Requests, RequestOK
<1> QED  BY <1>1, <1>2 DEF AdmittedIsAnswered

-----------------------------------------------------------------------------
(* Administrators. *)

\* The locals with the fields p, g, j, t, x and r.
LocalsOf(p, g, j, t, x, r) ==
    [pc |-> p, generation |-> g, jobs |-> j, todo |-> t, expected |-> x, revoking |-> r]

\* The locals of an operation read back (PublicationService).
LEMMA FieldsOfLocals ==
    ASSUME NEW p, NEW g, NEW j, NEW t, NEW x, NEW r, NEW m, m = LocalsOf(p, g, j, t, x, r)
    PROVE  /\ IsLocals(m) /\ m.pc = p /\ m.generation = g /\ m.jobs = j /\ m.todo = t
           /\ m.expected = x /\ m.revoking = r
BY SMTT(60) DEF LocalsOf, IsLocals

\* The updates the operations make.
LEMMA UpdatedLocals ==
    ASSUME NEW l, IsLocals(l)
    PROVE  /\ \A p : [l EXCEPT !.pc = p] =
                       LocalsOf(p, l.generation, l.jobs, l.todo, l.expected, l.revoking)
           /\ \A t : [l EXCEPT !.todo = t] =
                       LocalsOf(l.pc, l.generation, l.jobs, t, l.expected, l.revoking)
           /\ \A p, g : [l EXCEPT !.pc = p, !.generation = g] =
                       LocalsOf(p, g, l.jobs, l.todo, l.expected, l.revoking)
           /\ \A p, t : [l EXCEPT !.pc = p, !.todo = t] =
                       LocalsOf(p, l.generation, l.jobs, t, l.expected, l.revoking)
           /\ \A p, g, j : [l EXCEPT !.pc = p, !.generation = g, !.jobs = j] =
                       LocalsOf(p, g, j, l.todo, l.expected, l.revoking)
           /\ \A p, g, x : [l EXCEPT !.pc = p, !.generation = g, !.expected = x] =
                       LocalsOf(p, g, l.jobs, l.todo, x, l.revoking)
           /\ \A p, r, j : [l EXCEPT !.pc = p, !.revoking = r, !.jobs = j] =
                       LocalsOf(p, l.generation, j, l.todo, l.expected, r)
<1>1. PICK lp, lg, lj, lt, lx, lr :
         /\ l = LocalsOf(lp, lg, lj, lt, lx, lr)
         /\ lp = l.pc /\ lg = l.generation /\ lj = l.jobs /\ lt = l.todo /\ lx = l.expected /\ lr = l.revoking
  BY DEF IsLocals, LocalsOf
<1>2. ASSUME NEW t
      PROVE  [l EXCEPT !.todo = t] = LocalsOf(l.pc, l.generation, l.jobs, t, l.expected, l.revoking)
  BY SMTT(60), <1>1 DEF LocalsOf
<1>3. ASSUME NEW p
      PROVE  [l EXCEPT !.pc = p] = LocalsOf(p, l.generation, l.jobs, l.todo, l.expected, l.revoking)
  BY SMTT(60), <1>1 DEF LocalsOf
<1>4. ASSUME NEW p, NEW g
      PROVE  [l EXCEPT !.pc = p, !.generation = g] =
                LocalsOf(p, g, l.jobs, l.todo, l.expected, l.revoking)
  <2>1. PICK k : k = [l EXCEPT !.pc = p]  OBVIOUS
  <2>2. [l EXCEPT !.pc = p, !.generation = g] = [k EXCEPT !.generation = g]
    BY <2>1
  <2>3. k = LocalsOf(p, l.generation, l.jobs, l.todo, l.expected, l.revoking)
    BY <2>1, <1>3
  <2>4. [k EXCEPT !.generation = g] = LocalsOf(p, g, l.jobs, l.todo, l.expected, l.revoking)
    BY SMTT(60), <2>3 DEF LocalsOf
  <2> QED  BY <2>2, <2>4
<1>5. ASSUME NEW p, NEW t
      PROVE  [l EXCEPT !.pc = p, !.todo = t] =
                LocalsOf(p, l.generation, l.jobs, t, l.expected, l.revoking)
  <2>1. PICK k : k = [l EXCEPT !.pc = p]  OBVIOUS
  <2>2. [l EXCEPT !.pc = p, !.todo = t] = [k EXCEPT !.todo = t]
    BY <2>1
  <2>3. k = LocalsOf(p, l.generation, l.jobs, l.todo, l.expected, l.revoking)
    BY <2>1, <1>3
  <2>4. [k EXCEPT !.todo = t] = LocalsOf(p, l.generation, l.jobs, t, l.expected, l.revoking)
    BY SMTT(60), <2>3 DEF LocalsOf
  <2> QED  BY <2>2, <2>4
<1>6. ASSUME NEW p, NEW g, NEW j
      PROVE  [l EXCEPT !.pc = p, !.generation = g, !.jobs = j] =
                LocalsOf(p, g, j, l.todo, l.expected, l.revoking)
  <2>1. PICK k : k = [l EXCEPT !.pc = p, !.generation = g]  OBVIOUS
  <2>2. [l EXCEPT !.pc = p, !.generation = g, !.jobs = j] = [k EXCEPT !.jobs = j]
    BY <2>1
  <2>3. k = LocalsOf(p, g, l.jobs, l.todo, l.expected, l.revoking)
    BY <2>1, <1>4
  <2>4. [k EXCEPT !.jobs = j] = LocalsOf(p, g, j, l.todo, l.expected, l.revoking)
    BY SMTT(60), <2>3 DEF LocalsOf
  <2> QED  BY <2>2, <2>4
<1>7. ASSUME NEW p, NEW g, NEW x
      PROVE  [l EXCEPT !.pc = p, !.generation = g, !.expected = x] =
                LocalsOf(p, g, l.jobs, l.todo, x, l.revoking)
  <2>1. PICK k : k = [l EXCEPT !.pc = p, !.generation = g]  OBVIOUS
  <2>2. [l EXCEPT !.pc = p, !.generation = g, !.expected = x] = [k EXCEPT !.expected = x]
    BY <2>1
  <2>3. k = LocalsOf(p, g, l.jobs, l.todo, l.expected, l.revoking)
    BY <2>1, <1>4
  <2>4. [k EXCEPT !.expected = x] = LocalsOf(p, g, l.jobs, l.todo, x, l.revoking)
    BY SMTT(60), <2>3 DEF LocalsOf
  <2> QED  BY <2>2, <2>4
<1>8. ASSUME NEW p, NEW r
      PROVE  [l EXCEPT !.pc = p, !.revoking = r] =
                LocalsOf(p, l.generation, l.jobs, l.todo, l.expected, r)
  <2>1. PICK k : k = [l EXCEPT !.pc = p]  OBVIOUS
  <2>2. [l EXCEPT !.pc = p, !.revoking = r] = [k EXCEPT !.revoking = r]
    BY <2>1
  <2>3. k = LocalsOf(p, l.generation, l.jobs, l.todo, l.expected, l.revoking)
    BY <2>1, <1>3
  <2>4. [k EXCEPT !.revoking = r] = LocalsOf(p, l.generation, l.jobs, l.todo, l.expected, r)
    BY SMTT(60), <2>3 DEF LocalsOf
  <2> QED  BY <2>2, <2>4
<1>9. ASSUME NEW p, NEW r, NEW j
      PROVE  [l EXCEPT !.pc = p, !.revoking = r, !.jobs = j] =
                LocalsOf(p, l.generation, j, l.todo, l.expected, r)
  <2>1. PICK k : k = [l EXCEPT !.pc = p, !.revoking = r]  OBVIOUS
  <2>2. [l EXCEPT !.pc = p, !.revoking = r, !.jobs = j] = [k EXCEPT !.jobs = j]
    BY <2>1
  <2>3. k = LocalsOf(p, l.generation, l.jobs, l.todo, l.expected, r)
    BY <2>1, <1>8
  <2>4. [k EXCEPT !.jobs = j] = LocalsOf(p, l.generation, j, l.todo, l.expected, r)
    BY SMTT(60), <2>3 DEF LocalsOf
  <2> QED  BY <2>2, <2>4
<1> QED  BY <1>2, <1>3, <1>4, <1>5, <1>6, <1>7, <1>9

\* An administrator that does nothing keeps what it knows while the tables grow.
LEMMA LocalsStable ==
    ASSUME NEW l, NEW known, NEW put, NEW rs, NEW lost, NEW known2, NEW put2, NEW rs2, NEW lost2,
           LocalsOK(l, known, put, rs, lost), known \subseteq known2, put \subseteq put2,
           lost2 = 0 => lost = 0 /\ rs \subseteq rs2
    PROVE  LocalsOK(l, known2, put2, rs2, lost2)
BY DEF LocalsOK, Written

\* An administrator that runs no operation knows nothing (PublicationService).
LEMMA IdleOK ==
    ASSUME NEW known, NEW put, NEW rs, NEW lost
    PROVE  LocalsOK(IdleAdmin, known, put, rs, lost) /\ IdleAdmin.revoking = {}
<1>1. IsLocals(IdleAdmin) /\ IdleAdmin.pc = "idle" /\ IdleAdmin.jobs = {} /\ IdleAdmin.revoking = {}
  BY SMTT(60) DEF IdleAdmin, IsLocals
<1> QED  BY <1>1 DEF LocalsOK

\* Then: revoke goes on with the generation g, the other operations return.
LEMMA ThenOK ==
    ASSUME NEW l, NEW known, NEW put, NEW rs, NEW lost, LocalsOK(l, known, put, rs, lost),
           NEW known2, NEW g \in known2, Generation(g), l.revoking \cap Documents(g.versions) = {},
           NEW p \in {"prepare", "validate"}, NEW m,
           m = IF l.revoking = {} THEN IdleAdmin ELSE [l EXCEPT !.pc = p, !.generation = g]
    PROVE  LocalsOK(m, known2, put, rs, lost)
<1>1. CASE l.revoking = {}
  BY <1>1, IdleOK
<1>2. CASE l.revoking # {}
  <2>1. m = LocalsOf(p, g, l.jobs, l.todo, l.expected, l.revoking)
    BY <1>2, UpdatedLocals DEF LocalsOK
  <2>2. /\ IsLocals(m) /\ m.pc = p /\ m.generation = g /\ m.jobs = l.jobs /\ m.revoking = l.revoking
    BY SMTT(60), <2>1, FieldsOfLocals
  <2>3. l.jobs \subseteq Job
    BY DEF LocalsOK
  <2>4. p \notin {"idle", "revoke", "put", "register", "write", "mark"}
    OBVIOUS
  <2> QED  BY <2>2, <2>3, <2>4 DEF LocalsOK
<1> QED  BY <1>1, <1>2

\* An administrator moves while the tables grow.
LEMMA AdminsKeep ==
    ASSUME Admins, NEW a \in Admin, NEW m, admin' = [admin EXCEPT ![a] = m],
           LocalsOK(m, DOMAIN candidates', DOMAIN manifests', rows', faults'),
           DOMAIN candidates \subseteq DOMAIN candidates', DOMAIN manifests \subseteq DOMAIN manifests',
           faults' = 0 => faults = 0 /\ rows \subseteq rows'
    PROVE  Admins'
<1>1. admin' = [b \in Admin |-> admin'[b]] /\ admin'[a] = m /\ \A b \in Admin \ {a} : admin'[b] = admin[b]
  BY DEF Admins
<1>2. ASSUME NEW b \in Admin
      PROVE  LocalsOK(admin'[b], DOMAIN candidates', DOMAIN manifests', rows', faults')
  <2>1. CASE b = a
    BY <1>1, <2>1
  <2>2. CASE b # a
    <3>1. LocalsOK(admin[b], DOMAIN candidates, DOMAIN manifests, rows, faults)
      BY DEF Admins
    <3>2. LocalsOK(admin[b], DOMAIN candidates', DOMAIN manifests', rows', faults')
      BY SMTT(60), <3>1, LocalsStable
    <3> QED  BY <1>1, <2>2, <3>2
  <2> QED  BY <2>1, <2>2
<1> QED  BY <1>1, <1>2 DEF Admins

-----------------------------------------------------------------------------
(* The steps of the administrators. *)

\* What is active is an accepted candidate, and the last activation.
LEMMA ActiveIsAccepted ==
    ASSUME Authority, active.generation # NoGeneration
    PROVE  /\ active.generation \in DOMAIN candidates /\ Generation(active.generation)
           /\ candidates[active.generation] = "ACCEPTED"
           /\ active.epoch \in 1 .. Len(activations)
           /\ activations[active.epoch].generation = active.generation
<1>1. PICK S : activations \in Seq(S)
  BY DEF Authority, AuthorityOK
<1>2. /\ Len(activations) \in Nat /\ (activations = << >> <=> Len(activations) = 0)
  BY <1>1, LenFacts
<1>3. active = PointerTo(activations)
  BY DEF Authority, AuthorityOK
<1>4. /\ active.epoch = Len(activations)
      /\ activations # << >> /\ active.generation = activations[Len(activations)].generation
  BY <1>3 DEF PointerTo
<1>5. Len(activations) \in 1 .. Len(activations)
  BY SMTT(60), <1>2, <1>4
<1>6. PICK g : g = activations[Len(activations)].generation  OBVIOUS
<1>7. g \in DOMAIN candidates /\ candidates[g] = "ACCEPTED"
  BY <1>5, <1>6 DEF Authority, AuthorityOK
<1>8. Generation(g)
  BY <1>7 DEF Authority, AuthorityOK
<1> QED  BY <1>4, <1>5, <1>6, <1>7, <1>8

\* The active row is a pointer with a numeric epoch (authority.active).
LEMMA EpochIsNat ==
    ASSUME Authority
    PROVE  active.epoch \in Nat /\ active = [generation |-> active.generation, epoch |-> active.epoch]
<1>1. PICK S : activations \in Seq(S)
  BY DEF Authority, AuthorityOK
<1>2. active = PointerTo(activations)
  BY DEF Authority, AuthorityOK
<1> QED  BY <1>1, <1>2, LenFacts DEF PointerTo

\* A step that leaves the authority, the stores and the requests alone.
LEMMA QuietStep ==
    ASSUME Inv, NEW a \in Admin, NEW m, admin' = [admin EXCEPT ![a] = m],
           LocalsOK(m, DOMAIN candidates, DOMAIN manifests, rows, faults),
           UNCHANGED <<authorityVars, storeVars, servingVars>>
    PROVE  Inv'
<1>1. Authority'  BY DEF Inv, Authority, authorityVars
<1>2. Stores'  BY DEF Inv, Stores, storeVars, authorityVars
<1>3. Requests'  BY DEF Inv, Requests, servingVars, authorityVars
<1>4. /\ candidates' = candidates /\ manifests' = manifests /\ rows' = rows /\ faults' = faults
  BY DEF authorityVars, storeVars
<1>5. Admins'
  BY <1>4, AdminsKeep DEF Inv
<1> QED  BY <1>1, <1>2, <1>3, <1>5 DEF Inv

\* The locals of the administrator that moves.
LEMMA LocalsHold ==
    ASSUME Inv, NEW a \in Admin
    PROVE  /\ LocalsOK(admin[a], DOMAIN candidates, DOMAIN manifests, rows, faults)
           /\ IsLocals(admin[a])
BY DEF Inv, Admins, LocalsOK

\* plan, called for some jobs: it remembers a new generation or goes on with the active one.
LEMMA PlanKeeps ==
    ASSUME Inv, NEW a \in Admin, NEW jobs \in SUBSET Job, PlanFrom(a, jobs),
           admin[a].revoking \cap Documents({VersionOf[j] : j \in jobs}) = {}
    PROVE  Inv'
<1>1. PICK l : l = admin[a]  OBVIOUS
<1>2. LocalsOK(l, DOMAIN candidates, DOMAIN manifests, rows, faults) /\ IsLocals(l)
  BY <1>1, LocalsHold
<1>3. PICK g : g = Candidate(jobs)  OBVIOUS
<1>4. /\ g.versions = {VersionOf[j] : j \in jobs} /\ g.base = active
      /\ g = [versions |-> g.versions, base |-> g.base]
  BY SMTT(60), <1>3 DEF Candidate
<1>5. {VersionOf[j] : j \in jobs} \subseteq Version
  BY PublicationAssumption
<1>6. Generation(g)
  BY <1>4, <1>5, EpochIsNat DEF Generation, Inv
<1>7. l.revoking \cap Documents(g.versions) = {}
  BY <1>1, <1>4
<1>8. UNCHANGED <<authorityVars, storeVars, servingVars>>
  BY DEF PlanFrom
<1>9. CASE active.generation # NoGeneration /\ active.generation.versions = g.versions
  <2>1. PICK h : h = active.generation  OBVIOUS
  <2>2. PICK m : m = IF l.revoking = {} THEN IdleAdmin ELSE [l EXCEPT !.pc = "prepare", !.generation = h]
    OBVIOUS
  <2>3. Then(a, h, "prepare")
    BY <1>3, <1>9, <2>1 DEF PlanFrom
  <2>4. admin' = [admin EXCEPT ![a] = m]
    BY <1>1, <2>2, <2>3 DEF Then
  <2>5. h \in DOMAIN candidates /\ Generation(h)
    BY <1>9, <2>1, ActiveIsAccepted DEF Inv
  <2>6. l.revoking \cap Documents(h.versions) = {}
    BY <1>7, <1>9, <2>1
  <2>7. LocalsOK(m, DOMAIN candidates, DOMAIN manifests, rows, faults)
    BY <1>2, <2>2, <2>5, <2>6, ThenOK
  <2> QED  BY <1>8, <2>4, <2>7, QuietStep
<1>10. CASE ~(active.generation # NoGeneration /\ active.generation.versions = g.versions)
  <2>1. admin' = [admin EXCEPT ![a].pc = "put", ![a].generation = g, ![a].jobs = jobs]
    BY <1>3, <1>10 DEF PlanFrom
  <2>2. PICK m : m = [l EXCEPT !.pc = "put", !.generation = g, !.jobs = jobs]  OBVIOUS
  <2>3. admin' = [admin EXCEPT ![a] = m]
    BY <1>1, <2>1, <2>2 DEF Inv, Admins
  <2>4. m = LocalsOf("put", g, jobs, l.todo, l.expected, l.revoking)
    <3>1. \A p, k, j : [l EXCEPT !.pc = p, !.generation = k, !.jobs = j] =
                          LocalsOf(p, k, j, l.todo, l.expected, l.revoking)
      BY <1>2, UpdatedLocals
    <3> QED  BY <2>2, <3>1
  <2>5. /\ IsLocals(m) /\ m.pc = "put" /\ m.generation = g /\ m.jobs = jobs /\ m.revoking = l.revoking
    BY SMTT(60), <2>4, FieldsOfLocals
  <2>6. LocalsOK(m, DOMAIN candidates, DOMAIN manifests, rows, faults)
    BY <1>6, <1>7, <2>5 DEF LocalsOK
  <2> QED  BY <1>8, <2>3, <2>6, QuietStep
<1> QED  BY <1>9, <1>10

\* What Goto leaves in the locals (PublicationService).
LEMMA GotoFields ==
    ASSUME Inv, NEW a \in Admin, NEW p, Goto(a, p), NEW l, l = admin[a]
    PROVE  \E m : /\ admin' = [admin EXCEPT ![a] = m] /\ IsLocals(m) /\ m.pc = p
                  /\ m.generation = l.generation /\ m.jobs = l.jobs /\ m.todo = l.todo
                  /\ m.revoking = l.revoking
<1>1. PICK m : m = [l EXCEPT !.pc = p]  OBVIOUS
<1>2. admin' = [admin EXCEPT ![a] = m]
  BY <1>1 DEF Inv, Admins, Goto
<1>3. IsLocals(l)
  BY LocalsHold
<1>4. m = LocalsOf(p, l.generation, l.jobs, l.todo, l.expected, l.revoking)
  BY <1>1, <1>3, UpdatedLocals
<1>5. /\ IsLocals(m) /\ m.pc = p /\ m.generation = l.generation /\ m.jobs = l.jobs /\ m.todo = l.todo
      /\ m.revoking = l.revoking
  BY SMTT(60), <1>4, FieldsOfLocals
<1> QED  BY <1>2, <1>5

\* Then as a step of the administrators.
LEMMA ThenKeeps ==
    ASSUME Inv, NEW a \in Admin, NEW g, NEW p \in {"prepare", "validate"}, Then(a, g, p),
           g \in DOMAIN candidates', Generation(g), admin[a].revoking \cap Documents(g.versions) = {},
           DOMAIN candidates \subseteq DOMAIN candidates', UNCHANGED storeVars
    PROVE  Admins'
<1>1. PICK l : l = admin[a]  OBVIOUS
<1>2. PICK m : m = IF l.revoking = {} THEN IdleAdmin ELSE [l EXCEPT !.pc = p, !.generation = g]
  OBVIOUS
<1>3. admin' = [admin EXCEPT ![a] = m]
  BY <1>1, <1>2 DEF Then
<1>4. LocalsOK(l, DOMAIN candidates, DOMAIN manifests, rows, faults)
  BY <1>1, LocalsHold
<1>5. l.revoking \cap Documents(g.versions) = {}
  BY <1>1
<1>6. PICK known : known = DOMAIN candidates'  OBVIOUS
<1>7. LocalsOK(m, known, DOMAIN manifests, rows, faults)
  BY <1>2, <1>4, <1>5, <1>6, ThenOK
<1>8. manifests' = manifests /\ rows' = rows /\ faults' = faults
  BY DEF storeVars
<1>9. LocalsOK(m, DOMAIN candidates', DOMAIN manifests', rows', faults')
  BY <1>6, <1>7, <1>8
<1> QED  BY <1>3, <1>8, <1>9, AdminsKeep DEF Inv

\* An operation that returns or raises leaves nothing behind (PublicationService).
LEMMA FinishKeeps ==
    ASSUME Inv, NEW a \in Admin, Finish(a), DOMAIN candidates \subseteq DOMAIN candidates',
           UNCHANGED storeVars
    PROVE  Admins'
<1>1. PICK m : m = IdleAdmin  OBVIOUS
<1>2. admin' = [admin EXCEPT ![a] = m]
  BY <1>1 DEF Finish
<1>3. LocalsOK(m, DOMAIN candidates', DOMAIN manifests', rows', faults')
  BY <1>1, IdleOK
<1>4. manifests' = manifests /\ rows' = rows /\ faults' = faults
  BY DEF storeVars
<1> QED  BY <1>2, <1>3, <1>4, AdminsKeep DEF Inv

\* An accepted candidate stays accepted, and so does what requests were admitted to.
LEMMA RequestsKeep ==
    ASSUME Inv, UNCHANGED <<request, activations>>,
           \A g \in DOMAIN candidates : candidates[g] = "ACCEPTED" =>
              g \in DOMAIN candidates' /\ candidates'[g] = "ACCEPTED"
    PROVE  Requests'
BY DEF Inv, Requests, RequestOK

\* plan puts the manifest, or finds its candidate.
LEMMA PutKeeps ==
    ASSUME Inv, NEW a \in Admin, Put(a)
    PROVE  Inv'
<1>1. PICK l : l = admin[a]  OBVIOUS
<1>2. LocalsOK(l, DOMAIN candidates, DOMAIN manifests, rows, faults)
  BY <1>1, LocalsHold
<1>3. PICK g : g = l.generation  OBVIOUS
<1>4. /\ l.pc = "put" /\ Generation(g) /\ l.revoking \cap Documents(g.versions) = {} /\ l.jobs \subseteq Job
  BY <1>1, <1>2, <1>3 DEF Put, At, LocalsOK
<1>5. Authority' /\ Requests'
  BY DEF Put, Inv, Authority, Requests, authorityVars, servingVars
<1>6. candidates' = candidates /\ rows' = rows /\ intact' = intact /\ faults' = faults
  BY DEF Put, authorityVars
<1>7. CASE g \in DOMAIN candidates
  <2>1. Then(a, g, "prepare") /\ manifests' = manifests
    BY <1>1, <1>3, <1>7 DEF Put
  <2>2. Stores'
    BY <1>6, <2>1 DEF Inv, Stores
  <2>3. UNCHANGED storeVars /\ g \in DOMAIN candidates'
    BY <1>6, <1>7, <2>1 DEF storeVars
  <2>4. Admins'
    BY <1>1, <1>4, <1>6, <2>1, <2>3, ThenKeeps
  <2> QED  BY <1>5, <2>2, <2>4 DEF Inv
<1>8. CASE g \notin DOMAIN candidates
  <2>1. /\ manifests' = [h \in DOMAIN manifests \cup {g} |-> IF h = g THEN l.jobs ELSE manifests[h]]
        /\ Goto(a, "register")
    BY <1>1, <1>3, <1>8 DEF Put
  <2>2. /\ DOMAIN manifests' = DOMAIN manifests \cup {g}
        /\ \A h \in DOMAIN manifests' : manifests'[h] = IF h = g THEN l.jobs ELSE manifests[h]
    BY <2>1
  <2>3. \A h \in DOMAIN manifests' : manifests'[h] \subseteq Job
    BY <1>4, <2>2 DEF Inv, Stores, StoresOK
  <2>4. DOMAIN candidates \subseteq DOMAIN manifests'
    BY <2>2 DEF Inv, Stores, StoresOK
  <2>5. StoresOK(candidates, manifests', rows, intact, faults)
    BY <2>3, <2>4 DEF Inv, Stores, StoresOK
  <2>6. Stores'
    BY <1>6, <2>5 DEF Stores
  <2>7. PICK m : /\ admin' = [admin EXCEPT ![a] = m] /\ IsLocals(m) /\ m.pc = "register"
                 /\ m.generation = l.generation /\ m.jobs = l.jobs /\ m.todo = l.todo
                 /\ m.revoking = l.revoking
    <3>1. Goto(a, "register")
      BY <2>1
    <3>2. \E m : /\ admin' = [admin EXCEPT ![a] = m] /\ IsLocals(m) /\ m.pc = "register"
                 /\ m.generation = l.generation /\ m.jobs = l.jobs /\ m.todo = l.todo
                 /\ m.revoking = l.revoking
      BY SMTT(60), <1>1, <3>1, GotoFields
    <3> QED  BY <3>2
  <2>8. g \in DOMAIN manifests'
    BY <2>2
  <2>9. LocalsOK(m, DOMAIN candidates', DOMAIN manifests', rows', faults')
    BY <1>3, <1>4, <2>7, <2>8 DEF LocalsOK
  <2>10. Admins'
    BY <1>6, <2>2, <2>7, <2>9, AdminsKeep DEF Inv
  <2> QED  BY <1>5, <2>6, <2>10 DEF Inv
<1> QED  BY <1>7, <1>8

\* plan registers the candidate; its manifest is there.
LEMMA RegisterKeeps ==
    ASSUME Inv, NEW a \in Admin, Register(a)
    PROVE  Inv'
<1>1. PICK l : l = admin[a]  OBVIOUS
<1>2. LocalsOK(l, DOMAIN candidates, DOMAIN manifests, rows, faults)
  BY <1>1, LocalsHold
<1>3. PICK g : g = l.generation  OBVIOUS
<1>4. /\ Generation(g) /\ l.revoking \cap Documents(g.versions) = {} /\ g \in DOMAIN manifests
  <2>1. l.pc = "register"
    BY <1>1 DEF Register, At
  <2> QED  BY <1>2, <1>3, <2>1 DEF LocalsOK
<1>5. /\ Then(a, g, "prepare") /\ UNCHANGED storeVars /\ UNCHANGED <<active, activations, request>>
  BY <1>1, <1>3 DEF Register, servingVars
<1>6. manifests' = manifests /\ rows' = rows /\ intact' = intact /\ faults' = faults
  BY <1>5 DEF storeVars
<1>7. CASE g \in DOMAIN candidates
  <2>1. candidates' = candidates
    BY <1>1, <1>3, <1>7 DEF Register
  <2>2. Authority' /\ Stores' /\ Requests'
    BY <1>5, <1>6, <2>1 DEF Inv, Authority, Stores, Requests
  <2>3. Admins'
    BY <1>1, <1>4, <1>5, <1>7, <2>1, ThenKeeps
  <2> QED  BY <2>2, <2>3 DEF Inv
<1>8. CASE g \notin DOMAIN candidates
  <2>1. candidates' = [h \in DOMAIN candidates \cup {g} |-> IF h = g THEN "PREPARING" ELSE candidates[h]]
    BY <1>1, <1>3, <1>8 DEF Register
  <2>2. PICK c : c = candidates'  OBVIOUS
  <2>3. /\ DOMAIN c = DOMAIN candidates \cup {g} /\ c[g] = "PREPARING"
        /\ \A h \in DOMAIN candidates : c[h] = candidates[h]
    BY <1>8, <2>1, <2>2
  <2>4. AuthorityOK(active, c, activations)
    <3>1. \A i \in 1 .. Len(activations) : /\ activations[i].generation \in DOMAIN c
                                           /\ c[activations[i].generation] = "ACCEPTED"
      BY <2>3 DEF Inv, Authority, AuthorityOK
    <3>2. \A h \in DOMAIN c :
          /\ Generation(h) /\ c[h] \in CandidateState
          /\ c[h] = "ACCEPTED" => /\ h.base.epoch + 1 \in 1 .. Len(activations)
                                  /\ activations[h.base.epoch + 1].generation = h
      BY <1>4, <2>3 DEF Inv, Authority, AuthorityOK, CandidateState
    <3> QED  BY <3>1, <3>2 DEF Inv, Authority, AuthorityOK
  <2>5. StoresOK(c, manifests, rows, intact, faults)
    BY <1>4, <2>3 DEF Inv, Stores, StoresOK
  <2>6. Authority' /\ Stores'
    BY <1>5, <1>6, <2>2, <2>4, <2>5 DEF Authority, Stores
  <2>7. Requests'
    BY <1>5, <2>2, <2>3, RequestsKeep
  <2>8. Admins'
    BY <1>1, <1>4, <1>5, <2>2, <2>3, ThenKeeps
  <2> QED  BY <2>6, <2>7, <2>8 DEF Inv
<1> QED  BY <1>7, <1>8

\* prepare of the candidate g.
LEMMA PrepareFromKeeps ==
    ASSUME Inv, NEW a \in Admin, NEW g \in DOMAIN candidates, PrepareFrom(a, g),
           admin[a].revoking \cap Documents(g.versions) = {}
    PROVE  Inv'
<1>1. PICK l : l = admin[a]  OBVIOUS
<1>2. LocalsOK(l, DOMAIN candidates, DOMAIN manifests, rows, faults) /\ IsLocals(l)
  BY <1>1, LocalsHold
<1>3. Generation(g)
  BY DEF Inv, Authority, AuthorityOK
<1>4. UNCHANGED <<authorityVars, storeVars, servingVars>>
  BY DEF PrepareFrom
<1>5. CASE candidates[g] = "ACCEPTED"
  <2>1. Then(a, g, "validate")
    BY <1>5 DEF PrepareFrom
  <2>2. candidates' = candidates /\ UNCHANGED storeVars
    BY <1>4 DEF authorityVars
  <2>3. Admins'
    BY <1>3, <2>1, <2>2, ThenKeeps
  <2>4. Authority' /\ Stores' /\ Requests'
    BY <1>4 DEF Inv, Authority, Stores, Requests, authorityVars, storeVars, servingVars
  <2> QED  BY <2>3, <2>4 DEF Inv
<1>6. CASE candidates[g] # "ACCEPTED"
  <2>1. admin' = [admin EXCEPT ![a].pc = "check", ![a].generation = g]
    BY <1>6 DEF PrepareFrom
  <2>2. PICK m : m = [l EXCEPT !.pc = "check", !.generation = g]  OBVIOUS
  <2>3. admin' = [admin EXCEPT ![a] = m]
    BY <1>1, <2>1, <2>2 DEF Inv, Admins
  <2>4. m = LocalsOf("check", g, l.jobs, l.todo, l.expected, l.revoking)
    <3>1. \A p, k : [l EXCEPT !.pc = p, !.generation = k] =
                       LocalsOf(p, k, l.jobs, l.todo, l.expected, l.revoking)
      BY <1>2, UpdatedLocals
    <3> QED  BY <2>2, <3>1
  <2>5. /\ IsLocals(m) /\ m.pc = "check" /\ m.generation = g /\ m.jobs = l.jobs /\ m.revoking = l.revoking
    BY SMTT(60), <2>4, FieldsOfLocals
  <2>6. l.jobs \subseteq Job
    BY <1>2 DEF LocalsOK
  <2>7. m.revoking \cap Documents(m.generation.versions) = {}
    BY <1>1, <2>5
  <2>8. LocalsOK(m, DOMAIN candidates, DOMAIN manifests, rows, faults)
    BY <1>3, <2>5, <2>6, <2>7 DEF LocalsOK
  <2> QED  BY <1>4, <2>3, <2>8, QuietStep
<1> QED  BY <1>5, <1>6

\* An idle administrator revokes nothing; one past the registration works on a candidate.
LEMMA AtWork ==
    ASSUME Inv, NEW a \in Admin
    PROVE  /\ admin[a].pc = "idle" => admin[a].revoking = {}
           /\ admin[a].pc \notin {"idle", "revoke", "put", "register"} =>
                 /\ admin[a].generation \in DOMAIN candidates /\ Generation(admin[a].generation)
                 /\ admin[a].revoking \cap Documents(admin[a].generation.versions) = {}
<1>1. PICK l : l = admin[a]  OBVIOUS
<1>2. LocalsOK(l, DOMAIN candidates, DOMAIN manifests, rows, faults)
  BY <1>1, LocalsHold
<1>3. l.pc = "idle" => l.revoking = {}
  BY <1>2, IdleOK DEF LocalsOK
<1>4. l.pc \notin {"idle", "revoke", "put", "register"} =>
         /\ l.generation \in DOMAIN candidates /\ Generation(l.generation)
         /\ l.revoking \cap Documents(l.generation.versions) = {}
  BY <1>2 DEF LocalsOK
<1> QED  BY <1>1, <1>3, <1>4

\* plan, called alone and by revoke.
LEMMA PlanStepsKeep ==
    ASSUME Inv, NEW a \in Admin, Plan(a) \/ RevokePlan(a)
    PROVE  Inv'
<1>1. CASE Plan(a)
  <2>1. PICK jobs \in SUBSET Job : PlanFrom(a, jobs)
    BY <1>1 DEF Plan
  <2>2. admin[a].revoking = {}
    BY <1>1, AtWork DEF Plan, At
  <2>3. admin[a].revoking \cap Documents({VersionOf[j] : j \in jobs}) = {}
    BY <2>2
  <2> QED  BY <2>1, <2>3, PlanKeeps
<1>2. CASE RevokePlan(a)
  <2>1. PICK jobs : jobs = admin[a].jobs  OBVIOUS
  <2>2. admin[a].pc = "revoke" /\ PlanFrom(a, jobs)
    BY <1>2, <2>1 DEF RevokePlan, At
  <2>3. jobs \in SUBSET Job /\ admin[a].revoking \cap Documents({VersionOf[j] : j \in jobs}) = {}
    <3>1. PICK l : l = admin[a]  OBVIOUS
    <3>2. LocalsOK(l, DOMAIN candidates, DOMAIN manifests, rows, faults)
      BY <3>1, LocalsHold
    <3>3. l.jobs \in SUBSET Job /\ l.revoking \cap Documents({VersionOf[j] : j \in l.jobs}) = {}
      BY <2>2, <3>1, <3>2 DEF LocalsOK
    <3> QED  BY <2>1, <3>1, <3>3
  <2> QED  BY <2>2, <2>3, PlanKeeps
<1> QED  BY <1>1, <1>2

\* prepare, called alone and by revoke.
LEMMA PrepareKeeps ==
    ASSUME Inv, NEW a \in Admin, Prepare(a)
    PROVE  Inv'
<1>1. CASE At(a, "idle") /\ \E g \in DOMAIN candidates : PrepareFrom(a, g)
  <2>1. PICK g \in DOMAIN candidates : PrepareFrom(a, g)
    BY <1>1
  <2>2. admin[a].revoking = {}
    BY <1>1, AtWork DEF At
  <2>3. admin[a].revoking \cap Documents(g.versions) = {}
    BY <2>2
  <2> QED  BY <2>1, <2>3, PrepareFromKeeps
<1>2. CASE At(a, "prepare") /\ PrepareFrom(a, admin[a].generation)
  <2>1. PICK g : g = admin[a].generation  OBVIOUS
  <2>2. admin[a].pc = "prepare"
    BY <1>2 DEF At
  <2>3. g \in DOMAIN candidates /\ admin[a].revoking \cap Documents(g.versions) = {}
    BY <2>1, <2>2, AtWork
  <2> QED  BY <1>2, <2>1, <2>3, PrepareFromKeeps
<1> QED  BY <1>1, <1>2 DEF Prepare

\* mark and its variants: an accepted candidate is never touched, and what becomes READY
\* was completely written.
LEMMA MarkKeeps ==
    ASSUME Inv, NEW g \in DOMAIN candidates, NEW st \in {"READY", "FAILED", "STALE"}, Mark(g, st),
           UNCHANGED <<active, activations, storeVars, servingVars>>,
           st = "READY" /\ faults = 0 => Written(g, rows)
    PROVE  Authority' /\ Stores' /\ Requests' /\ DOMAIN candidates' = DOMAIN candidates
<1>1. CASE candidates[g] \notin {"PREPARING", "READY", "FAILED"}
  <2>1. candidates' = candidates
    BY <1>1 DEF Mark
  <2> QED  BY <2>1 DEF Inv, Authority, Stores, Requests, storeVars, servingVars
<1>2. CASE candidates[g] \in {"PREPARING", "READY", "FAILED"}
  <2>1. PICK c : c = candidates'  OBVIOUS
  <2>2. /\ DOMAIN c = DOMAIN candidates /\ c[g] = st
        /\ \A h \in DOMAIN candidates : h # g => c[h] = candidates[h]
    BY <1>2, <2>1 DEF Mark
  <2>3. candidates[g] # "ACCEPTED" /\ st # "ACCEPTED" /\ st \in CandidateState
    BY <1>2 DEF CandidateState
  <2>4. AuthorityOK(active, c, activations)
    <3>1. \A i \in 1 .. Len(activations) : /\ activations[i].generation \in DOMAIN c
                                           /\ c[activations[i].generation] = "ACCEPTED"
      BY <2>2, <2>3 DEF Inv, Authority, AuthorityOK
    <3>2. \A h \in DOMAIN c :
          /\ Generation(h) /\ c[h] \in CandidateState
          /\ c[h] = "ACCEPTED" => /\ h.base.epoch + 1 \in 1 .. Len(activations)
                                  /\ activations[h.base.epoch + 1].generation = h
      BY <2>2, <2>3 DEF Inv, Authority, AuthorityOK
    <3> QED  BY <3>1, <3>2 DEF Inv, Authority, AuthorityOK
  <2>5. StoresOK(c, manifests, rows, intact, faults)
    <3>1. faults = 0 => \A h \in DOMAIN c : c[h] \in {"READY", "ACCEPTED"} => Written(h, rows)
      BY <2>2, <2>3 DEF Inv, Stores, StoresOK
    <3> QED  BY <2>2, <3>1 DEF Inv, Stores, StoresOK
  <2>6. Authority' /\ Stores'
    BY <2>1, <2>4, <2>5 DEF Authority, Stores, storeVars
  <2>7. Requests'
    BY <2>1, <2>2, <2>3, RequestsKeep DEF servingVars
  <2> QED  BY <2>1, <2>2, <2>6, <2>7
<1> QED  BY <1>1, <1>2

\* prepare compares the active row with the base of the candidate.
LEMMA PrepareCheckKeeps ==
    ASSUME Inv, NEW a \in Admin, PrepareCheck(a)
    PROVE  Inv'
<1>1. PICK l : l = admin[a]  OBVIOUS
<1>2. LocalsOK(l, DOMAIN candidates, DOMAIN manifests, rows, faults) /\ IsLocals(l)
  BY <1>1, LocalsHold
<1>3. PICK g : g = l.generation  OBVIOUS
<1>4. l.pc = "check"
  BY <1>1 DEF PrepareCheck, At
<1>5. g \in DOMAIN candidates /\ Generation(g) /\ l.revoking \cap Documents(g.versions) = {}
  BY <1>1, <1>3, <1>4, AtWork
<1>6. UNCHANGED <<active, activations, storeVars, servingVars>>
  BY DEF PrepareCheck
<1>7. CASE active # g.base
  <2>1. Mark(g, "STALE") /\ Finish(a)
    BY <1>1, <1>3, <1>7 DEF PrepareCheck
  <2>2. Authority' /\ Stores' /\ Requests' /\ DOMAIN candidates' = DOMAIN candidates
    BY <1>5, <1>6, <2>1, MarkKeeps
  <2>3. Admins'
    BY <1>6, <2>1, <2>2, FinishKeeps
  <2> QED  BY <2>2, <2>3 DEF Inv
<1>8. CASE active = g.base
  <2>1. admin' = [admin EXCEPT ![a].pc = "write", ![a].todo = g.versions] /\ candidates' = candidates
    BY <1>1, <1>3, <1>8 DEF PrepareCheck
  <2>2. PICK m : m = [l EXCEPT !.pc = "write", !.todo = g.versions]  OBVIOUS
  <2>3. admin' = [admin EXCEPT ![a] = m]
    BY <1>1, <2>1, <2>2 DEF Inv, Admins
  <2>4. m = LocalsOf("write", g, l.jobs, g.versions, l.expected, l.revoking)
    <3>1. \A p, t : [l EXCEPT !.pc = p, !.todo = t] =
                       LocalsOf(p, l.generation, l.jobs, t, l.expected, l.revoking)
      BY <1>2, UpdatedLocals
    <3> QED  BY <1>3, <2>2, <3>1
  <2>5. /\ IsLocals(m) /\ m.pc = "write" /\ m.generation = g /\ m.jobs = l.jobs /\ m.todo = g.versions
        /\ m.revoking = l.revoking
    BY SMTT(60), <2>4, FieldsOfLocals
  <2>6. l.jobs \subseteq Job
    BY <1>2 DEF LocalsOK
  <2>7. m.revoking \cap Documents(m.generation.versions) = {}
    BY <1>5, <2>5
  <2>8. m.todo = m.generation.versions /\ Generation(m.generation) /\ m.generation \in DOMAIN candidates
    BY <1>5, <2>5
  <2>9. LocalsOK(m, DOMAIN candidates, DOMAIN manifests, rows, faults)
    BY <2>5, <2>6, <2>7, <2>8 DEF LocalsOK
  <2> QED  BY <1>6, <2>1, <2>3, <2>9, QuietStep DEF authorityVars
<1> QED  BY <1>7, <1>8

\* prepare writes a row; the rows that are missing are still to be written.
LEMMA WriteKeeps ==
    ASSUME Inv, NEW a \in Admin, Write(a)
    PROVE  Inv'
<1>1. PICK l : l = admin[a]  OBVIOUS
<1>2. LocalsOK(l, DOMAIN candidates, DOMAIN manifests, rows, faults) /\ IsLocals(l)
  BY <1>1, LocalsHold
<1>3. PICK g : g = l.generation  OBVIOUS
<1>4. l.pc = "write"
  BY <1>1 DEF Write, At
<1>5. PICK v \in l.todo : rows' = rows \cup {<<g, v>>} /\ admin' = [admin EXCEPT ![a].todo = @ \ {v}]
  BY <1>1, <1>3 DEF Write, Upsert
<1>6. /\ l.todo \subseteq g.versions
      /\ faults = 0 => \A u \in g.versions : u \in l.todo \/ <<g, u>> \in rows
  BY <1>2, <1>3, <1>4 DEF LocalsOK
<1>7. UNCHANGED <<authorityVars, manifests, intact, faults, servingVars>>
  BY DEF Write
<1>8. Authority' /\ Requests'
  BY <1>7 DEF Inv, Authority, Requests, authorityVars, servingVars
<1>9. candidates' = candidates /\ manifests' = manifests /\ intact' = intact /\ faults' = faults
  BY <1>7 DEF authorityVars
<1>10. PICK rs : rs = rows'  OBVIOUS
<1>11. rows \subseteq rs /\ <<g, v>> \in rs /\ \A row \in rs : row \in rows \/ row = <<g, v>>
  BY <1>5, <1>10
<1>12. \A row \in rs : row[2] \in row[1].versions
  BY SMTT(60), <1>6, <1>11 DEF Inv, Stores, StoresOK
<1>13. StoresOK(candidates, manifests, rs, intact, faults)
  <2>1. \A h : Written(h, rows) => Written(h, rs)
    BY <1>11 DEF Written
  <2> QED  BY <1>12, <2>1 DEF Inv, Stores, StoresOK
<1>14. Stores'
  BY <1>9, <1>10, <1>13 DEF Stores
<1>15. PICK m : m = [l EXCEPT !.todo = l.todo \ {v}]  OBVIOUS
<1>16. admin' = [admin EXCEPT ![a] = m]
  BY <1>1, <1>5, <1>15 DEF Inv, Admins
<1>17. m = LocalsOf("write", g, l.jobs, l.todo \ {v}, l.expected, l.revoking)
  <2>1. \A t : [l EXCEPT !.todo = t] = LocalsOf(l.pc, l.generation, l.jobs, t, l.expected, l.revoking)
    BY <1>2, UpdatedLocals
  <2> QED  BY <1>3, <1>4, <1>15, <2>1
<1>18. /\ IsLocals(m) /\ m.pc = "write" /\ m.generation = g /\ m.jobs = l.jobs /\ m.todo = l.todo \ {v}
       /\ m.revoking = l.revoking
  BY SMTT(60), <1>17, FieldsOfLocals
<1>19. /\ m.todo \subseteq g.versions
       /\ faults = 0 => \A u \in g.versions : u \in m.todo \/ <<g, u>> \in rs
  BY <1>6, <1>11, <1>18
<1>20. /\ g \in DOMAIN candidates /\ Generation(g) /\ l.jobs \subseteq Job
       /\ l.revoking \cap Documents(g.versions) = {}
  BY <1>2, <1>3, <1>4 DEF LocalsOK
<1>21. LocalsOK(m, DOMAIN candidates, DOMAIN manifests, rs, faults)
  BY <1>18, <1>19, <1>20 DEF LocalsOK
<1>22. LocalsOK(m, DOMAIN candidates', DOMAIN manifests', rows', faults')
  BY <1>9, <1>10, <1>21
<1>23. Admins'
  BY <1>9, <1>10, <1>11, <1>16, <1>22, AdminsKeep DEF Inv
<1> QED  BY <1>8, <1>14, <1>23 DEF Inv

\* prepare validates all rows before it marks the candidate READY.
LEMMA PrepareValidateKeeps ==
    ASSUME Inv, NEW a \in Admin, PrepareValidate(a)
    PROVE  Inv'
<1>1. PICK l : l = admin[a]  OBVIOUS
<1>2. LocalsOK(l, DOMAIN candidates, DOMAIN manifests, rows, faults)
  BY <1>1, LocalsHold
<1>3. PICK g : g = l.generation  OBVIOUS
<1>4. l.pc = "write" /\ Intact(g) /\ Goto(a, "mark") /\ UNCHANGED <<authorityVars, storeVars, servingVars>>
  BY <1>1, <1>3 DEF PrepareValidate, At
<1>5. Written(g, rows)
  BY <1>4 DEF Intact, Validates, Written
<1>6. /\ g \in DOMAIN candidates /\ Generation(g) /\ l.jobs \subseteq Job
      /\ l.revoking \cap Documents(g.versions) = {}
  BY <1>2, <1>3, <1>4 DEF LocalsOK
<1>7. Goto(a, "mark")
  BY <1>4
<1>8. \E m : /\ admin' = [admin EXCEPT ![a] = m] /\ IsLocals(m) /\ m.pc = "mark"
             /\ m.generation = l.generation /\ m.jobs = l.jobs /\ m.todo = l.todo
             /\ m.revoking = l.revoking
  BY SMTT(60), <1>1, <1>7, GotoFields
<1>9. PICK m : /\ admin' = [admin EXCEPT ![a] = m] /\ IsLocals(m) /\ m.pc = "mark"
               /\ m.generation = g /\ m.jobs = l.jobs /\ m.revoking = l.revoking
  BY <1>3, <1>8
<1>10. LocalsOK(m, DOMAIN candidates, DOMAIN manifests, rows, faults)
  BY <1>5, <1>6, <1>9 DEF LocalsOK
<1> QED  BY <1>4, <1>9, <1>10, QuietStep

\* prepare marks the candidate READY or, after an exception, FAILED.
LEMMA MarkStepsKeep ==
    ASSUME Inv, NEW a \in Admin, MarkReady(a) \/ PrepareFails(a)
    PROVE  Inv'
<1>1. PICK l : l = admin[a]  OBVIOUS
<1>2. LocalsOK(l, DOMAIN candidates, DOMAIN manifests, rows, faults)
  BY <1>1, LocalsHold
<1>3. PICK g : g = l.generation  OBVIOUS
<1>4. l.pc \in {"write", "mark"} /\ UNCHANGED <<active, activations, storeVars, servingVars>>
  BY <1>1 DEF MarkReady, PrepareFails, At
<1>5. g \in DOMAIN candidates /\ Generation(g) /\ l.revoking \cap Documents(g.versions) = {}
  BY <1>1, <1>3, <1>4, AtWork
<1>6. CASE MarkReady(a)
  <2>1. l.pc = "mark" /\ Mark(g, "READY") /\ Then(a, g, "validate")
    BY <1>1, <1>3, <1>6 DEF MarkReady, At
  <2>2. faults = 0 => Written(g, rows)
    BY <1>2, <1>3, <2>1 DEF LocalsOK
  <2>3. Authority' /\ Stores' /\ Requests' /\ DOMAIN candidates' = DOMAIN candidates
    BY <1>4, <1>5, <2>1, <2>2, MarkKeeps
  <2>4. Admins'
    BY <1>1, <1>4, <1>5, <2>1, <2>3, ThenKeeps
  <2> QED  BY <2>3, <2>4 DEF Inv
<1>7. CASE PrepareFails(a)
  <2>1. Mark(g, "FAILED") /\ Finish(a)
    BY <1>1, <1>3, <1>7 DEF PrepareFails
  <2>2. Authority' /\ Stores' /\ Requests' /\ DOMAIN candidates' = DOMAIN candidates
    BY <1>4, <1>5, <2>1, MarkKeeps
  <2>3. Admins'
    BY <1>4, <2>1, <2>2, FinishKeeps
  <2> QED  BY <2>2, <2>3 DEF Inv
<1> QED  BY <1>6, <1>7

\* activate and rollback have validated a candidate and go to the authority.
LEMMA ValidatedKeeps ==
    ASSUME Inv, NEW a \in Admin, NEW g \in DOMAIN candidates, NEW p \in {"forward", "rollback"}, NEW x,
           admin' = [admin EXCEPT ![a].pc = p, ![a].generation = g, ![a].expected = x],
           admin[a].revoking \cap Documents(g.versions) = {},
           UNCHANGED <<authorityVars, storeVars, servingVars>>
    PROVE  Inv'
<1>1. PICK l : l = admin[a]  OBVIOUS
<1>2. LocalsOK(l, DOMAIN candidates, DOMAIN manifests, rows, faults) /\ IsLocals(l)
  BY <1>1, LocalsHold
<1>3. Generation(g)
  BY DEF Inv, Authority, AuthorityOK
<1>4. PICK m : m = [l EXCEPT !.pc = p, !.generation = g, !.expected = x]  OBVIOUS
<1>5. admin' = [admin EXCEPT ![a] = m]
  BY <1>1, <1>4 DEF Inv, Admins
<1>6. m = LocalsOf(p, g, l.jobs, l.todo, x, l.revoking)
  <2>1. \A u, k, y : [l EXCEPT !.pc = u, !.generation = k, !.expected = y] =
                        LocalsOf(u, k, l.jobs, l.todo, y, l.revoking)
    BY <1>2, UpdatedLocals
  <2> QED  BY <1>4, <2>1
<1>7. /\ IsLocals(m) /\ m.pc = p /\ m.generation = g /\ m.jobs = l.jobs /\ m.revoking = l.revoking
  BY SMTT(60), <1>6, FieldsOfLocals
<1>8. l.jobs \subseteq Job
  BY <1>2 DEF LocalsOK
<1>9. m.revoking \cap Documents(m.generation.versions) = {}
  BY <1>1, <1>7
<1>10. p \notin {"idle", "revoke", "put", "register", "write", "mark"}
  OBVIOUS
<1>11. LocalsOK(m, DOMAIN candidates, DOMAIN manifests, rows, faults)
  BY <1>3, <1>7, <1>8, <1>9, <1>10 DEF LocalsOK
<1> QED  BY <1>5, <1>11, QuietStep

\* activate and rollback up to the transaction of the authority.
LEMMA ActivateKeeps ==
    ASSUME Inv, NEW a \in Admin, Activate(a) \/ Rollback(a)
    PROVE  Inv'
<1>1. CASE At(a, "idle") /\ \E g \in DOMAIN candidates : ValidateForward(a, g)
  <2>1. PICK g \in DOMAIN candidates : ValidateForward(a, g)
    BY <1>1
  <2>2. admin[a].revoking = {}
    BY <1>1, AtWork DEF At
  <2>3. admin[a].revoking \cap Documents(g.versions) = {}
    BY <2>2
  <2>4. PICK x : x = g.base  OBVIOUS
  <2>5. /\ admin' = [admin EXCEPT ![a].pc = "forward", ![a].generation = g, ![a].expected = x]
        /\ UNCHANGED <<authorityVars, storeVars, servingVars>>
    BY <2>1, <2>4 DEF ValidateForward
  <2> QED  BY <2>3, <2>5, ValidatedKeeps
<1>2. CASE At(a, "validate") /\ ValidateForward(a, admin[a].generation)
  <2>1. PICK g : g = admin[a].generation  OBVIOUS
  <2>2. admin[a].pc = "validate"
    BY <1>2 DEF At
  <2>3. g \in DOMAIN candidates /\ admin[a].revoking \cap Documents(g.versions) = {}
    BY <2>1, <2>2, AtWork
  <2>4. PICK x : x = g.base  OBVIOUS
  <2>5. /\ admin' = [admin EXCEPT ![a].pc = "forward", ![a].generation = g, ![a].expected = x]
        /\ UNCHANGED <<authorityVars, storeVars, servingVars>>
    BY <1>2, <2>1, <2>4 DEF ValidateForward
  <2> QED  BY <2>3, <2>5, ValidatedKeeps
<1>3. CASE Rollback(a)
  <2>1. PICK x : x = active  OBVIOUS
  <2>2. PICK g \in DOMAIN candidates :
           admin' = [admin EXCEPT ![a].pc = "rollback", ![a].generation = g, ![a].expected = x]
    BY <1>3, <2>1 DEF Rollback
  <2>3. admin[a].revoking = {}
    BY <1>3, AtWork DEF Rollback, At
  <2>4. admin[a].revoking \cap Documents(g.versions) = {}
    BY <2>3
  <2>5. UNCHANGED <<authorityVars, storeVars, servingVars>>
    BY <1>3 DEF Rollback
  <2> QED  BY <2>2, <2>4, <2>5, ValidatedKeeps
<1> QED  BY <1>1, <1>2, <1>3 DEF Activate

\* What an activation that is not the answer to a lost response does.
Activation(g, expected, operation) ==
    /\ active = expected /\ Activatable(g, expected, operation)
    /\ active.epoch < MaxEpoch
    /\ active' = [generation |-> g, epoch |-> active.epoch + 1]
    /\ candidates' = [candidates EXCEPT ![g] = "ACCEPTED"]
    /\ activations' = Append(activations,
          [generation |-> g, expected |-> expected, operation |-> operation])

\* The transaction of authority.activate keeps its three tables together.
LEMMA ActivationKeeps ==
    ASSUME Inv, NEW g, NEW x, NEW op \in {"forward", "rollback"}, Activation(g, x, op),
           UNCHANGED <<storeVars, servingVars>>
    PROVE  Authority' /\ Stores' /\ Requests' /\ DOMAIN candidates' = DOMAIN candidates
<1>1. PICK S : activations \in Seq(S)
  BY DEF Inv, Authority, AuthorityOK
<1>2. PICK n : n = Len(activations)  OBVIOUS
<1>3. n \in Nat /\ active.epoch = n
  BY <1>1, <1>2, LenFacts DEF Inv, Authority, AuthorityOK, PointerTo
<1>4. PICK e : e = [generation |-> g, expected |-> x, operation |-> op]  OBVIOUS
<1>5. e.generation = g
  BY <1>4
<1>6. PICK acts : acts = activations'  OBVIOUS
<1>7. acts = Append(activations, e)
  BY <1>4, <1>6 DEF Activation
<1>8. /\ acts \in Seq(S \cup {e}) /\ Len(acts) = n + 1 /\ acts[n + 1] = e
      /\ \A i \in 1 .. n : acts[i] = activations[i]
  BY SMTT(60), <1>1, <1>2, <1>7, AppendFacts
<1>9. PICK c : c = candidates'  OBVIOUS
<1>10. /\ g \in DOMAIN candidates /\ DOMAIN c = DOMAIN candidates /\ c[g] = "ACCEPTED"
       /\ \A h \in DOMAIN candidates : h # g => c[h] = candidates[h]
  BY <1>9 DEF Activation, Activatable
<1>11. PICK act : act = active'  OBVIOUS
<1>12. act = [generation |-> g, epoch |-> n + 1] /\ n < MaxEpoch
  BY <1>3, <1>11 DEF Activation
<1>13. acts # << >>
  BY SMTT(60), <1>3, <1>8
<1>14. act = PointerTo(acts)
  BY <1>5, <1>8, <1>12, <1>13 DEF PointerTo
<1>15. Len(acts) <= MaxEpoch
  BY SMTT(60), <1>3, <1>8, <1>12, PublicationAssumption
<1>16. \A i \in 1 .. n + 1 : i \in 1 .. n \/ i = n + 1
  BY SMTT(60), <1>3
<1>17. 1 .. n \subseteq 1 .. n + 1 /\ n + 1 \in 1 .. n + 1
  BY SMTT(60), <1>3
<1>18. \A i \in 1 .. Len(acts) : acts[i].generation \in DOMAIN c /\ c[acts[i].generation] = "ACCEPTED"
  <2>1. \A i \in 1 .. n : /\ activations[i].generation \in DOMAIN candidates
                          /\ candidates[activations[i].generation] = "ACCEPTED"
    BY <1>2 DEF Inv, Authority, AuthorityOK
  <2>2. \A h \in DOMAIN candidates : candidates[h] = "ACCEPTED" => h \in DOMAIN c /\ c[h] = "ACCEPTED"
    BY <1>10
  <2> QED  BY <1>5, <1>8, <1>10, <1>16, <2>1, <2>2
<1>19. \A h \in DOMAIN candidates : candidates[h] = "ACCEPTED" =>
          h.base.epoch + 1 \in 1 .. n /\ activations[h.base.epoch + 1].generation = h
  BY <1>2 DEF Inv, Authority, AuthorityOK
<1>20. candidates[g] = "ACCEPTED" \/ (candidates[g] = "READY" /\ g.base = x)
  BY DEF Activation, Activatable
<1>21. g.base = x => g.base.epoch + 1 = n + 1
  BY <1>3 DEF Activation
<1>22. \A h \in DOMAIN candidates : candidates[h] = "ACCEPTED" =>
          h.base.epoch + 1 \in 1 .. n + 1 /\ acts[h.base.epoch + 1].generation = h
  BY <1>8, <1>17, <1>19
<1>23. g.base.epoch + 1 \in 1 .. n + 1 /\ acts[g.base.epoch + 1].generation = g
  BY <1>5, <1>8, <1>10, <1>17, <1>20, <1>21, <1>22
<1>24. \A h \in DOMAIN c :
          /\ Generation(h) /\ c[h] \in CandidateState
          /\ c[h] = "ACCEPTED" => /\ h.base.epoch + 1 \in 1 .. Len(acts)
                                  /\ acts[h.base.epoch + 1].generation = h
  <2>1. \A h \in DOMAIN c : Generation(h) /\ c[h] \in CandidateState
    BY <1>10 DEF Inv, Authority, AuthorityOK, CandidateState
  <2>2. \A h \in DOMAIN c : c[h] = "ACCEPTED" =>
           h.base.epoch + 1 \in 1 .. n + 1 /\ acts[h.base.epoch + 1].generation = h
    BY <1>10, <1>22, <1>23
  <2> QED  BY <1>8, <2>1, <2>2
<1>25. AuthorityOK(act, c, acts)
  BY <1>8, <1>14, <1>15, <1>18, <1>24 DEF AuthorityOK
<1>26. StoresOK(c, manifests, rows, intact, faults)
  <2>1. faults = 0 => \A h \in DOMAIN c : c[h] \in {"READY", "ACCEPTED"} => Written(h, rows)
    BY <1>10, <1>20 DEF Inv, Stores, StoresOK
  <2> QED  BY <1>10, <2>1 DEF Inv, Stores, StoresOK
<1>27. Authority' /\ Stores'
  BY <1>6, <1>9, <1>11, <1>25, <1>26 DEF Authority, Stores, storeVars
<1>28. \A q \in Request : IsRequest(request[q]) /\ RequestOK(request[q], c, acts)
  BY <1>2, <1>8, <1>10, <1>17 DEF Inv, Requests, RequestOK
<1>29. Requests'
  BY <1>6, <1>9, <1>28 DEF Inv, Requests, servingVars
<1> QED  BY <1>9, <1>10, <1>27, <1>29

\* activate and rollback commit, or find that they had committed.
LEMMA CommitKeeps ==
    ASSUME Inv, NEW a \in Admin, Commit(a)
    PROVE  Inv'
<1>1. PICK g, x, op : g = admin[a].generation /\ x = admin[a].expected /\ op = admin[a].pc
  OBVIOUS
<1>2. /\ op \in {"forward", "rollback"} /\ AuthorityActivate(g, x, op) /\ Finish(a)
      /\ UNCHANGED <<storeVars, servingVars>>
  BY <1>1 DEF Commit
<1>3. UNCHANGED authorityVars \/ Activation(g, x, op)
  BY <1>2 DEF AuthorityActivate, Activation, Current
<1>4. CASE UNCHANGED authorityVars
  <2>1. Authority' /\ Stores' /\ Requests'
    BY <1>2, <1>4 DEF Inv, Authority, Stores, Requests, authorityVars, storeVars, servingVars
  <2>2. DOMAIN candidates' = DOMAIN candidates
    BY <1>4 DEF authorityVars
  <2>3. Admins'
    BY <1>2, <2>2, FinishKeeps
  <2> QED  BY <2>1, <2>3 DEF Inv
<1>5. CASE Activation(g, x, op)
  <2>1. Authority' /\ Stores' /\ Requests' /\ DOMAIN candidates' = DOMAIN candidates
    BY <1>2, <1>5, ActivationKeeps
  <2>2. Admins'
    BY <1>2, <2>1, FinishKeeps
  <2> QED  BY <2>1, <2>2 DEF Inv
<1> QED  BY <1>3, <1>4, <1>5

\* revoke selects the jobs that remain from the manifest of the active generation.
LEMMA RevokeKeeps ==
    ASSUME Inv, NEW a \in Admin, Revoke(a)
    PROVE  Inv'
<1>1. PICK l : l = admin[a]  OBVIOUS
<1>2. IsLocals(l)
  BY <1>1, LocalsHold
<1>3. PICK g : g = active.generation  OBVIOUS
<1>4. PICK selected :
         admin' = [admin EXCEPT ![a].pc = "revoke", ![a].revoking = selected,
                     ![a].jobs = {j \in manifests[g] : DocumentOf[VersionOf[j]] \notin selected}]
  BY <1>3 DEF Revoke
<1>5. g # NoGeneration /\ UNCHANGED <<authorityVars, storeVars, servingVars>>
  BY <1>3 DEF Revoke
<1>6. g \in DOMAIN candidates
  BY <1>3, <1>5, ActiveIsAccepted DEF Inv
<1>7. manifests[g] \subseteq Job
  BY <1>6 DEF Inv, Stores, StoresOK
<1>8. PICK jobs : jobs = {j \in manifests[g] : DocumentOf[VersionOf[j]] \notin selected}  OBVIOUS
<1>9. jobs \subseteq Job /\ selected \cap Documents({VersionOf[j] : j \in jobs}) = {}
  BY <1>7, <1>8 DEF Documents
<1>10. PICK m : m = [l EXCEPT !.pc = "revoke", !.revoking = selected, !.jobs = jobs]  OBVIOUS
<1>11. admin' = [admin EXCEPT ![a] = m]
  BY <1>1, <1>4, <1>8, <1>10 DEF Inv, Admins
<1>12. m = LocalsOf("revoke", l.generation, jobs, l.todo, l.expected, selected)
  <2>1. \A p, r, j : [l EXCEPT !.pc = p, !.revoking = r, !.jobs = j] =
                       LocalsOf(p, l.generation, j, l.todo, l.expected, r)
    BY <1>2, UpdatedLocals
  <2> QED  BY <1>10, <2>1
<1>13. IsLocals(m) /\ m.pc = "revoke" /\ m.jobs = jobs /\ m.revoking = selected
  BY SMTT(60), <1>12, FieldsOfLocals
<1>14. LocalsOK(m, DOMAIN candidates, DOMAIN manifests, rows, faults)
  BY <1>9, <1>13 DEF LocalsOK
<1> QED  BY <1>5, <1>11, <1>14, QuietStep

\* An operation fails or its process dies (PublicationService).
LEMMA AbortKeeps ==
    ASSUME Inv, NEW a \in Admin, Abort(a)
    PROVE  Inv'
<1>1. /\ Finish(a) /\ UNCHANGED <<authorityVars, storeVars, servingVars>>
  BY DEF Abort
<1>2. Authority' /\ Stores' /\ Requests'
  BY <1>1 DEF Inv, Authority, Stores, Requests, authorityVars, storeVars, servingVars
<1>3. candidates' = candidates
  BY <1>1 DEF authorityVars
<1>4. Admins'
  BY <1>1, <1>3, FinishKeeps
<1> QED  BY <1>2, <1>4 DEF Inv

-----------------------------------------------------------------------------
(* Requests, replicas and losses. *)

\* A request moves; everything else that the invariant speaks of stays.
LEMMA RequestStep ==
    ASSUME Inv, NEW q \in Request, NEW m, request' = [request EXCEPT ![q] = m],
           IsRequest(m), RequestOK(m, candidates, activations),
           UNCHANGED <<authorityVars, storeVars, admin>>
    PROVE  Inv'
<1>1. Authority' /\ Stores' /\ Admins'
  BY DEF Inv, Authority, Stores, Admins, authorityVars, storeVars
<1>2. /\ request' = [p \in Request |-> request'[p]] /\ request'[q] = m
      /\ \A p \in Request \ {q} : request'[p] = request[p]
  BY DEF Inv, Requests
<1>3. candidates' = candidates /\ activations' = activations
  BY DEF authorityVars
<1>4. Requests'
  BY <1>2, <1>3 DEF Inv, Requests
<1> QED  BY <1>1, <1>4 DEF Inv

\* A request that is not admitted holds nothing (DocumentAnalysis.analyze).
LEMMA IdleRequestOK ==
    ASSUME NEW cands, NEW acts
    PROVE  IsRequest(IdleRequest) /\ RequestOK(IdleRequest, cands, acts)
<1>1. IsRequest(IdleRequest) /\ IdleRequest.pc = "idle"
  BY SMTT(60) DEF IsRequest, IdleRequest
<1> QED  BY <1>1 DEF RequestOK

\* A request that goes on keeps its pin and may cite less or what it selected.
LEMMA PinnedStep ==
    ASSUME Inv, NEW q \in Request, request[q].pc # "idle", NEW p, NEW cited,
           cited \subseteq Selected(request[q].generation, request[q].documents),
           request' = [request EXCEPT ![q].pc = p, ![q].cited = cited],
           UNCHANGED <<authorityVars, storeVars, admin>>
    PROVE  Inv'
<1>1. PICK k, g, e, d : /\ g = request[q].generation /\ e = request[q].epoch /\ d = request[q].documents
                        /\ k = request[q]
  OBVIOUS
<1>2. IsRequest(k) /\ RequestOK(k, candidates, activations)
  BY <1>1 DEF Inv, Requests
<1>3. PICK m : m = [pc |-> p, generation |-> g, epoch |-> e, documents |-> d, cited |-> cited]
  OBVIOUS
<1>4. k = [pc |-> k.pc, generation |-> g, epoch |-> e, documents |-> d, cited |-> k.cited]
  BY <1>1, <1>2 DEF IsRequest
<1>5. [k EXCEPT !.pc = p] = [pc |-> p, generation |-> g, epoch |-> e, documents |-> d, cited |-> k.cited]
  BY SMTT(60), <1>4
<1>6. PICK k1 : k1 = [k EXCEPT !.pc = p]  OBVIOUS
<1>7. [k1 EXCEPT !.cited = cited] = m
  <2>1. PICK c : c = k.cited  OBVIOUS
  <2>2. k1 = [pc |-> p, generation |-> g, epoch |-> e, documents |-> d, cited |-> c]
    BY <1>5, <1>6, <2>1
  <2> QED  BY SMTT(60), <1>3, <2>2
<1>8. [k EXCEPT !.pc = p, !.cited = cited] = m
  BY <1>6, <1>7
<1>9. request' = [request EXCEPT ![q] = m]
  BY <1>1, <1>8 DEF Inv, Requests
<1>10. IsRequest(m) /\ m.generation = g /\ m.epoch = e /\ m.documents = d /\ m.cited = cited
  BY SMTT(60), <1>3 DEF IsRequest
<1>11. RequestOK(m, candidates, activations)
  BY <1>1, <1>2, <1>10 DEF RequestOK
<1> QED  BY <1>9, <1>10, <1>11, RequestStep

\* pin admits a request to what is active now.
LEMMA PinKeeps ==
    ASSUME Inv, NEW q \in Request, NEW r \in Replica, Pin(q, r)
    PROVE  Inv'
<1>1. PICK g, e : g = active.generation /\ e = active.epoch  OBVIOUS
<1>2. g # NoGeneration /\ replica[r].snapshot = g
  BY <1>1 DEF Pin, Admits
<1>3. PICK docs : request' = [request EXCEPT ![q] = [pc |-> "pinned", generation |-> g,
                                 epoch |-> e, documents |-> docs, cited |-> {}]]
  BY <1>1, <1>2 DEF Pin
<1>4. PICK m : m = [pc |-> "pinned", generation |-> g, epoch |-> e, documents |-> docs, cited |-> {}]
  OBVIOUS
<1>5. /\ IsRequest(m) /\ m.generation = g /\ m.epoch = e /\ m.cited = {}
  BY SMTT(60), <1>4 DEF IsRequest
<1>6. /\ g \in DOMAIN candidates /\ candidates[g] = "ACCEPTED"
      /\ e \in 1 .. Len(activations) /\ activations[e].generation = g
  BY <1>1, <1>2, ActiveIsAccepted DEF Inv
<1>7. RequestOK(m, candidates, activations)
  BY <1>5, <1>6 DEF RequestOK
<1>8. request' = [request EXCEPT ![q] = m] /\ UNCHANGED <<authorityVars, storeVars, admin>>
  BY <1>3, <1>4 DEF Pin
<1> QED  BY <1>5, <1>7, <1>8, RequestStep

\* analyze retrieves, cites, answers and ends.
LEMMA RequestStepsKeep ==
    ASSUME Inv, NEW q \in Request, Retrieve(q) \/ Cite(q) \/ Answer(q) \/ Close(q)
    PROVE  Inv'
<1>1. UNCHANGED <<authorityVars, storeVars, admin>> /\ request[q].pc # "idle"
  BY DEF Retrieve, Cite, Answer, Close
<1>2. request[q].cited \subseteq Selected(request[q].generation, request[q].documents)
  BY <1>1 DEF Inv, Requests, RequestOK
<1>3. CASE Retrieve(q)
  <2>1. PICK hits \in SUBSET Selected(request[q].generation, request[q].documents) :
           request' = [request EXCEPT ![q].pc = "retrieved", ![q].cited = hits]
    BY <1>3 DEF Retrieve
  <2> QED  BY <1>1, <2>1, PinnedStep
<1>4. CASE Answer(q)
  <2>1. PICK ids \in SUBSET request[q].cited :
           request' = [request EXCEPT ![q].pc = "answered", ![q].cited = ids]
    BY <1>4 DEF Answer
  <2>2. ids \subseteq Selected(request[q].generation, request[q].documents)
    BY <1>2, <2>1
  <2> QED  BY <1>1, <2>1, <2>2, PinnedStep
<1>5. CASE Cite(q)
  <2>1. PICK p, k : p = (IF request[q].cited = {} THEN "answered" ELSE "generating") /\ k = request[q]
    OBVIOUS
  <2>2. request' = [request EXCEPT ![q].pc = p]
    BY <1>5, <2>1 DEF Cite
  <2>3. IsRequest(k) /\ RequestOK(k, candidates, activations)
    BY <2>1 DEF Inv, Requests
  <2>4. PICK m : m = [k EXCEPT !.pc = p]  OBVIOUS
  <2>5. request' = [request EXCEPT ![q] = m]
    BY <2>1, <2>2, <2>4 DEF Inv, Requests
  <2>6. m = [pc |-> p, generation |-> k.generation, epoch |-> k.epoch, documents |-> k.documents,
             cited |-> k.cited]
    <3>1. PICK kp, g, e, d, c :
             kp = k.pc /\ g = k.generation /\ e = k.epoch /\ d = k.documents /\ c = k.cited
      OBVIOUS
    <3>2. k = [pc |-> kp, generation |-> g, epoch |-> e, documents |-> d, cited |-> c]
      BY <2>3, <3>1 DEF IsRequest
    <3>3. m = [pc |-> p, generation |-> g, epoch |-> e, documents |-> d, cited |-> c]
      BY SMTT(60), <2>4, <3>2
    <3> QED  BY <3>1, <3>3
  <2>7. /\ IsRequest(m) /\ m.generation = k.generation /\ m.epoch = k.epoch /\ m.documents = k.documents
        /\ m.cited = k.cited
    BY SMTT(60), <2>6 DEF IsRequest
  <2>8. RequestOK(m, candidates, activations)
    BY <1>1, <2>1, <2>3, <2>7 DEF RequestOK
  <2> QED  BY <1>1, <2>5, <2>7, <2>8, RequestStep
<1>6. CASE Close(q)
  <2>1. PICK m : m = IdleRequest  OBVIOUS
  <2>2. request' = [request EXCEPT ![q] = m]
    BY <1>6, <2>1 DEF Close
  <2>3. IsRequest(m) /\ RequestOK(m, candidates, activations)
    BY <2>1, IdleRequestOK
  <2> QED  BY <1>1, <2>2, <2>3, RequestStep
<1> QED  BY <1>3, <1>4, <1>5, <1>6

\* A replica restarts, loads or installs a snapshot (PublicationReplica.load).
LEMMA ReplicaKeeps ==
    ASSUME Inv, NEW r \in Replica, Restart(r) \/ Load(r) \/ Install(r)
    PROVE  Inv'
<1>1. UNCHANGED <<authorityVars, storeVars, admin>>
  BY DEF Restart, Load, Install
<1>2. Authority' /\ Stores' /\ Admins' /\ candidates' = candidates /\ activations' = activations
  BY <1>1 DEF Inv, Authority, Stores, Admins, authorityVars, storeVars
<1>3. CASE Restart(r)
  <2>1. request' = [q \in Request |-> IdleRequest]
    BY <1>3 DEF Restart
  <2>2. \A q \in Request : request'[q] = IdleRequest
    BY <2>1
  <2>3. Requests'
    BY <2>1, <2>2, IdleRequestOK DEF Requests
  <2> QED  BY <1>2, <2>3 DEF Inv
<1>4. CASE Load(r) \/ Install(r)
  <2>1. request' = request
    BY <1>4 DEF Load, Install
  <2> QED  BY <1>2, <2>1 DEF Inv, Requests
<1> QED  BY <1>3, <1>4

\* The environment loses a row or an artifact: the invariant then claims less.
LEMMA FaultKeeps ==
    ASSUME Inv, Fault
    PROVE  Inv'
<1>1. /\ UNCHANGED <<authorityVars, manifests, admin, servingVars>>
      /\ faults' = faults + 1 /\ faults < MaxFaults
  BY DEF Fault
<1>2. faults \in 0 .. MaxFaults
  BY DEF Inv, Stores, StoresOK
<1>3. faults' # 0 /\ faults' \in 0 .. MaxFaults
  BY SMTT(60), <1>1, <1>2, PublicationAssumption
<1>4. rows' \subseteq rows /\ intact' \subseteq intact
  BY DEF Fault
<1>5. candidates' = candidates /\ manifests' = manifests /\ admin' = admin
  BY <1>1 DEF authorityVars
<1>6. Authority' /\ Requests'
  BY <1>1 DEF Inv, Authority, Requests, authorityVars, servingVars
<1>7. PICK rs, ok, lost : rs = rows' /\ ok = intact' /\ lost = faults'  OBVIOUS
<1>8. StoresOK(candidates, manifests, rs, ok, lost)
  BY <1>3, <1>4, <1>7 DEF Inv, Stores, StoresOK
<1>9. Stores'
  BY <1>5, <1>7, <1>8 DEF Stores
<1>10. \A a \in Admin : LocalsOK(admin[a], DOMAIN candidates, DOMAIN manifests, rs, lost)
  <2> TAKE a \in Admin
  <2>1. PICK l : l = admin[a]  OBVIOUS
  <2>2. LocalsOK(l, DOMAIN candidates, DOMAIN manifests, rows, faults)
    BY <2>1, LocalsHold
  <2>3. LocalsOK(l, DOMAIN candidates, DOMAIN manifests, rs, lost)
    BY SMTT(60), <1>3, <1>7, <2>2, LocalsStable
  <2> QED  BY <2>1, <2>3
<1>11. Admins'
  BY <1>5, <1>7, <1>10 DEF Inv, Admins
<1> QED  BY <1>6, <1>9, <1>11 DEF Inv

-----------------------------------------------------------------------------
(* The theorems. *)

\* An empty authority satisfies the invariant.
LEMMA InitInv == Init => Inv
<1> SUFFICES ASSUME Init PROVE Inv
  OBVIOUS
<1>1. /\ DOMAIN candidates = {} /\ DOMAIN manifests = {} /\ rows = {} /\ intact = Version /\ faults = 0
  BY SMTT(60) DEF Init
<1>2. activations = << >> /\ activations \in Seq({}) /\ Len(activations) = 0 /\ 1 .. Len(activations) = {}
  BY SMTT(60) DEF Init
<1>3. active = PointerTo(activations)
  BY <1>2 DEF Init, PointerTo
<1>4. 0 <= MaxEpoch /\ 0 \in 0 .. MaxFaults
  BY SMTT(60), PublicationAssumption
<1>5. Authority
  BY <1>1, <1>2, <1>3, <1>4 DEF Authority, AuthorityOK
<1>6. Stores
  BY <1>1, <1>4 DEF Stores, StoresOK
<1>7. Admins
  BY IdleOK DEF Admins, Init
<1>8. Requests
  BY IdleRequestOK DEF Requests, Init
<1> QED  BY <1>5, <1>6, <1>7, <1>8 DEF Inv

\* Every step of administrators, replicas, requests and the environment keeps the invariant.
LEMMA NextInv == Inv /\ [Next]_vars => Inv'
<1> SUFFICES ASSUME Inv, [Next]_vars PROVE Inv'
  OBVIOUS
<1>1. ASSUME NEW a \in Admin, AdminStep(a)
      PROVE  Inv'
  BY <1>1, PlanStepsKeep, PutKeeps, RegisterKeeps, PrepareKeeps, PrepareCheckKeeps, WriteKeeps,
     PrepareValidateKeeps, MarkStepsKeep, ActivateKeeps, CommitKeeps, RevokeKeeps, AbortKeeps DEF AdminStep
<1>2. CASE ServingStep
  BY <1>2, ReplicaKeeps, PinKeeps, RequestStepsKeep DEF ServingStep
<1>3. CASE Fault
  BY <1>3, FaultKeeps
<1>4. CASE UNCHANGED vars
  <2>1. UNCHANGED <<authorityVars, storeVars, admin, request>>
    BY <1>4 DEF vars, servingVars
  <2> QED  BY <2>1 DEF Inv, Authority, Stores, Admins, Requests, authorityVars, storeVars
<1> QED  BY <1>1, <1>2, <1>3, <1>4 DEF Next

\* The invariant holds in every state.
LEMMA InvHolds == PublicationSpec => []Inv
BY InitInv, NextInv, PTL DEF PublicationSpec

\* The authority, the candidates and the stores agree, however many administrators plan,
\* prepare, activate and roll back at once: the active row is the last activation, of the
\* candidates with one base at most one is accepted, and what is READY or ACCEPTED is
\* completely written unless the environment lost something (authority.activate, prepare).
THEOREM PublicationIsConsistent == PublicationSpec => []PublicationInv
<1>1. Inv => PublicationInv
  BY PublicationFollows
<1> QED  BY <1>1, InvHolds, PTL

\* An admitted request can finish on its generation whatever is prepared, activated or
\* rolled back meanwhile, and answers from the generation of the epoch it was admitted
\* at, out of the documents it selected (pin, validate_pin, analyze).
THEOREM AdmittedRequestsFinish == PublicationSpec => []AdmittedIsAnswered
<1>1. Inv => AdmittedIsAnswered
  BY AdmittedFollows
<1> QED  BY <1>1, InvHolds, PTL

\* Only the transaction of authority.activate changes what is active.
LEMMA OnlyCommitActivates ==
    ASSUME Inv, Next, active' # active
    PROVE  \E a \in Admin : /\ Commit(a)
                            /\ Activation(admin[a].generation, admin[a].expected, admin[a].pc)
<1>1. PICK a \in Admin : AdminStep(a)
  BY DEF Next, ServingStep, Restart, Load, Install, Pin, Retrieve, Cite, Answer, Close, Fault, authorityVars
<1>2. Commit(a)
  BY <1>1 DEF AdminStep, Plan, Put, Register, Prepare, PrepareCheck, Write, PrepareValidate, MarkReady,
     PrepareFails, Activate, Rollback, Revoke, RevokePlan, Abort, PlanFrom, PrepareFrom, ValidateForward,
     authorityVars
<1>3. Activation(admin[a].generation, admin[a].expected, admin[a].pc)
  BY <1>2 DEF Commit, AuthorityActivate, Activation, Current, authorityVars
<1> QED  BY <1>2, <1>3

\* What a revocation activates holds none of the documents it revokes, although it reads
\* the active row twice and other administrators act in between (revoke).
THEOREM RevocationsRevoke == PublicationSpec => RevokedIsGone
<1>1. ASSUME Inv, [Next]_vars
      PROVE  [\A a \in Admin : admin[a].revoking # {} /\ active' # active /\ admin'[a] # admin[a] =>
                 Documents(active'.generation.versions) \cap admin[a].revoking = {}]_vars
  <2> SUFFICES ASSUME NEW a \in Admin, active' # active, admin'[a] # admin[a]
               PROVE  Documents(active'.generation.versions) \cap admin[a].revoking = {}
    OBVIOUS
  <2>1. Next
    BY <1>1 DEF vars, authorityVars
  <2>2. PICK b \in Admin : Commit(b) /\ Activation(admin[b].generation, admin[b].expected, admin[b].pc)
    BY <1>1, <2>1, OnlyCommitActivates
  <2>3. a = b
    BY <1>1, <2>2 DEF Commit, Finish, Inv, Admins
  <2>4. active'.generation = admin[a].generation
    BY <2>2, <2>3 DEF Activation
  <2>5. admin[a].revoking \cap Documents(admin[a].generation.versions) = {}
    BY <1>1, <2>2, <2>3, AtWork DEF Commit
  <2> QED  BY <2>4, <2>5
<1> QED  BY <1>1, InvHolds, PTL DEF PublicationSpec, RevokedIsGone

-----------------------------------------------------------------------------
(* The activations implement the linear history. *)

\* The generations of a sequence of activations.
GenerationsOf(acts) == [i \in DOMAIN acts |-> acts[i].generation]

\* Appending an activation appends its generation (authority.activate).
LEMMA GenerationsAppend ==
    ASSUME NEW S, NEW s \in Seq(S), NEW e
    PROVE  /\ Len(GenerationsOf(s)) = Len(s)
           /\ GenerationsOf(s) = << >> <=> s = << >>
           /\ GenerationsOf(Append(s, e)) = Append(GenerationsOf(s), e.generation)
<1>1. PICK T : T = {s[i].generation : i \in 1 .. Len(s)} \cup {e.generation}  OBVIOUS
<1>2. Len(s) \in Nat /\ DOMAIN s = 1 .. Len(s)
  BY LenFacts
<1>3. PICK h : h = GenerationsOf(s)  OBVIOUS
<1>4. h = [i \in 1 .. Len(s) |-> s[i].generation]
  BY <1>2, <1>3 DEF GenerationsOf
<1>5. h \in Seq(T) /\ Len(h) = Len(s)
  BY SMTT(60), <1>1, <1>2, <1>4
<1>6. h = << >> <=> s = << >>
  BY SMTT(60), <1>2, <1>5
<1>7. PICK t : t = Append(s, e)  OBVIOUS
<1>8. /\ Len(t) = Len(s) + 1 /\ DOMAIN t = 1 .. Len(s) + 1
      /\ \A i \in 1 .. Len(s) : t[i] = s[i] /\ t[Len(s) + 1] = e
  BY SMTT(60), <1>2, <1>7
<1>9. GenerationsOf(t) = Append(h, e.generation)
  <2>1. GenerationsOf(t) = [i \in 1 .. Len(s) + 1 |-> t[i].generation]
    BY <1>8 DEF GenerationsOf
  <2> QED  BY SMTT(60), <1>2, <1>4, <1>5, <1>7, <1>8, <2>1
<1> QED  BY <1>3, <1>5, <1>6, <1>7, <1>9

\* A forward activation publishes on the newest generation, a rollback restores an earlier one.
LEMMA ActivationIsHistory ==
    ASSUME Inv, NEW g, NEW x, NEW op \in {"forward", "rollback"}, Activation(g, x, op)
    PROVE  History!Publish \/ History!Restore
<1>1. PICK S : activations \in Seq(S)
  BY DEF Inv, Authority, AuthorityOK
<1>2. PICK e : e = [generation |-> g, expected |-> x, operation |-> op]  OBVIOUS
<1>3. e.generation = g
  BY <1>2
<1>4. activations' = Append(activations, e)
  BY <1>2 DEF Activation
<1>5. PICK h, acts : h = GenerationsOf(activations) /\ acts = activations  OBVIOUS
<1>6. /\ GenerationsOf(activations') = Append(h, g)
      /\ Len(h) = Len(activations) /\ (h = << >> <=> activations = << >>)
  BY <1>1, <1>3, <1>4, <1>5, GenerationsAppend
<1>7. Len(activations) \in Nat /\ DOMAIN activations = 1 .. Len(activations)
      /\ (activations = << >> <=> Len(activations) = 0)
  BY <1>1, LenFacts
<1>8. DOMAIN h = DOMAIN activations /\ \A i \in DOMAIN activations : h[i] = activations[i].generation
  BY <1>5 DEF GenerationsOf
<1>9. CASE candidates[g] = "ACCEPTED"
  <2>1. PICK i \in 1 .. Len(activations) : activations[i].generation = g
    BY <1>9 DEF Inv, Authority, AuthorityOK, Activation, Activatable
  <2>2. i \in DOMAIN h /\ h[i] = g
    BY <1>7, <1>8, <2>1
  <2>3. \E k \in DOMAIN h : GenerationsOf(activations') = Append(h, h[k])
    BY <1>6, <2>2
  <2> QED  BY <1>5, <2>3 DEF History!Restore, GenerationsOf
<1>10. CASE candidates[g] # "ACCEPTED"
  <2>1. g \in DOMAIN candidates /\ g.base = x /\ active = x
    BY <1>10 DEF Activation, Activatable
  <2>2. g = [versions |-> g.versions, base |-> active] /\ g.versions \in SUBSET Version
    BY <2>1 DEF Inv, Authority, AuthorityOK, Generation
  <2>3. active = PointerTo(activations)
    BY DEF Inv, Authority, AuthorityOK
  <2>4. active = [generation |-> IF h = << >> THEN NoGeneration ELSE h[Len(h)], epoch |-> Len(h)]
    <3>1. activations # << >> => Len(activations) \in DOMAIN activations
      BY SMTT(60), <1>7
    <3>2. activations # << >> => h[Len(h)] = activations[Len(activations)].generation
      BY <1>6, <1>8, <3>1
    <3> QED  BY <1>6, <2>3, <3>2 DEF PointerTo
  <2>5. \E vs \in SUBSET Version :
           GenerationsOf(activations') =
              Append(h, [versions |-> vs,
                         base |-> [generation |-> IF h = << >> THEN NoGeneration ELSE h[Len(h)],
                                   epoch |-> Len(h)]])
    BY <1>6, <2>2, <2>4
  <2> QED  BY <1>5, <2>5 DEF History!Publish, History!Pointer, History!Newest, GenerationsOf
<1> QED  BY <1>9, <1>10

\* The audit table is one linear history of publications and restorations: a forward
\* activation extends exactly the publication its candidate was planned on, and nothing
\* that was published is rewritten, however many administrators race (authority.activate).
THEOREM ActivationsAreLinear == PublicationSpec => ImplementsHistory
<1>1. Init => GenerationsOf(activations) = << >>
  BY SMTT(60) DEF Init, GenerationsOf
<1>2. ASSUME Inv, [Next]_vars
      PROVE  [History!Publish \/ History!Restore]_(GenerationsOf(activations))
  <2>1. CASE activations' = activations
    BY <2>1 DEF GenerationsOf
  <2>2. CASE active' # active
    <3>1. Next
      BY <1>2, <2>2 DEF vars, authorityVars
    <3>2. PICK a \in Admin : Commit(a) /\ Activation(admin[a].generation, admin[a].expected, admin[a].pc)
      BY <1>2, <2>2, <3>1, OnlyCommitActivates
    <3>3. admin[a].pc \in {"forward", "rollback"}
      BY <3>2 DEF Commit
    <3>4. PICK g, x, op : g = admin[a].generation /\ x = admin[a].expected /\ op = admin[a].pc
      OBVIOUS
    <3> QED  BY <1>2, <3>2, <3>3, <3>4, ActivationIsHistory
  <2>3. CASE active' = active /\ activations' # activations
    <3>1. PICK a \in Admin : Commit(a)
      BY <1>2, <2>3 DEF Next, ServingStep, Restart, Load, Install, Pin, Retrieve, Cite, Answer, Close, Fault,
         AdminStep, Plan, Put, Register, Prepare, PrepareCheck, Write, PrepareValidate, MarkReady,
         PrepareFails, Activate, Rollback, Revoke, RevokePlan, Abort, PlanFrom, PrepareFrom, ValidateForward,
         vars, authorityVars
    <3>2. active' = [generation |-> admin[a].generation, epoch |-> active.epoch + 1]
      BY <2>3, <3>1 DEF Commit, AuthorityActivate, authorityVars
    <3>3. active'.epoch = active.epoch + 1
      BY <3>2
    <3> QED  BY SMTT(60), <1>2, <2>3, <3>3, EpochIsNat DEF Inv
  <2> QED  BY <2>1, <2>2, <2>3
<1>3. PublicationSpec => GenerationsOf(activations) = << >> /\
                         [][History!Publish \/ History!Restore]_(GenerationsOf(activations))
  BY <1>1, <1>2, InvHolds, PTL DEF PublicationSpec
<1> QED  BY <1>3, PTL DEF ImplementsHistory, History!HistorySpec, GenerationsOf

-----------------------------------------------------------------------------
(* One key of the object store. *)

\* StoreInv without what follows from it.
PutsKnow == StoreTypeOK /\ ObjectIsComplete /\ \A p \in PutCall : PutKnows(p)

-----------------------------------------------------------------------------
(* Reading. *)

\* An object has one link when no pending name is left (_read).
LEMMA LinkCount ==
    ASSUME NEW o
    PROVE  Links(o) = 1 <=> o \notin pending
<1>1. CASE o \in pending
  <2>1. {o} \cap pending = {o}
    BY <1>1
  <2>2. Cardinality({o} \cap pending) = 1
    BY <2>1, FS_Singleton
  <2> QED  BY SMTT(60), <1>1, <2>2 DEF Links
<1>2. CASE o \notin pending
  <2>1. {o} \cap pending = {}
    BY <1>2
  <2>2. Cardinality({o} \cap pending) = 0
    BY <2>1, FS_EmptySet
  <2> QED  BY SMTT(60), <1>2, <2>2 DEF Links
<1> QED  BY <1>1, <1>2

\* What _read finds, by the state of the object.
LEMMA ReadFinds ==
    ASSUME PutsKnow, NEW c
    PROVE  /\ ReadResult(c) = "ref" <=> object # NoPut /\ object \notin pending /\ file[object] = c
           /\ ReadResult(c) = "storage_error" <=> object # NoPut /\ object \in pending
<1>1. Links(object) = 1 <=> object \notin pending
  BY LinkCount
<1>2. object # NoPut => file[object] \notin Oversized
  BY DEF PutsKnow, ObjectIsComplete
<1> QED  BY <1>1, <1>2 DEF ReadResult

\* The invariant implies what a run checks.
LEMMA StoreFollows ==
    ASSUME PutsKnow
    PROVE  StoreInv
<1>1. ReturnedStaysReadable
  BY ReadFinds DEF PutsKnow, PutKnows, ReturnedStaysReadable
<1> QED  BY <1>1 DEF PutsKnow, StoreInv

-----------------------------------------------------------------------------
(* The calls of a put. *)

\* What a step of p leaves alone.
Others(p) ==
    \A q \in PutCall : q # p => pc'[q] = pc[q] /\ file'[q] = file[q] /\ outcome'[q] = outcome[q]
                           /\ (q \in pending' <=> q \in pending) /\ (q \in removed' => q \in removed)

\* A step of p keeps what the other puts know, if it leaves the object and its names alone.
LEMMA OthersKnow ==
    ASSUME PutsKnow, NEW p \in PutCall, Others(p), arg' = arg, object' = object,
           synced => synced', object # NoPut => file'[object] = file[object],
           object # NoPut /\ object \notin pending => object \notin pending',
           object # NoPut /\ object \notin pending /\ object \notin removed => object \notin removed'
    PROVE  \A q \in PutCall : q # p => PutKnows(q)'
<1> SUFFICES ASSUME NEW q \in PutCall, q # p PROVE PutKnows(q)'
  OBVIOUS
<1>1. PutKnows(q)
  BY DEF PutsKnow
<1>2. /\ pc'[q] = pc[q] /\ file'[q] = file[q] /\ outcome'[q] = outcome[q] /\ arg'[q] = arg[q]
      /\ q \in pending' <=> q \in pending
  BY DEF Others
<1>3. /\ pc'[q] \in {"link", "unlink", "sync"} => file'[q] = arg'[q] /\ arg'[q] \notin Oversized
      /\ pc'[q] # "ended" => outcome'[q] = ""
      /\ pc'[q] = "sync" => q \notin pending'
  BY <1>1, <1>2 DEF PutKnows
<1>4. pc'[q] \in {"unlink", "sync"} =>
          object' # NoPut /\ file'[object'] = arg'[q] /\ (q = object' \/ object' \notin pending')
  BY <1>1, <1>2 DEF PutKnows
<1>5. outcome'[q] = "ref" => /\ object' # NoPut /\ object' \notin pending' \cup removed'
                             /\ file'[object'] = arg'[q] /\ synced'
  BY <1>1, <1>2 DEF PutKnows
<1> QED  BY <1>3, <1>4, <1>5 DEF PutKnows

\* The object of another put keeps what is known of it.
LEMMA ObjectStays ==
    ASSUME PutsKnow, NEW p \in PutCall, Others(p), arg' = arg, object' = object, object # p
    PROVE  ObjectIsComplete'
<1>1. object # NoPut => object \in PutCall
  BY DEF PutsKnow, StoreTypeOK
<1> QED  BY <1>1 DEF PutsKnow, ObjectIsComplete, Others

\* The pending file is created.
LEMMA CreateKeeps ==
    ASSUME PutsKnow, NEW p \in PutCall, Create(p)
    PROVE  PutsKnow'
<1>1. /\ pc[p] = "idle" /\ pc' = [pc EXCEPT ![p] = "write"] /\ pending' = pending \cup {p}
      /\ UNCHANGED <<arg, file, removed, object, synced, outcome>>
  BY DEF Create, To
<1>2. StoreTypeOK'
  BY <1>1 DEF PutsKnow, StoreTypeOK
<1>3. Others(p) /\ pc'[p] = "write"
  BY <1>1 DEF PutsKnow, StoreTypeOK, Others
<1>4. object # p
  BY <1>1, StoreAssumption DEF PutsKnow, ObjectIsComplete
<1>5. ObjectIsComplete'
  BY <1>1, <1>3, <1>4, ObjectStays
<1>6. \A q \in PutCall : q # p => PutKnows(q)'
  BY <1>1, <1>3, <1>4, OthersKnow
<1>7. outcome[p] = ""
  BY <1>1 DEF PutsKnow, PutKnows
<1>8. PutKnows(p)'
  BY <1>1, <1>3, <1>7 DEF PutKnows
<1> QED  BY <1>2, <1>5, <1>6, <1>8 DEF PutsKnow

\* A put that has not linked the object ends with an error, and its pending name goes (the
\* finally clause of put).
LEMMA AbandonKeeps ==
    ASSUME PutsKnow, NEW p \in PutCall, NEW error \in Outcomes \ {"ref", ""}, Abandon(p, error),
           pc[p] \in {"write", "link"}
    PROVE  PutsKnow'
<1>1. /\ pc' = [pc EXCEPT ![p] = "ended"] /\ pending' = pending \ {p}
      /\ removed' = removed \cup ({p} \cap pending)
      /\ outcome' = [outcome EXCEPT ![p] = error] /\ UNCHANGED <<arg, file, object, synced>>
  BY DEF Abandon, To, Remove
<1>2. pc' \in [PutCall -> {"idle", "write", "link", "unlink", "sync", "ended", "dead"}]
  BY <1>1 DEF PutsKnow, StoreTypeOK
<1>3. outcome' \in [PutCall -> Outcomes]
  BY <1>1 DEF PutsKnow, StoreTypeOK
<1>4. pending' \subseteq PutCall /\ removed' \subseteq PutCall
  BY <1>1 DEF PutsKnow, StoreTypeOK
<1>5. StoreTypeOK'
  BY <1>1, <1>2, <1>3, <1>4 DEF PutsKnow, StoreTypeOK
<1>6. Others(p) /\ pc'[p] = "ended" /\ outcome'[p] = error
  BY <1>1 DEF PutsKnow, StoreTypeOK, Others
<1>7. object # p
  BY StoreAssumption DEF PutsKnow, ObjectIsComplete
<1>8. ObjectIsComplete'
  BY <1>1, <1>6, <1>7, ObjectStays
<1>9. \A q \in PutCall : q # p => PutKnows(q)'
  BY <1>1, <1>6, <1>7, OthersKnow
<1>10. PutKnows(p)'
  BY <1>6 DEF PutKnows
<1> QED  BY <1>5, <1>8, <1>9, <1>10 DEF PutsKnow

\* The stream is refused.
LEMMA WriteFailsKeeps ==
    ASSUME PutsKnow, NEW p \in PutCall, WriteFails(p)
    PROVE  PutsKnow'
<1>1. PICK error \in {"integrity_error", "storage_error", "source_too_large"} : Abandon(p, error)
  BY DEF WriteFails
<1>2. error \in Outcomes \ {"ref", ""}
  BY <1>1 DEF Outcomes
<1>3. pc[p] = "write"
  BY DEF WriteFails
<1> QED  BY <1>1, <1>2, <1>3, AbandonKeeps

\* The bytes are written before the file can be linked.
LEMMA WriteAllKeeps ==
    ASSUME PutsKnow, NEW p \in PutCall, WriteAll(p)
    PROVE  PutsKnow'
<1>1. /\ pc[p] = "write" /\ arg[p] \notin Oversized /\ pc' = [pc EXCEPT ![p] = "link"]
      /\ file' = [file EXCEPT ![p] = arg[p]]
      /\ UNCHANGED <<arg, pending, removed, object, synced, outcome>>
  BY DEF WriteAll, To
<1>2. pc' \in [PutCall -> {"idle", "write", "link", "unlink", "sync", "ended", "dead"}]
  BY <1>1 DEF PutsKnow, StoreTypeOK
<1>3. file' \in [PutCall -> Content \cup {Torn}]
  BY <1>1 DEF PutsKnow, StoreTypeOK
<1>4. Others(p) /\ pc'[p] = "link" /\ file'[p] = arg[p]
  BY <1>1 DEF PutsKnow, StoreTypeOK, Others
<1>5. object # p
  BY <1>1, StoreAssumption DEF PutsKnow, ObjectIsComplete
<1>6. object # NoPut => object \in PutCall /\ file'[object] = file[object]
  BY <1>4, <1>5 DEF PutsKnow, StoreTypeOK, Others
<1>7. StoreTypeOK'
  BY <1>1, <1>2, <1>3, <1>6 DEF PutsKnow, StoreTypeOK
<1>8. ObjectIsComplete'
  BY <1>1, <1>4, <1>5, ObjectStays
<1>9. \A q \in PutCall : q # p => PutKnows(q)'
  BY <1>1, <1>4, <1>6, OthersKnow
<1>10. outcome[p] = ""
  BY <1>1 DEF PutsKnow, PutKnows
<1>11. PutKnows(p)'
  BY <1>1, <1>4, <1>10 DEF PutKnows
<1> QED  BY <1>7, <1>8, <1>9, <1>11 DEF PutsKnow

\* os.link: the key was free, so nobody had linked, verified or returned an object.
LEMMA LinkKeeps ==
    ASSUME PutsKnow, NEW p \in PutCall, Link(p)
    PROVE  PutsKnow'
<1>1. /\ pc[p] = "link" /\ object = NoPut /\ pc' = [pc EXCEPT ![p] = "unlink"] /\ object' = p
      /\ UNCHANGED <<arg, file, pending, removed, outcome>>
  BY DEF Link, To
<1>2. pc' \in [PutCall -> {"idle", "write", "link", "unlink", "sync", "ended", "dead"}]
  BY <1>1 DEF PutsKnow, StoreTypeOK
<1>3. pc'[p] = "unlink" /\ \A q \in PutCall : q # p => pc'[q] = pc[q]
  BY <1>1 DEF PutsKnow, StoreTypeOK
<1>4. file[p] = arg[p] /\ arg[p] \notin Oversized /\ outcome[p] = ""
  BY <1>1 DEF PutsKnow, PutKnows
<1>5. p # NoPut /\ file[p] # Torn
  <2>1. arg[p] \in Content
    BY DEF PutsKnow, StoreTypeOK
  <2> QED  BY <1>4, <2>1, StoreAssumption
<1>6. StoreTypeOK'
  BY <1>1, <1>2, <1>5 DEF PutsKnow, StoreTypeOK
<1>7. ObjectIsComplete'
  BY <1>1, <1>3, <1>4 DEF ObjectIsComplete
<1>8. \A q \in PutCall : pc[q] \notin {"unlink", "sync"} /\ outcome[q] # "ref"
  BY <1>1 DEF PutsKnow, PutKnows
<1>9. \A q \in PutCall : q # p => PutKnows(q)'
  BY <1>1, <1>3, <1>8 DEF PutsKnow, PutKnows
<1>10. PutKnows(p)'
  BY <1>1, <1>3, <1>4, <1>5 DEF PutKnows
<1> QED  BY <1>6, <1>7, <1>9, <1>10 DEF PutsKnow

\* FileExistsError: the object is verified, or the put ends.
LEMMA ExistsKeeps ==
    ASSUME PutsKnow, NEW p \in PutCall, Exists(p)
    PROVE  PutsKnow'
<1>1. pc[p] = "link" /\ object # NoPut
  BY DEF Exists
<1>3. CASE \E error \in {"storage_error", "object_conflict"} : Abandon(p, error)
  <2>1. PICK error \in {"storage_error", "object_conflict"} : Abandon(p, error)
    BY <1>3
  <2>2. error \in Outcomes \ {"ref", ""}
    BY <2>1 DEF Outcomes
  <2> QED  BY <1>1, <2>1, <2>2, AbandonKeeps
<1>4. CASE /\ ReadResult(arg[p]) = "ref" /\ To(p, "unlink")
           /\ UNCHANGED <<arg, file, pending, removed, object, synced, outcome>>
  <2>1. object \notin pending /\ file[object] = arg[p]
    BY <1>4, ReadFinds
  <2>2. pc' = [pc EXCEPT ![p] = "unlink"]
    BY <1>4 DEF To
  <2>3. pc' \in [PutCall -> {"idle", "write", "link", "unlink", "sync", "ended", "dead"}]
    BY <2>2 DEF PutsKnow, StoreTypeOK
  <2>4. StoreTypeOK'
    BY <1>4, <2>3 DEF PutsKnow, StoreTypeOK
  <2>5. Others(p) /\ pc'[p] = "unlink"
    BY <1>4, <2>2 DEF PutsKnow, StoreTypeOK, Others
  <2>6. object # p
    BY <1>1 DEF PutsKnow, ObjectIsComplete
  <2>7. ObjectIsComplete'
    BY <1>4, <2>5, <2>6, ObjectStays
  <2>8. \A q \in PutCall : q # p => PutKnows(q)'
    BY <1>4, <2>5, OthersKnow
  <2>9. file[p] = arg[p] /\ arg[p] \notin Oversized /\ outcome[p] = ""
    BY <1>1 DEF PutsKnow, PutKnows
  <2>10. PutKnows(p)'
    BY <1>1, <1>4, <2>1, <2>5, <2>9 DEF PutKnows
  <2> QED  BY <2>4, <2>7, <2>8, <2>10 DEF PutsKnow
<1> QED  BY <1>3, <1>4 DEF Exists

\* The pending name is removed.
LEMMA UnlinkKeeps ==
    ASSUME PutsKnow, NEW p \in PutCall, Unlink(p)
    PROVE  PutsKnow'
<1>1. /\ pc[p] = "unlink" /\ pc' = [pc EXCEPT ![p] = "sync"] /\ pending' = pending \ {p}
      /\ removed' = removed \cup ({p} \cap pending)
      /\ UNCHANGED <<arg, file, object, synced, outcome>>
  BY DEF Unlink, To, Remove
<1>2. pc' \in [PutCall -> {"idle", "write", "link", "unlink", "sync", "ended", "dead"}]
  BY <1>1 DEF PutsKnow, StoreTypeOK
<1>3. pending' \subseteq PutCall /\ removed' \subseteq PutCall
  BY <1>1 DEF PutsKnow, StoreTypeOK
<1>4. StoreTypeOK'
  BY <1>1, <1>2, <1>3 DEF PutsKnow, StoreTypeOK
<1>5. Others(p) /\ pc'[p] = "sync"
  BY <1>1 DEF PutsKnow, StoreTypeOK, Others
<1>6. ObjectIsComplete'
  BY <1>1, <1>5 DEF PutsKnow, ObjectIsComplete, Others, StoreTypeOK
<1>7. \A q \in PutCall : q # p => PutKnows(q)'
  BY <1>1, <1>5, OthersKnow
<1>8. /\ file[p] = arg[p] /\ arg[p] \notin Oversized /\ outcome[p] = ""
      /\ object # NoPut /\ file[object] = arg[p] /\ (p = object \/ object \notin pending)
  BY <1>1 DEF PutsKnow, PutKnows
<1>9. PutKnows(p)'
  BY <1>1, <1>5, <1>8 DEF PutKnows
<1> QED  BY <1>4, <1>6, <1>7, <1>9 DEF PutsKnow

\* A system call of the put fails: its pending name may stay, and an object it has linked
\* does.
LEMMA CallFailsKeeps ==
    ASSUME PutsKnow, NEW p \in PutCall, CallFails(p)
    PROVE  PutsKnow'
<1>1. /\ pc[p] \in {"idle", "write", "link", "unlink", "sync"} /\ pc' = [pc EXCEPT ![p] = "ended"]
      /\ outcome' = [outcome EXCEPT ![p] = "storage_error"]
      /\ \/ pending' = pending \ {p} /\ removed' = removed \cup ({p} \cap pending)
         \/ UNCHANGED <<pending, removed>>
      /\ UNCHANGED <<arg, file, object, synced>>
  BY DEF CallFails, To, Remove
<1>2. pc' \in [PutCall -> {"idle", "write", "link", "unlink", "sync", "ended", "dead"}]
  BY <1>1 DEF PutsKnow, StoreTypeOK
<1>3. outcome' \in [PutCall -> Outcomes]
  BY <1>1 DEF PutsKnow, StoreTypeOK, Outcomes
<1>4. pending' \subseteq PutCall /\ removed' \subseteq PutCall
  BY <1>1 DEF PutsKnow, StoreTypeOK
<1>5. StoreTypeOK'
  BY <1>1, <1>2, <1>3, <1>4 DEF PutsKnow, StoreTypeOK
<1>6. Others(p) /\ pc'[p] = "ended" /\ outcome'[p] = "storage_error"
  BY <1>1 DEF PutsKnow, StoreTypeOK, Others
<1>7. ObjectIsComplete'
  BY <1>1, <1>6 DEF PutsKnow, ObjectIsComplete, Others, StoreTypeOK
<1>8. object # NoPut /\ object \notin pending /\ object \notin removed => object \notin removed'
  BY <1>1
<1>9. \A q \in PutCall : q # p => PutKnows(q)'
  BY <1>1, <1>6, <1>8, OthersKnow
<1>10. PutKnows(p)'
  BY <1>6 DEF PutKnows
<1> QED  BY <1>5, <1>7, <1>9, <1>10 DEF PutsKnow

\* The directory is synced: what the put returns is there for good.
LEMMA SyncKeeps ==
    ASSUME PutsKnow, NEW p \in PutCall, Sync(p)
    PROVE  PutsKnow'
<1>1. /\ pc[p] = "sync" /\ pc' = [pc EXCEPT ![p] = "ended"] /\ synced' /\ removed' = {}
      /\ outcome' = [outcome EXCEPT ![p] = "ref"] /\ UNCHANGED <<arg, file, pending, object>>
  BY DEF Sync, To
<1>2. pc' \in [PutCall -> {"idle", "write", "link", "unlink", "sync", "ended", "dead"}]
  BY <1>1 DEF PutsKnow, StoreTypeOK
<1>3. outcome' \in [PutCall -> Outcomes]
  BY <1>1 DEF PutsKnow, StoreTypeOK, Outcomes
<1>4. StoreTypeOK'
  BY <1>1, <1>2, <1>3 DEF PutsKnow, StoreTypeOK
<1>5. Others(p) /\ pc'[p] = "ended" /\ outcome'[p] = "ref"
  BY <1>1 DEF PutsKnow, StoreTypeOK, Others
<1>6. ObjectIsComplete'
  BY <1>1, <1>5 DEF PutsKnow, ObjectIsComplete, Others, StoreTypeOK
<1>7. \A q \in PutCall : q # p => PutKnows(q)'
  BY <1>1, <1>5, OthersKnow
<1>8. object # NoPut /\ file[object] = arg[p] /\ object \notin pending
  BY <1>1 DEF PutsKnow, PutKnows
<1>9. PutKnows(p)'
  BY <1>1, <1>5, <1>8 DEF PutKnows
<1> QED  BY <1>4, <1>6, <1>7, <1>9 DEF PutsKnow

\* The process of a put dies.
LEMMA DieKeeps ==
    ASSUME PutsKnow, NEW p \in PutCall, Die(p)
    PROVE  PutsKnow'
<1>1. /\ pc[p] \notin {"idle", "ended", "dead"} /\ pc' = [pc EXCEPT ![p] = "dead"]
      /\ UNCHANGED <<arg, file, pending, removed, object, synced, outcome>>
  BY DEF Die, Running, To
<1>2. pc' \in [PutCall -> {"idle", "write", "link", "unlink", "sync", "ended", "dead"}]
  BY <1>1 DEF PutsKnow, StoreTypeOK
<1>3. StoreTypeOK'
  BY <1>1, <1>2 DEF PutsKnow, StoreTypeOK
<1>4. Others(p) /\ pc'[p] = "dead"
  BY <1>1 DEF PutsKnow, StoreTypeOK, Others
<1>5. ObjectIsComplete'
  BY <1>1, <1>4 DEF PutsKnow, ObjectIsComplete, Others, StoreTypeOK
<1>6. \A q \in PutCall : q # p => PutKnows(q)'
  BY <1>1, <1>4, OthersKnow
<1>7. outcome[p] = ""
  BY <1>1 DEF PutsKnow, PutKnows
<1>8. PutKnows(p)'
  BY <1>1, <1>4, <1>7 DEF PutKnows
<1> QED  BY <1>3, <1>5, <1>6, <1>8 DEF PutsKnow

\* A power loss ends every call; an object that somebody returned was synced, and so was
\* the removal of its pending name.
LEMMA PowerLossKeeps ==
    ASSUME PutsKnow, PowerLoss
    PROVE  PutsKnow'
<1>1. /\ pc' = [p \in PutCall |-> IF p \in Running THEN "dead" ELSE pc[p]]
      /\ object' = object \/ (~synced /\ object' = NoPut)
      /\ pending' \subseteq pending \cup removed /\ removed' = {}
      /\ UNCHANGED <<arg, file, synced, outcome>>
  BY DEF PowerLoss
<1>2. \A p \in PutCall : /\ pc'[p] \in {"idle", "ended", "dead"} /\ (pc'[p] = "idle" => pc[p] = "idle")
                         /\ pc'[p] = "ended" <=> pc[p] = "ended"
  BY <1>1 DEF Running
<1>3. pc' \in [PutCall -> {"idle", "write", "link", "unlink", "sync", "ended", "dead"}]
  BY <1>1, <1>2
<1>4. StoreTypeOK'
  BY <1>1, <1>3 DEF PutsKnow, StoreTypeOK
<1>5. ObjectIsComplete'
  <2> SUFFICES ASSUME object' # NoPut PROVE ObjectIsComplete'
    BY DEF ObjectIsComplete
  <2>1. object' = object /\ object # NoPut /\ object \in PutCall
    BY <1>1 DEF PutsKnow, StoreTypeOK
  <2>2. /\ pc[object] \in {"unlink", "sync", "ended", "dead"}
        /\ file[object] = arg[object] /\ arg[object] \notin Oversized
        /\ pc[object] = "ended" => outcome[object] \in {"ref", "storage_error"}
    BY <2>1 DEF PutsKnow, ObjectIsComplete
  <2>3. pc'[object] \in {"ended", "dead"}
    BY <1>2, <2>1, <2>2
  <2> QED  BY <1>1, <1>2, <2>1, <2>2, <2>3 DEF ObjectIsComplete
<1>6. ASSUME NEW p \in PutCall PROVE PutKnows(p)'
  <2>1. PutKnows(p)
    BY DEF PutsKnow
  <2>2. pc'[p] # "ended" => outcome'[p] = ""
    BY <1>1, <1>2, <2>1 DEF PutKnows
  <2>3. outcome'[p] = "ref" => /\ object' # NoPut /\ object' \notin pending' \cup removed'
                               /\ file'[object'] = arg'[p] /\ synced'
    BY <1>1, <2>1 DEF PutKnows
  <2> QED  BY <1>2, <2>2, <2>3 DEF PutKnows
<1> QED  BY <1>4, <1>5, <1>6 DEF PutsKnow

-----------------------------------------------------------------------------
(* Every call, death and power loss. *)

\* A key nobody has put yet.
LEMMA NoPutsHold ==
    ASSUME StoreInit
    PROVE  PutsKnow
<1>1. StoreTypeOK
  BY DEF StoreInit, StoreTypeOK, Outcomes
<1>2. ObjectIsComplete
  BY DEF StoreInit, ObjectIsComplete
<1>3. ASSUME NEW p \in PutCall PROVE PutKnows(p)
  BY DEF StoreInit, PutKnows
<1> QED  BY <1>1, <1>2, <1>3 DEF PutsKnow

\* Every call of put, every death of its process and every power loss keeps the invariant.
LEMMA CallsKeep ==
    ASSUME PutsKnow, [StoreNext]_keyVars
    PROVE  PutsKnow'
<1>1. CASE PowerLoss
  BY <1>1, PowerLossKeeps
<1>2. ASSUME NEW p \in PutCall, Step(p) \/ Die(p) PROVE PutsKnow'
  BY <1>2, CreateKeeps, WriteFailsKeeps, WriteAllKeeps, LinkKeeps, ExistsKeeps, UnlinkKeeps,
     CallFailsKeeps, SyncKeeps, DieKeeps DEF Step
<1>3. CASE UNCHANGED keyVars
  BY <1>3 DEF keyVars, PutsKnow, StoreTypeOK, ObjectIsComplete, PutKnows
<1> QED  BY <1>1, <1>2, <1>3 DEF StoreNext

\* The invariant holds of every state of a behaviour.
LEMMA PutsHold == StoreSpec => []PutsKnow
<1>1. StoreInit => PutsKnow
  BY NoPutsHold
<1>2. PutsKnow /\ [StoreNext]_keyVars => PutsKnow'
  BY CallsKeep
<1> QED  BY <1>1, <1>2, PTL DEF StoreSpec

\* A reference that put returned can be read for ever, with the bytes that were put, and
\* the key is linked to a complete file, whatever other puts, deaths of processes, failed
\* calls and power losses follow (LocalObjectStore.put, read).
THEOREM ReturnedIsDurable == StoreSpec => []StoreInv
<1>1. PutsKnow => StoreInv
  BY StoreFollows
<1> QED  BY <1>1, PutsHold, PTL

-----------------------------------------------------------------------------
(* Meeting an object that exists. *)

\* Deaths, failed calls and power losses are counted.
Counted == crashes \in Nat

\* Every step keeps the count a number.
LEMMA CrashesAreCounted == StoreSpec => []Counted
<1>1. StoreInit => Counted
  <2>1. StoreInit => crashes = 0
    BY DEF StoreInit
  <2> QED  BY SMTT(60), <2>1 DEF Counted
<1>2. Counted /\ [StoreNext]_keyVars => Counted'
  <2> SUFFICES ASSUME Counted, [StoreNext]_keyVars PROVE Counted'
    OBVIOUS
  <2>1. crashes' = crashes \/ crashes' = crashes + 1
    BY DEF StoreNext, PowerLoss, Step, Die, Create, WriteFails, WriteAll, Link, Exists, Unlink,
       CallFails, Sync, Abandon, keyVars
  <2> QED  BY SMTT(60), <2>1 DEF Counted
<1> QED  BY <1>1, <1>2, PTL DEF StoreSpec

\* What a step may tell the put p about an object that exists.
Judged(p) ==
    /\ outcome'[p] = "object_conflict" /\ outcome[p] = "" => object # NoPut /\ file[object] # arg[p]
    /\ (/\ pc[p] = "link" /\ object # NoPut /\ file[object] = arg[p] /\ Running = {p}
        /\ outcome'[p] = "storage_error" /\ crashes' = crashes)
       => object \in pending /\ (pc[object] = "dead" \/ outcome[object] = "storage_error")

\* The put that finds an object of its own bytes unreadable, with no other put running,
\* finds the pending name of a put that died or could not clean up.
LEMMA ExistsJudges ==
    ASSUME PutsKnow, NEW p \in PutCall, Exists(p)
    PROVE  Judged(p)
<1>1. pc[p] = "link" /\ object # NoPut /\ outcome[p] = ""
  BY DEF Exists, PutsKnow, PutKnows
<1>2. CASE ReadResult(arg[p]) = "ref"
  BY <1>1, <1>2 DEF Exists, Judged
<1>3. CASE ReadResult(arg[p]) = "storage_error"
  <2>1. object \in pending /\ object \in PutCall
    BY <1>1, <1>3, ReadFinds DEF PutsKnow, StoreTypeOK
  <2>2. outcome' = [outcome EXCEPT ![p] = "storage_error"]
    BY <1>3 DEF Exists, Abandon
  <2>3. outcome'[p] = "storage_error"
    BY <2>2 DEF PutsKnow, StoreTypeOK
  <2>4. ASSUME Running = {p} PROVE pc[object] = "dead" \/ outcome[object] = "storage_error"
    <3>2. /\ pc[object] \in {"unlink", "sync", "ended", "dead"}
          /\ pc[object] = "ended" => outcome[object] \in {"ref", "storage_error"}
      BY <1>1 DEF PutsKnow, ObjectIsComplete
    <3>3. object \notin Running
      BY <1>1, <2>4, <3>2
    <3>4. pc[object] \in {"ended", "dead"}
      BY <2>1, <3>2, <3>3 DEF Running
    <3>5. outcome[object] # "ref"
      BY <2>1 DEF PutsKnow, PutKnows
    <3> QED  BY <3>2, <3>4, <3>5
  <2> QED  BY <1>1, <2>1, <2>3, <2>4 DEF Judged
<1>4. CASE ReadResult(arg[p]) \notin {"ref", "storage_error"}
  <2>1. object \notin pending /\ file[object] # arg[p]
    BY <1>1, <1>4, ReadFinds
  <2> QED  BY <1>1, <2>1 DEF Judged
<1> QED  BY <1>2, <1>3, <1>4

\* No other call is told anything about an object.
LEMMA StepJudges ==
    ASSUME PutsKnow, Counted, NEW p \in PutCall, NEW q \in PutCall, Step(q) \/ Die(q)
    PROVE  Judged(p)
<1>1. CASE p = q /\ Exists(q)
  BY <1>1, ExistsJudges
<1>2. CASE p = q /\ pc[q] = "link" /\ ~Exists(q)
  <2>1. Link(q) \/ Die(q) \/ CallFails(q)
    BY <1>2 DEF Step, Create, WriteFails, WriteAll, Unlink, Sync
  <2>2. CASE Link(q) \/ Die(q)
    <3>1. outcome' = outcome /\ outcome[p] = ""
      BY <1>2, <2>2 DEF Link, Die, PutsKnow, PutKnows
    <3> QED  BY <3>1 DEF Judged
  <2>3. CASE CallFails(q)
    <3>1. crashes' # crashes
      BY SMTT(60), <2>3 DEF CallFails, Counted
    <3>2. outcome'[p] = "storage_error"
      BY <1>2, <2>3 DEF CallFails, PutsKnow, StoreTypeOK
    <3> QED  BY <3>1, <3>2 DEF Judged
  <2> QED  BY <2>1, <2>2, <2>3
<1>3. CASE p = q /\ pc[q] # "link"
  <2>1. outcome'[q] # "object_conflict" \/ outcome[q] = outcome'[q]
    BY <1>3 DEF Step, Create, WriteFails, WriteAll, Link, Exists, Unlink, CallFails, Sync, Die,
       Abandon, PutsKnow, StoreTypeOK
  <2> QED  BY <1>3, <2>1 DEF Judged
<1>4. CASE p # q
  <2>1. outcome'[p] = outcome[p]
    BY <1>4 DEF Step, Create, WriteFails, WriteAll, Link, Exists, Unlink, CallFails, Sync, Die,
       Abandon, PutsKnow, StoreTypeOK
  <2>2. pc[p] = "link" => outcome[p] = ""
    BY DEF PutsKnow, PutKnows
  <2> QED  BY <2>1, <2>2 DEF Judged
<1> QED  BY <1>1, <1>2, <1>3, <1>4

\* A put is told "object_conflict" only about other bytes, and a put of the bytes the
\* object holds, with no other put running and none of its own system calls failing, is
\* refused only while a pending name is left by a put that died or failed (put with _read).
THEOREM ExistingJudgedRightly == StoreSpec => ExistingIsJudgedRightly
<1> DEFINE A == \A p \in PutCall : Judged(p)
<1>1. PutsKnow /\ Counted /\ [StoreNext]_keyVars => [A]_keyVars
  <2> SUFFICES ASSUME PutsKnow, Counted, StoreNext, NEW p \in PutCall PROVE Judged(p)
    OBVIOUS
  <2>1. CASE PowerLoss
    <3>1. outcome' = outcome /\ (pc[p] = "link" => outcome[p] = "")
      BY <2>1 DEF PowerLoss, PutsKnow, PutKnows
    <3> QED  BY <3>1 DEF Judged
  <2> QED  BY <2>1, StepJudges DEF StoreNext
<1>2. StoreSpec => [][A]_keyVars
  <2> HIDE DEF A
  <2> QED  BY <1>1, PutsHold, CrashesAreCounted, PTL DEF StoreSpec
<1> QED  BY <1>2 DEF ExistingIsJudgedRightly, Judged
==============================================================================
