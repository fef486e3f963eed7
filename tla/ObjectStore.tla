----------------------------- MODULE ObjectStore -----------------------------
(***************************************************************************)
(* One key of the local object store (documents/storage.py).  A put writes *)
(* and syncs a private pending file, links it to the key if the key is     *)
(* free, verifies the object already there if it is not, removes the       *)
(* pending name and syncs the directory.  Reads refuse a file with more    *)
(* than one link.  Processes die between any two calls; the machine may    *)
(* lose directory entries that were not synced.                            *)
(*                                                                         *)
(* The inode a put writes is named after the put.  Content stands for      *)
(* bytes, size and digest; Torn is a file some of whose bytes are missing. *)
(***************************************************************************)
EXTENDS Naturals, FiniteSets

CONSTANTS PutCall,    \* calls of put for the key
          Content,    \* what callers may pass
          Oversized,  \* the contents larger than max_bytes
          NoPut,      \* the key is free
          MaxCrashes  \* bound on process deaths, failed system calls and power losses

Torn == "torn"

ASSUME StoreAssumption == Torn \notin Content /\ NoPut \notin PutCall /\ MaxCrashes \in Nat

VARIABLES pc,        \* [PutCall -> where it is]
          arg,       \* [PutCall -> the content passed]
          file,      \* [PutCall -> the content of its inode]
          pending,   \* the puts whose pending name exists
          removed,   \* pending names removed since the directory was last synced
          object,    \* the inode the key is linked to, or NoPut
          synced,    \* the key's directory entry would survive a power loss
          outcome,   \* [PutCall -> "" | "ref" | error category]
          crashes

keyVars == <<pc, arg, file, pending, removed, object, synced, outcome, crashes>>

Outcomes == {"", "ref", "storage_error", "object_conflict", "source_too_large", "integrity_error"}
Running == {p \in PutCall : pc[p] \notin {"idle", "ended", "dead"}}

StoreInit ==
    /\ pc = [p \in PutCall |-> "idle"] /\ arg \in [PutCall -> Content]
    /\ file = [p \in PutCall |-> Torn] /\ pending = {} /\ removed = {} /\ object = NoPut /\ synced = FALSE
    /\ outcome = [p \in PutCall |-> ""] /\ crashes = 0

To(p, place) == pc' = [pc EXCEPT ![p] = place]

\* What _read makes of the object when the reference says c: the link count is
\* looked at first, then size and digest.
Links(o) == 1 + Cardinality({o} \cap pending)
ReadResult(c) ==
    IF object = NoPut THEN "object_not_found"
    ELSE IF Links(object) # 1 THEN "storage_error"
    ELSE IF file[object] \in Oversized THEN "source_too_large"
    ELSE IF file[object] # c THEN "integrity_error"
    ELSE "ref"

\* The pending file is created exclusively.
Create(p) ==
    /\ pc[p] = "idle" /\ To(p, "write") /\ pending' = pending \cup {p}
    /\ UNCHANGED <<arg, file, removed, object, synced, outcome, crashes>>

Remove(p) == pending' = pending \ {p} /\ removed' = removed \cup ({p} \cap pending)

\* The finally clause: the pending name goes, whatever ended the call.
Abandon(p, error) ==
    /\ To(p, "ended") /\ Remove(p)
    /\ outcome' = [outcome EXCEPT ![p] = error]
    /\ UNCHANGED <<arg, file, object, synced, crashes>>

\* The stream is too long, does not have the expected digest, or fails.
WriteFails(p) ==
    /\ pc[p] = "write"
    /\ \E error \in {"integrity_error", "storage_error"} \cup (IF arg[p] \in Oversized THEN {"source_too_large"} ELSE {}) :
          Abandon(p, error)

\* Every byte is written and synced before the file gets its final name.
WriteAll(p) ==
    /\ pc[p] = "write" /\ arg[p] \notin Oversized
    /\ To(p, "link") /\ file' = [file EXCEPT ![p] = arg[p]]
    /\ UNCHANGED <<arg, pending, removed, object, synced, outcome, crashes>>

\* os.link succeeds when the key is free, and names the inode twice.
Link(p) ==
    /\ pc[p] = "link" /\ object = NoPut /\ To(p, "unlink")
    /\ object' = p /\ synced' = FALSE
    /\ UNCHANGED <<arg, file, pending, removed, outcome, crashes>>

\* Mutated: an object in the course of publication counts as a conflict.
ExistsConflates(p) ==
    /\ pc[p] = "link" /\ object # NoPut
    /\ IF ReadResult(arg[p]) = "ref"
       THEN To(p, "unlink") /\ UNCHANGED <<arg, file, pending, removed, object, synced, outcome, crashes>>
       ELSE Abandon(p, "object_conflict")

\* FileExistsError: the object there must verify as the one being put.
Exists(p) ==
    /\ pc[p] = "link" /\ object # NoPut
    /\ LET found == ReadResult(arg[p]) IN
       IF found = "ref"
       THEN To(p, "unlink") /\ UNCHANGED <<arg, file, pending, removed, object, synced, outcome, crashes>>
       ELSE Abandon(p, IF found = "storage_error" THEN found ELSE "object_conflict")

\* The pending name is removed.
Unlink(p) ==
    /\ pc[p] = "unlink" /\ To(p, "sync") /\ Remove(p)
    /\ UNCHANGED <<arg, file, object, synced, outcome, crashes>>

\* A system call of put fails, os.link and the reads of _read included: the call ends as
\* storage_error, with its pending name removed by the finally clause unless that call
\* fails too.
CallFails(p) ==
    /\ pc[p] \in {"idle", "write", "link", "unlink", "sync"} /\ crashes < MaxCrashes
    /\ To(p, "ended") /\ outcome' = [outcome EXCEPT ![p] = "storage_error"]
    /\ crashes' = crashes + 1
    /\ Remove(p) \/ UNCHANGED <<pending, removed>>
    /\ UNCHANGED <<arg, file, object, synced>>

\* Mutated: the reference is returned without syncing the directory.
SyncSkipped(p) ==
    /\ pc[p] = "sync" /\ Abandon(p, "ref")

\* The directory is synced and the reference returned.
Sync(p) ==
    /\ pc[p] = "sync" /\ To(p, "ended") /\ synced' = TRUE /\ removed' = {}
    /\ outcome' = [outcome EXCEPT ![p] = "ref"]
    /\ UNCHANGED <<arg, file, pending, object, crashes>>

\* The process of a put dies between two calls; its pending name stays.
Die(p) ==
    /\ p \in Running /\ crashes < MaxCrashes
    /\ To(p, "dead") /\ crashes' = crashes + 1
    /\ UNCHANGED <<arg, file, pending, removed, object, synced, outcome>>

\* A power loss ends every call; a change of the directory
\* that was not synced may be undone.
PowerLoss ==
    /\ crashes < MaxCrashes /\ crashes' = crashes + 1
    /\ pc' = [p \in PutCall |-> IF p \in Running THEN "dead" ELSE pc[p]]
    /\ object' \in {object} \cup (IF synced THEN {} ELSE {NoPut})
    /\ \E back \in SUBSET (pending \cup removed) : pending' = back
    /\ removed' = {}
    /\ UNCHANGED <<arg, file, synced, outcome>>

Step(p) ==
    \/ Create(p) \/ WriteFails(p) \/ WriteAll(p) \/ Link(p) \/ Exists(p)
    \/ Unlink(p) \/ CallFails(p) \/ Sync(p)
StoreNext == PowerLoss \/ \E p \in PutCall : Step(p) \/ Die(p)

StoreSpec == StoreInit /\ [][StoreNext]_keyVars

(* ---------------------------------------------------------------------- *)

\* Every piece of the store has its type; the key is linked to a synced file.
StoreTypeOK ==
    /\ pc \in [PutCall -> {"idle", "write", "link", "unlink", "sync", "ended", "dead"}]
    /\ arg \in [PutCall -> Content] /\ file \in [PutCall -> Content \cup {Torn}]
    /\ pending \subseteq PutCall /\ removed \subseteq PutCall
    /\ outcome \in [PutCall -> Outcomes]
    /\ object \in PutCall \cup {NoPut} /\ (object # NoPut => file[object] # Torn)

\* Nothing replaces or changes an object a put has returned a reference to, and
\* nothing a later put, crash or power loss does makes it unreadable ("no
\* overwrite"): reading the reference keeps succeeding.
ReturnedStaysReadable ==
    \A p \in PutCall : outcome[p] = "ref" => ReadResult(arg[p]) = "ref"

\* The object was written completely by the put that linked it, which has not gone back
\* and, when it has ended, returned the object or failed to clean up (Link, WriteAll).
ObjectIsComplete ==
    object # NoPut =>
       /\ pc[object] \in {"unlink", "sync", "ended", "dead"}
       /\ file[object] = arg[object] /\ arg[object] \notin Oversized
       /\ pc[object] = "ended" => outcome[object] \in {"ref", "storage_error"}

\* What a put relies on after each call stays true while others run: its own file is
\* complete before the link; the object it linked or verified is still there, with its
\* bytes and without another name; what it returned survives a power loss (WriteAll, Exists,
\* Unlink, Sync).
PutKnows(p) ==
    /\ pc[p] \in {"link", "unlink", "sync"} => file[p] = arg[p] /\ arg[p] \notin Oversized
    /\ pc[p] # "ended" => outcome[p] = ""
    /\ pc[p] = "sync" => p \notin pending
    /\ pc[p] \in {"unlink", "sync"} =>
          object # NoPut /\ file[object] = arg[p] /\ (p = object \/ object \notin pending)
    /\ outcome[p] = "ref" => /\ object # NoPut /\ object \notin pending \cup removed
                             /\ file[object] = arg[p] /\ synced

\* The key is linked to a complete file, and a returned reference can be read for
\* ever; so of puts of different contents at most one returns (put, read).
StoreInv ==
    StoreTypeOK /\ ReturnedStaysReadable /\ ObjectIsComplete /\ \A p \in PutCall : PutKnows(p)

\* What a put makes of an object that exists already is right (put with _read).  It is
\* told "object_conflict" only about other bytes.  And writes are idempotent: a put of
\* the bytes the object holds, made while no other put is running, verifies it, with two
\* exceptions.  One of its own system calls fails (the step then counts a crash); or the
\* put that linked the object died or failed before it removed its pending name, or the
\* removal was undone by a power loss: then the object keeps two links and is refused.
ExistingIsJudgedRightly ==
    [][\A p \in PutCall :
         /\ outcome'[p] = "object_conflict" /\ outcome[p] = "" => object # NoPut /\ file[object] # arg[p]
         /\ (/\ pc[p] = "link" /\ object # NoPut /\ file[object] = arg[p] /\ Running = {p}
             /\ outcome'[p] = "storage_error" /\ crashes' = crashes)
            => object \in pending /\ (pc[object] = "dead" \/ outcome[object] = "storage_error")]_keyVars
=============================================================================
